------------------------------ MODULE HomeAxis ------------------------------
(***************************************************************************)
(* The axis command mailbox of MotionCore and its most demanding user, a   *)
(* HOME request of HomingManager on one axis that searches its index.      *)
(*                                                                         *)
(* The control thread submits commands under the lease HOME holds and      *)
(* files the results in a ledger indexed by sequence; the motion thread    *)
(* takes a command, checks its lease, applies it and publishes the result, *)
(* which is dropped when the result ring is full.  HOME keeps the          *)
(* sequences of moves, controlled stops, the reference commit and the last *)
(* disarm of the probe, and polls the ledger for them; velocity commands   *)
(* and the stops of a search are submitted and forgotten.                  *)
(*                                                                         *)
(* A scan of the control thread is two steps, ProcessAxisCommandResults    *)
(* and HomingManager::Process; taking a command with its lease check,      *)
(* applying it and publishing its result are steps of the motion thread.   *)
(* Positions, limits, clocks and the arming of the probe are left out:     *)
(* a search may find its index in any scan, and any scan may find an       *)
(* alarm, a limit or a timeout.  SAFETY is the environment's: how it takes *)
(* the word is the subject of MotionOwnership.  So is the program HOME may *)
(* have taken the motion from: the owner is NONE while nobody or a program *)
(* holds it.                                                               *)
(***************************************************************************)
EXTENDS HomeAxisParameters, Sequences, FiniteSetsExt

VARIABLES
  commands,  (* m_commands of the mailbox                                  *)
  results,   (* m_results                                                  *)
  ledger,    (* m_axisCommandResultLedger                                  *)
  next,      (* m_nextAxisCommandSequence                                  *)
  owner,     (* the owner of motion and its generation                     *)
  axis,      (* AxisContext::state                                         *)
  rt,        (* where the motion thread is, and the command in its hand    *)
  scan,      (* where the control thread is                                *)
  home,      (* HomingManager                                              *)
  emergency, (* HOME has asked for an emergency stop                       *)
  searches, holds, refused, deferred, sessions \* counters for the bounds

channelVars == <<commands, results, ledger, next>>
counters == <<searches, holds, refused, deferred, sessions>>
vars == <<channelVars, owner, axis, rt, scan, home, emergency, counters>>

Invalid == 0
Kind == {"velocity", "stop", "move", "apply home", "probe"}
Outcome == {"APPLIED", "DEFERRED", "REJECTED"}

Inactive == [lease |-> Invalid, active |-> FALSE, run |-> "IDLE",
             cancel |-> FALSE, error |-> FALSE, resume |-> FALSE,
             state |-> "IDLE", issued |-> FALSE, stopIssued |-> FALSE,
             homed |-> FALSE, move |-> Invalid, stop |-> Invalid,
             apply |-> Invalid, disarm |-> Invalid]

Begun(generation) == [Inactive EXCEPT !.lease = generation, !.active = TRUE,
                      !.run = "RUNNING", !.state = "SEARCH_INDEX"]

Init ==
  /\ commands = <<>> /\ results = <<>> /\ next = 1
  /\ ledger = [i \in 0 .. ResultCapacity - 1 |->
                 [sequence |-> Invalid, outcome |-> "REJECTED"]]
  /\ owner = [name |-> "NONE", generation |-> 1]
  /\ axis = "IDLE"
  /\ rt = [at |-> "idle", taken |-> 0]
  /\ scan = "results" /\ home = Inactive /\ emergency = FALSE
  /\ searches = 0 /\ holds = 0 /\ refused = 0 /\ deferred = 0 /\ sessions = 0

Command == [sequence : Nat \ {0}, kind : Kind, lease : Nat]
Receipt == [sequence : Nat, outcome : Outcome]
InHand ==
  [at : {"idle", "drain"}, taken : Nat]
    \cup [at : {"apply"}, taken : Nat, command : Command]
    \cup [at : {"publish"}, taken : Nat, sequence : Nat, outcome : Outcome]
Run == {"IDLE", "RUNNING", "HOLD_DECEL_STOP", "PAUSED"}
HomeState == {"IDLE", "SEARCH_INDEX", "INDEX_DECEL_STOP", "APPLY_HOME",
              "MOVE_TO_ZERO", "HOME_ERROR"}
Request ==
  [lease : Nat, active : BOOLEAN, run : Run, cancel : BOOLEAN, error : BOOLEAN,
   resume : BOOLEAN, state : HomeState, issued : BOOLEAN, stopIssued : BOOLEAN,
   homed : BOOLEAN, move : Nat, stop : Nat, apply : Nat, disarm : Nat]

TypeOK ==
  /\ commands \in Seq(Command) /\ results \in Seq(Receipt)
  /\ ledger \in [0 .. ResultCapacity - 1 -> Receipt]
  /\ next \in Nat \ {0}
  /\ owner \in [name : {"NONE", "HOME", "SAFETY"}, generation : Nat \ {0}]
  /\ axis \in {"IDLE", "VELOCITY", "MOVING", "STOPPING"}
  /\ rt \in InHand
  /\ scan \in {"results", "home"} /\ home \in Request /\ emergency \in BOOLEAN
  /\ searches \in Nat /\ holds \in Nat /\ refused \in Nat
  /\ deferred \in Nat /\ sessions \in Nat

-----------------------------------------------------------------------------
(* The mailbox.                                                            *)

Current(lease) == lease = owner.generation /\ owner.name # "NONE"

HasRoom == Len(commands) < CommandCapacity

Refused(sequence) ==
  /\ refused < MaxRefused /\ refused' = refused + 1
  /\ next' = sequence /\ UNCHANGED commands

(* SubmitAxisCommand: an outdated lease, an ingress that the motion thread *)
(* holds to commit a reference, and a full ring are refused.  The sequence *)
(* is allocated before the push, so a full ring uses it up.                *)
SubmitFrom(sequence, kind, lease) ==
  \/ ~Current(lease) /\ next' = sequence /\ UNCHANGED <<commands, refused>>
  \/ Current(lease) /\ Refused(sequence)
  \/ Current(lease) /\ ~HasRoom /\ Refused(sequence + 1)
  \/ /\ Current(lease) /\ HasRoom
     /\ commands' = Append(commands, [sequence |-> sequence, kind |-> kind,
                                      lease |-> lease])
     /\ next' = sequence + 1 /\ UNCHANGED refused

Submit(kind, lease) == SubmitFrom(next, kind, lease)
Accepted == commands' # commands

(* ProcessAxisCommandResults: a result displaces the one whose sequence    *)
(* is congruent, so of the results of a scan the last one stays.           *)
Slot(sequence) == sequence % ResultCapacity

File(n) ==
  [slot \in DOMAIN ledger |->
     LET here == {i \in 1 .. n : Slot(results[i].sequence) = slot} IN
     IF here = {} THEN ledger[slot] ELSE results[Max(here)]]

ProcessAxisCommandResults ==
  /\ scan = "results"
  /\ LET n == IF Len(results) < ControlLimit THEN Len(results) ELSE ControlLimit
     IN /\ ledger' = File(n)
        /\ results' = SubSeq(results, n + 1, Len(results))
  /\ scan' = "home"
  /\ UNCHANGED <<commands, next, owner, axis, rt, home, emergency, counters>>

(* TryGetAxisCommandResult *)
Answered(sequence) == ledger[Slot(sequence)].sequence = sequence
Result(sequence) == ledger[Slot(sequence)].outcome

-----------------------------------------------------------------------------
(* The motion thread.                                                      *)

(* A pass applies the emergency stop of SAFETY before it drains the        *)
(* mailbox.                                                                *)
BeginPass ==
  /\ rt.at = "idle"
  /\ axis' = IF owner.name = "SAFETY" THEN "IDLE" ELSE axis
  /\ emergency' = (emergency /\ owner.name # "SAFETY")
  /\ rt' = [at |-> "drain", taken |-> 0]
  /\ UNCHANGED <<channelVars, owner, scan, home, counters>>

(* DrainAxisCommandMailbox: the command is taken and its lease checked. *)
Take ==
  /\ rt.at = "drain" /\ rt.taken < RuntimeLimit /\ commands # <<>>
  /\ commands' = Tail(commands)
  /\ rt' = IF Current(Head(commands).lease)
           THEN [at |-> "apply", taken |-> rt.taken + 1, command |-> Head(commands)]
           ELSE [at |-> "publish", taken |-> rt.taken + 1,
                 sequence |-> Head(commands).sequence, outcome |-> "REJECTED"]
  /\ UNCHANGED <<results, ledger, next, owner, axis, scan, home, emergency, counters>>

(* What a command may come to: the geometry of a move, the proof of a      *)
(* reference and the write to the drive may fail.                          *)
Outcomes(kind) ==
  CASE kind \in {"velocity", "stop"} -> {"APPLIED"}
    [] kind \in {"move", "probe"}    -> {"APPLIED", "REJECTED"}
    [] kind = "apply home"           -> Outcome

(* The state of the axis afterwards: StopMove leaves an idle axis alone.   *)
Moved(kind) ==
  CASE kind = "velocity" -> "VELOCITY"
    [] kind = "move"     -> "MOVING"
    [] kind = "stop"     -> IF axis = "IDLE" THEN "IDLE" ELSE "STOPPING"
    [] OTHER             -> axis

Apply ==
  /\ rt.at = "apply"
  /\ \E outcome \in Outcomes(rt.command.kind) :
       /\ axis' = IF outcome = "APPLIED" THEN Moved(rt.command.kind) ELSE axis
       /\ rt' = [at |-> "publish", taken |-> rt.taken,
                 sequence |-> rt.command.sequence, outcome |-> outcome]
       /\ deferred' = deferred + (IF outcome = "DEFERRED" THEN 1 ELSE 0)
  /\ deferred' <= MaxDeferred
  /\ UNCHANGED <<channelVars, owner, scan, home, emergency, searches, holds,
                 refused, sessions>>

(* PublishAxisCommandResult drops the result when the ring is full. *)
Publish ==
  /\ rt.at = "publish"
  /\ results' = IF Len(results) < ResultCapacity
                THEN Append(results, [sequence |-> rt.sequence, outcome |-> rt.outcome])
                ELSE results
  /\ rt' = [at |-> "drain", taken |-> rt.taken]
  /\ UNCHANGED <<commands, ledger, next, owner, axis, scan, home, emergency, counters>>

EndPass ==
  /\ rt.at = "drain" /\ (rt.taken = RuntimeLimit \/ commands = <<>>)
  /\ rt' = [at |-> "idle", taken |-> 0]
  /\ UNCHANGED <<channelVars, owner, axis, scan, home, emergency, counters>>

(* A move arrives, or a deceleration ends. *)
ComeToRest ==
  /\ rt.at = "idle" /\ axis \in {"MOVING", "STOPPING"}
  /\ axis' = "IDLE"
  /\ UNCHANGED <<channelVars, owner, rt, scan, home, emergency, counters>>

(* SAFETY takes the motion from whoever owns it. *)
TakeSafety ==
  /\ owner.name # "SAFETY" /\ (owner.name = "HOME" \/ emergency)
  /\ owner' = [name |-> "SAFETY", generation |-> owner.generation + 1]
  /\ UNCHANGED <<channelVars, axis, rt, scan, home, emergency, counters>>

(* RESET gives it back when the axis stands. *)
ReleaseSafety ==
  /\ owner.name = "SAFETY" /\ axis = "IDLE" /\ ~emergency /\ ~home.active
  /\ owner' = [name |-> "NONE", generation |-> owner.generation + 1]
  /\ UNCHANGED <<channelVars, axis, rt, scan, home, emergency, counters>>

-----------------------------------------------------------------------------
(* HomingManager.                                                          *)

(* Start, on an axis that stands: the motion is acquired, or taken over    *)
(* from a program; neither is granted while a request of SAFETY is open.   *)
Start ==
  /\ scan = "home" /\ ~home.active /\ home.lease = Invalid
  /\ owner.name = "NONE" /\ ~emergency /\ axis = "IDLE" /\ sessions < MaxSessions
  /\ owner' = [name |-> "HOME", generation |-> owner.generation + 1]
  /\ home' = Begun(owner.generation + 1)
  /\ sessions' = sessions + 1
  /\ UNCHANGED <<channelVars, axis, rt, scan, emergency, searches, holds, refused,
                 deferred>>

Asked(h) ==
  /\ scan = "home" /\ home.active /\ home' = h
  /\ UNCHANGED <<channelVars, owner, axis, rt, scan, emergency, searches,
                 refused, deferred, sessions>>

RequestHold ==
  /\ home.run = "RUNNING" /\ ~home.cancel
  /\ holds < MaxHolds /\ holds' = holds + 1
  /\ Asked([home EXCEPT !.run = "HOLD_DECEL_STOP", !.resume = FALSE])

Running(h) == [h EXCEPT !.run = "RUNNING", !.resume = FALSE]

(* Resume; TryResumeFromPaused waits for the axis to stand. *)
Resume ==
  /\ home.run \in {"HOLD_DECEL_STOP", "PAUSED"} /\ ~home.cancel /\ ~home.resume
  /\ Current(home.lease)
  /\ Asked(IF home.run = "PAUSED" /\ axis = "IDLE" THEN Running(home)
           ELSE [home EXCEPT !.resume = TRUE])
  /\ UNCHANGED holds

Cancel == ~home.cancel /\ Asked([home EXCEPT !.cancel = TRUE]) /\ UNCHANGED holds

-----------------------------------------------------------------------------
(* HomingManager::Process.  What a step does to HomingManager is h; what   *)
(* it submits, releases and raises is said beside it.                      *)

Quietly == UNCHANGED <<commands, next, refused, owner, emergency>>
Submitting(kind, lease) == Submit(kind, lease) /\ UNCHANGED <<owner, emergency>>

(* PollHomeCommandResult for the sequence in field f. *)
Poll(h, f) ==
  LET cleared == [h EXCEPT ![f] = Invalid] IN
  IF h[f] = Invalid THEN h
  ELSE IF ~Current(h.lease)
  THEN IF h.cancel THEN cleared ELSE [cleared EXCEPT !.error = TRUE]
  ELSE IF ~Answered(h[f]) THEN h
  ELSE IF Result(h[f]) = "APPLIED" THEN cleared
  ELSE [cleared EXCEPT !.error = TRUE]

Polled(h) == LET m == Poll(h, "move") IN IF m.error THEN m ELSE Poll(m, "stop")

(* GetProbeCommandLease *)
ProbeLease(h) ==
  IF Current(h.lease) THEN h.lease
  ELSE IF owner.name = "SAFETY" THEN owner.generation ELSE Invalid

Forgotten(h) == [h EXCEPT !.lease = Invalid, !.move = Invalid, !.stop = Invalid,
                          !.disarm = Invalid, !.stopIssued = FALSE]

(* SetAxisError ends the request, asks for an emergency stop and disarms   *)
(* the probe without waiting for it; HOME keeps its lease until SAFETY     *)
(* takes over.                                                             *)
FailFrom(sequence, h) ==
  LET failed == [h EXCEPT !.error = TRUE, !.active = FALSE, !.cancel = FALSE,
                          !.resume = FALSE, !.run = "IDLE",
                          !.state = "HOME_ERROR", !.homed = FALSE]
  IN /\ home' = IF Current(h.lease) THEN failed ELSE Forgotten(failed)
     /\ emergency' = TRUE
     /\ SubmitFrom(sequence, "probe", IF UsesProbe THEN ProbeLease(h) ELSE Invalid)
     /\ UNCHANGED owner

Fail(h) == FailFrom(next, h)

(* The lease is not given back before the exact results of the moves, the  *)
(* stops and the last disarm.                                              *)
(* Mutant: only commands that wait in the queue are waited for.            *)
OutstandingQueued(p) == commands # <<>>

Outstanding(p) ==
  p.move # Invalid \/ p.stop # Invalid \/ (p.disarm # Invalid /\ ~Answered(p.disarm))

GivenBack(h) ==
  /\ home' = h /\ owner' = [name |-> "NONE", generation |-> owner.generation + 1]
  /\ UNCHANGED <<commands, next, refused>>

(* RestoreOrReleaseHomeMotionOwner: a lease that was revoked is forgotten, *)
(* one that failed awaits SAFETY, and a disarm that failed asks for it.    *)
(* Releasing the motion, or transferring it back to the program, is        *)
(* refused while the output is reserved and tried again in the next scan;  *)
(* a program that does not adopt what it is given back is contained by an  *)
(* emergency stop.                                                         *)
RestoreOrRelease(h) ==
  LET p == Polled(h) IN
  IF h.lease = Invalid THEN home' = h /\ Quietly
  ELSE IF ~Current(h.lease) THEN home' = Forgotten(h) /\ Quietly
  ELSE IF h.error THEN home' = h /\ Quietly
  ELSE IF p.error THEN Fail(p)
  ELSE IF Outstanding(p) THEN home' = p /\ Quietly
  ELSE IF p.disarm # Invalid /\ Result(p.disarm) # "APPLIED"
  THEN /\ home' = [p EXCEPT !.disarm = Invalid, !.error = TRUE]
       /\ emergency' = TRUE
       /\ UNCHANGED <<commands, next, refused, owner>>
  ELSE \/ /\ home' = [p EXCEPT !.disarm = Invalid]
          /\ Refused(next) /\ UNCHANGED <<owner, emergency>>
       \/ /\ GivenBack([p EXCEPT !.disarm = Invalid, !.lease = Invalid])
          /\ UNCHANGED emergency
       \/ /\ GivenBack([p EXCEPT !.disarm = Invalid, !.lease = Invalid, !.error = TRUE])
          /\ emergency' = TRUE

(* IsHomeAxisControlStopped: the receipts first, then a stop while a move  *)
(* is out or the axis moves, then the verdict.                             *)
(* Mutant: an axis without a move has nothing to stop. *)
WantsStopOfMove(h) == h.move # Invalid /\ ~h.stopIssued /\ Current(h.lease)

WantsStop(h) ==
  /\ h.move # Invalid \/ axis \notin {"IDLE", "STOPPING"}
  /\ ~h.stopIssued /\ Current(h.lease)

ControlStopped(h) == h.move = Invalid /\ h.stop = Invalid /\ axis = "IDLE"

(* QueueHomeControlStop *)
QueueControlStop(h) ==
  /\ Submitting("stop", h.lease)
  /\ home' = IF Accepted THEN [h EXCEPT !.stop = next, !.stopIssued = TRUE]
             ELSE h

(* DisarmDriveProbe with its result tracked; the request ends when the     *)
(* disarm is queued.                                                       *)
Retired(h) == [h EXCEPT !.active = FALSE, !.cancel = FALSE, !.resume = FALSE,
                        !.run = "IDLE", !.state = "IDLE", !.issued = FALSE]

Disarm(h) ==
  IF UsesProbe /\ h.disarm = Invalid
  THEN /\ Submitting("probe", ProbeLease(h))
       /\ home' = IF ~Accepted THEN h
                  ELSE IF ~Current(h.lease) THEN Forgotten(Retired(h))
                  ELSE Retired([h EXCEPT !.disarm = next])
  ELSE RestoreOrRelease(Retired(h))

ProcessCancel ==
  LET h == IF Current(home.lease) THEN home
           ELSE [home EXCEPT !.move = Invalid, !.stop = Invalid, !.stopIssued = FALSE]
      p == Polled(h)
  IN IF p.error THEN Fail(p)
     ELSE IF WantsStop(p) THEN QueueControlStop(p)
     ELSE IF ~ControlStopped(p) THEN home' = p /\ Quietly
     ELSE Disarm([p EXCEPT !.stopIssued = FALSE, !.homed = FALSE])

(* ProcessHold: the index may be captured while the axis decelerates, and  *)
(* a move that was stopped is commanded again after the pause.             *)
ProcessHold(p) ==
  \E h \in {p} \cup (IF p.state = "SEARCH_INDEX"
                     THEN {[p EXCEPT !.state = "INDEX_DECEL_STOP", !.issued = FALSE]}
                     ELSE {}) :
    IF WantsStop(h) THEN QueueControlStop(h)
    ELSE /\ Quietly
         /\ home' = IF ~ControlStopped(h) THEN h
                    ELSE LET paused == [h EXCEPT !.run = "PAUSED", !.stopIssued = FALSE,
                               !.issued = @ /\ h.state # "MOVE_TO_ZERO"]
                         IN IF h.resume THEN Running(paused) ELSE paused

ProcessPaused(h) ==
  home' = (IF h.resume /\ axis = "IDLE" THEN Running(h) ELSE h) /\ Quietly

-----------------------------------------------------------------------------
(* ProcessAxis, one operator per HomeState; a limit, a distance, a timeout *)
(* or a sensor may fail the request in any of them.                        *)

Entering(h, state) == [h EXCEPT !.state = state, !.issued = FALSE]

IndexFound(h) ==
  /\ home' = Entering(h, "INDEX_DECEL_STOP")
  /\ IF axis = "VELOCITY" THEN Submitting("stop", h.lease) ELSE Quietly
  /\ UNCHANGED searches

IndexSought(h) ==
  IF axis \notin {"IDLE", "VELOCITY"} THEN Fail(h) /\ UNCHANGED searches
  ELSE /\ searches < MaxSearches /\ searches' = searches + 1
       /\ home' = [h EXCEPT !.issued = TRUE]
       /\ Submitting("velocity", h.lease)

IndexDecelStop(h) ==
  CASE axis = "VELOCITY" -> home' = h /\ Submitting("stop", h.lease)
    [] axis = "STOPPING" -> home' = h /\ Quietly
    [] axis = "MOVING"   -> Fail(h)
    [] axis = "IDLE"     -> home' = Entering(h, "APPLY_HOME") /\ Quietly

ApplyHome(h) ==
  IF axis # "IDLE" THEN Fail(h)
  ELSE IF h.apply = Invalid
  THEN \/ home' = h /\ Refused(next) /\ UNCHANGED <<owner, emergency>>
       \/ /\ Submitting("apply home", h.lease) /\ Accepted
          /\ home' = [h EXCEPT !.apply = next]
       \/ ~HasRoom /\ FailFrom(next + 1, h)
  ELSE IF ~Answered(h.apply) THEN home' = h /\ Quietly
  ELSE LET answered == [h EXCEPT !.apply = Invalid] IN
       CASE Result(h.apply) = "DEFERRED" -> home' = answered /\ Quietly
         [] Result(h.apply) = "REJECTED" -> Fail(answered)
         [] Result(h.apply) = "APPLIED"  ->
              home' = Entering([answered EXCEPT !.homed = TRUE], "MOVE_TO_ZERO") /\ Quietly

MoveToZero(h) ==
  IF ~h.issued /\ axis = "IDLE"
  THEN /\ Submitting("move", h.lease)
       /\ home' = IF Accepted THEN [h EXCEPT !.move = next, !.issued = TRUE] ELSE h
  ELSE IF ~h.issued \/ h.move # Invalid \/ axis \in {"MOVING", "STOPPING"}
  THEN home' = h /\ Quietly
  ELSE IF axis = "IDLE" THEN Disarm(h) ELSE Fail(h)

ProcessAxis(h) ==
  \/ h.state = "SEARCH_INDEX" /\ (IndexFound(h) \/ IndexSought(h))
  \/ h.state = "INDEX_DECEL_STOP" /\ IndexDecelStop(h) /\ UNCHANGED searches
  \/ h.state = "APPLY_HOME" /\ ApplyHome(h) /\ UNCHANGED searches
  \/ h.state = "MOVE_TO_ZERO" /\ MoveToZero(h) /\ UNCHANGED searches
  \/ Fail(h) /\ UNCHANGED searches

(* An alarm fails a request that is not being cancelled, as a lease that   *)
(* was revoked does.                                                       *)
Process ==
  /\ scan = "home" /\ scan' = "results"
  /\ LET p == Polled(home) IN
     \/ /\ ~home.active /\ RestoreOrRelease(home) /\ UNCHANGED searches
     \/ /\ home.active /\ home.cancel /\ ProcessCancel /\ UNCHANGED searches
     \/ /\ home.active /\ ~home.cancel /\ Fail(home) /\ UNCHANGED searches
     \/ /\ home.active /\ ~home.cancel /\ Current(home.lease)
        /\ \/ p.error /\ Fail(p) /\ UNCHANGED searches
           \/ /\ ~p.error /\ home.run = "HOLD_DECEL_STOP"
              /\ ProcessHold(p) /\ UNCHANGED searches
           \/ /\ ~p.error /\ home.run = "PAUSED"
              /\ ProcessPaused(p) /\ UNCHANGED searches
           \/ ~p.error /\ home.run = "RUNNING" /\ ProcessAxis(p)
  /\ UNCHANGED <<results, ledger, axis, rt, holds, deferred, sessions>>

-----------------------------------------------------------------------------
Control == ProcessAxisCommandResults \/ Process
Runtime == BeginPass \/ Take \/ Apply \/ Publish \/ EndPass

Next ==
  \/ Control \/ Runtime \/ ComeToRest
  \/ Start \/ RequestHold \/ Resume \/ Cancel
  \/ TakeSafety \/ ReleaseSafety

(* Both threads are cyclic; what moves comes to rest, which the motion     *)
(* thread may see in every pass (hence the strong form); a requested       *)
(* emergency stop is granted.                                              *)
Fairness ==
  /\ WF_vars(Control) /\ WF_vars(Runtime)
  /\ SF_vars(ComeToRest) /\ WF_vars(TakeSafety /\ emergency)

Spec == Init /\ [][Next]_vars
FairSpec == Spec /\ Fairness

-----------------------------------------------------------------------------
OnTheWay ==
  {commands[i] : i \in DOMAIN commands}
    \cup (IF rt.at = "apply" THEN {rt.command} ELSE {})

(* HOME does not give its lease back while the motion thread may still     *)
(* apply a command under it ("a zero queue depth is not sufficient",       *)
(* RestoreOrReleaseHomeMotionOwner).                                       *)
ReturnedLeaseIsSettled ==
  [][owner.name = "HOME" /\ owner'.name = "NONE"
       => \A c \in OnTheWay : c.lease # owner.generation]_vars

(* HomingManager.cpp 809: once HOME is completely paused, its timeouts and *)
(* the supervision of distances are frozen, so an axis that is paused must *)
(* not be driven.  The stop of a feed hold fences a move that is queued    *)
(* and not applied yet; a search velocity has no receipt to tell of it.    *)
PausedAxisIsNotDriven ==
  home.run = "PAUSED" /\ Current(home.lease) => axis \notin {"MOVING", "VELOCITY"}

(* A request that is cancelled ends, and HOME's lease with it: no result   *)
(* it waits for is lost, whatever the rings and the ledger hold.           *)
CancelRetires == home.cancel ~> home.lease = Invalid
=============================================================================
