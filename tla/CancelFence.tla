----------------------------- MODULE CancelFence -----------------------------
(***************************************************************************)
(* EDM52::CancelFence: how the numerical control tells the motion thread   *)
(* that a session is cancelled.  A word with the phase (twice the          *)
(* revision, odd while the fence is being written, the maximum when it is  *)
(* closed) and a word with the session through which work is cancelled.    *)
(* Nobody waits: a writer or reader gives up after a fixed number of       *)
(* attempts, and a writer that gives up closes the fence for good.         *)
(*                                                                         *)
(* Every load, store and compare-exchange is a step.  A worker reads the   *)
(* fence when work is queued (TrySubmitEDMZFixtureRequest) and again       *)
(* before it acts (AffectsSince).                                          *)
(***************************************************************************)
EXTENDS Naturals, Sequences, FiniteSets

CONSTANTS
  Requester,  (* threads that call RequestStop                             *)
  Worker,     (* pieces of work that capture and check the fence           *)
  Session,    (* session numbers                                           *)
  Maximum,    (* Maximum(), the largest phase                              *)
  Tries,      (* attempts of a writer or a reader                          *)
  MaxCalls    (* calls of RequestStop in a run                             *)

ASSUME FenceAssumption ==
  /\ Requester \cap Worker = {}
  /\ Session \subseteq Nat \ {0}
  /\ Maximum \in Nat /\ Maximum % 2 = 1 /\ Maximum > 2
  /\ Tries \in Nat \ {0} /\ MaxCalls \in Nat

VARIABLES
  phase,    (* phase_                                                      *)
  through,  (* throughSession_                                             *)
  pc,       (* where each thread is                                        *)
  try,      (* attempts it has made                                        *)
  seen,     (* the phase it loaded in this attempt                         *)
  session,  (* the session it stops, or works for                          *)
  read,     (* the throughSession_ it loaded                               *)
  ticket,   (* the revision each worker captured                           *)
  calls,    (* calls of RequestStop so far                                 *)
  log,      (* history: the sessions written, one per revision             *)
  covers,   (* history: the workers that had captured when a call began    *)
  owed,     (* history: the workers for which a stop has returned since    *)
  must      (* history: was a stop owed to a worker when its check began   *)

fence == <<phase, through, log>>
locals == <<try, seen, read>>
history == <<covers, owed, must>>
vars == <<fence, pc, locals, session, ticket, calls, history>>

Thread == Requester \cup Worker

Init ==
  /\ phase = 0 /\ through = 0
  /\ pc = [t \in Thread |-> "idle"]
  /\ try = [t \in Thread |-> 0]
  /\ seen = [t \in Thread |-> 0]
  /\ read = [t \in Thread |-> 0]
  /\ session \in {f \in [Thread -> Session \cup {0}] : \A r \in Requester : f[r] = 0}
  /\ ticket = [w \in Worker |-> 0]
  /\ calls = 0 /\ log = <<>>
  /\ covers = [r \in Requester |-> {}]
  /\ owed = {} /\ must = {}

At(t, label) == pc[t] = label
Goto(t, label) == pc' = [pc EXCEPT ![t] = label]

(* The next attempt, unless this was the last. *)
Retry(t, label, last) ==
  /\ Goto(t, IF try[t] + 1 < Tries THEN label ELSE last)
  /\ try' = [try EXCEPT ![t] = IF try[t] + 1 < Tries THEN @ + 1 ELSE 0]

-----------------------------------------------------------------------------
(* RequestStop.                                                            *)

CallStop(r) ==
  /\ At(r, "idle") /\ calls < MaxCalls
  /\ \E s \in Session :
       /\ session' = [session EXCEPT ![r] = s]
       /\ covers' = [covers EXCEPT ![r] =
            {w \in Worker : pc[w] \in {"queued", "check", "check through", "check phase"}
                            /\ session[w] <= s}]
  /\ calls' = calls + 1
  /\ Goto(r, "stop")
  /\ UNCHANGED <<fence, locals, ticket, owed, must>>

StopLoad(r) ==
  /\ At(r, "stop")
  /\ seen' = [seen EXCEPT ![r] = phase]
  /\ IF phase = Maximum THEN Goto(r, "return") /\ UNCHANGED try
     ELSE IF phase % 2 = 1 THEN Retry(r, "stop", "close")
     ELSE Goto(r, "stop through") /\ UNCHANGED try
  /\ UNCHANGED <<fence, read, session, ticket, calls, history>>

StopThrough(r) ==
  /\ At(r, "stop through")
  /\ read' = [read EXCEPT ![r] = through]
  /\ Goto(r, "stop phase")
  /\ UNCHANGED <<fence, try, seen, session, ticket, calls, history>>

(* Mutant: a stop of the same session is taken as already made. *)
StopPhaseEqualKnown(r) ==
  /\ At(r, "stop phase")
  /\ IF phase # seen[r] THEN Retry(r, "stop", "close")
     ELSE /\ Goto(r, IF session[r] <= read[r] THEN "return"
                     ELSE IF phase >= Maximum - 2 THEN "close" ELSE "stop begin")
          /\ UNCHANGED try
  /\ UNCHANGED <<fence, seen, read, session, ticket, calls, history>>

(* Work of an older session cannot stop a newer one; an exhausted counter  *)
(* closes the fence.                                                       *)
StopPhase(r) ==
  /\ At(r, "stop phase")
  /\ IF phase # seen[r] THEN Retry(r, "stop", "close")
     ELSE /\ Goto(r, IF session[r] < read[r] THEN "return"
                     ELSE IF phase >= Maximum - 2 THEN "close" ELSE "stop begin")
          /\ UNCHANGED try
  /\ UNCHANGED <<fence, seen, read, session, ticket, calls, history>>

StopBegin(r) ==
  /\ At(r, "stop begin")
  /\ IF phase = seen[r]
     THEN phase' = phase + 1 /\ Goto(r, "stop write") /\ UNCHANGED try
     ELSE Retry(r, "stop", "close") /\ UNCHANGED phase
  /\ UNCHANGED <<through, log, seen, read, session, ticket, calls, history>>

StopWrite(r) ==
  /\ At(r, "stop write")
  /\ through' = session[r]
  /\ Goto(r, "stop end")
  /\ UNCHANGED <<phase, log, locals, session, ticket, calls, history>>

StopEnd(r) ==
  /\ At(r, "stop end")
  /\ IF phase = seen[r] + 1
     THEN /\ phase' = seen[r] + 2
          /\ log' = Append(log, session[r])
          /\ Goto(r, "return")
     ELSE Goto(r, "close") /\ UNCHANGED <<phase, log>>
  /\ UNCHANGED <<through, locals, session, ticket, calls, history>>

Close(r) ==
  /\ At(r, "close")
  /\ phase' = Maximum
  /\ Goto(r, "return")
  /\ UNCHANGED <<through, log, locals, session, ticket, calls, history>>

Return(r) ==
  /\ At(r, "return")
  /\ owed' = owed \cup covers[r]
  /\ covers' = [covers EXCEPT ![r] = {}]
  /\ try' = [try EXCEPT ![r] = 0]
  /\ seen' = [seen EXCEPT ![r] = 0]
  /\ read' = [read EXCEPT ![r] = 0]
  /\ session' = [session EXCEPT ![r] = 0]
  /\ Goto(r, "idle")
  /\ UNCHANGED <<fence, ticket, calls, must>>

RequestStop(r) ==
  \/ CallStop(r) \/ StopLoad(r) \/ StopThrough(r) \/ StopPhase(r) \/ StopBegin(r)
  \/ StopWrite(r) \/ StopEnd(r) \/ Close(r) \/ Return(r)

-----------------------------------------------------------------------------
(* Read, called by a worker when its work is queued ("queue") and again    *)
(* before it acts ("check").                                               *)

ReadLoad(w, label, then, busy, closed) ==
  /\ At(w, label)
  /\ seen' = [seen EXCEPT ![w] = phase]
  /\ IF phase = Maximum THEN Goto(w, closed) /\ UNCHANGED try
     ELSE IF phase % 2 = 1 THEN Retry(w, label, busy)
     ELSE Goto(w, then) /\ UNCHANGED try
  /\ UNCHANGED <<fence, read, session, ticket, calls, history>>

ReadThrough(w, label, then) ==
  /\ At(w, label)
  /\ read' = [read EXCEPT ![w] = through]
  /\ Goto(w, then)
  /\ UNCHANGED <<fence, try, seen, session, ticket, calls, history>>

(* Mutant: the phase is not loaded again. *)
ReadPhaseOnce(w, label, again, ready, busy, closed) ==
  /\ At(w, label)
  /\ Goto(w, ready)
  /\ UNCHANGED <<fence, try, seen, read, session, ticket, calls, history>>

ReadPhase(w, label, again, ready, busy, closed) ==
  /\ At(w, label)
  /\ IF phase = Maximum THEN Goto(w, closed) /\ UNCHANGED try
     ELSE IF phase # seen[w] THEN Retry(w, again, busy)
     ELSE Goto(w, ready) /\ UNCHANGED try
  /\ UNCHANGED <<fence, seen, read, session, ticket, calls, history>>

Revision(w) == seen[w] \div 2
Valid(w) == (Revision(w) = 0) = (read[w] = 0)
RetiresSession(w) == ~Valid(w) \/ session[w] = 0 \/ session[w] < read[w]
AffectsSince(w) ==
  \/ ~Valid(w) \/ session[w] = 0 \/ Revision(w) < ticket[w]
  \/ Revision(w) > ticket[w] /\ session[w] <= read[w]

(* Work is queued with the revision it captured, unless the fence cannot   *)
(* be read or retires its session.  A closed feedback or a full queue      *)
(* refuses it too; a Stop or a Disarm is queued and applied whatever the   *)
(* fence has cancelled.                                                    *)
Queue(w) ==
  /\ At(w, "queue ready")
  /\ ticket' = [ticket EXCEPT ![w] = Revision(w)]
  /\ \/ Goto(w, "refused")
     \/ Valid(w) /\ session[w] # 0 /\ Goto(w, "cleanup")
     \/ ~RetiresSession(w) /\ Goto(w, "queued")
  /\ UNCHANGED <<fence, locals, session, calls, history>>

CallRead(w) ==
  /\ \/ At(w, "idle") /\ Goto(w, "queue") /\ UNCHANGED must
     \/ /\ At(w, "queued") /\ Goto(w, "check")
        /\ must' = IF w \in owed THEN must \cup {w} ELSE must
  /\ try' = [try EXCEPT ![w] = 0]
  /\ UNCHANGED <<fence, seen, read, session, ticket, calls, covers, owed>>

(* A fence that cannot be read leaves the work queued. *)
Read(w) ==
  \/ CallRead(w)
  \/ ReadLoad(w, "queue", "queue through", "refused", "refused")
  \/ ReadThrough(w, "queue through", "queue phase")
  \/ ReadPhase(w, "queue phase", "queue", "queue ready", "refused", "refused")
  \/ Queue(w)
  \/ ReadLoad(w, "check", "check through", "queued", "queued")
  \/ ReadThrough(w, "check through", "check phase")
  \/ ReadPhase(w, "check phase", "check", "check ready", "queued", "queued")

Check(w) ==
  /\ At(w, "check ready")
  /\ Goto(w, IF ~Valid(w) \/ Revision(w) < ticket[w] THEN "queued"
             ELSE IF AffectsSince(w) \/ RetiresSession(w) THEN "fenced" ELSE "act")
  /\ UNCHANGED <<fence, locals, session, ticket, calls, history>>

(* The work goes on, and is checked again. *)
Act(w) ==
  /\ At(w, "act")
  /\ Goto(w, "queued")
  /\ UNCHANGED <<fence, locals, session, ticket, calls, history>>

Next ==
  \/ \E r \in Requester : RequestStop(r)
  \/ \E w \in Worker : Read(w) \/ Check(w) \/ Act(w)

Spec == Init /\ [][Next]_vars

-----------------------------------------------------------------------------
Reading == {"queue", "queue through", "queue phase", "queue ready",
            "check", "check through", "check phase", "check ready"}

TypeOK ==
  /\ phase \in 0 .. Maximum /\ through \in Session \cup {0}
  /\ pc \in [Thread -> Reading \cup
       {"idle", "stop", "stop through", "stop phase", "stop begin", "stop write",
        "stop end", "close", "return", "queued", "cleanup", "refused", "fenced", "act"}]
  /\ try \in [Thread -> 0 .. Tries - 1] /\ seen \in [Thread -> 0 .. Maximum]
  /\ session \in [Thread -> Session \cup {0}] /\ read \in [Thread -> Session \cup {0}]
  /\ ticket \in [Worker -> Nat] /\ calls \in 0 .. MaxCalls
  /\ log \in Seq(Session)
  /\ covers \in [Requester -> SUBSET Worker]
  /\ owed \subseteq Worker /\ must \subseteq Worker

(* A snapshot that is Ready pairs a revision with the session written in   *)
(* that very revision: never a new session with an old revision, nor the   *)
(* other way round.                                                        *)
ReadyIsConsistent ==
  \A w \in Worker : pc[w] \in {"queue ready", "check ready"} =>
    /\ Revision(w) <= Len(log)
    /\ read[w] = IF Revision(w) = 0 THEN 0 ELSE log[Revision(w)]

(* A stop is never missed: work that was queued before a RequestStop for   *)
(* its session, or a later one, was called does not act on a check that    *)
(* began after that RequestStop returned.                                  *)
NoStopIsMissed == \A w \in Worker : At(w, "act") => w \notin must

(* The session through which work is cancelled only moves forward: a late  *)
(* request for an older session does not uncover a newer one.              *)
ThroughAdvances == [][through' >= through]_through

(* A closed fence is never opened again, whatever writers are on their     *)
(* way.                                                                    *)
ClosedStaysClosed == [][phase = Maximum => phase' = Maximum]_phase

(* Both: no step of a writer, however late, lets cancelled work through.    *)
FenceOnlyTightens == ThroughAdvances /\ ClosedStaysClosed
=============================================================================
