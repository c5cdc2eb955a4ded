----------------------------- MODULE EDMRTShadow -----------------------------
(***************************************************************************)
(* EDM48::Channel: velocity commands of the NC thread for a consumer that  *)
(* runs in the real-time cycle, and the feedback it publishes.             *)
(*                                                                         *)
(* The NC thread alone starts a session, submits, neutralizes, cancels and *)
(* reads.  What it withdraws it withdraws by three fences (the latest      *)
(* session, the sessions cancelled, the commands neutralized), because the *)
(* queue may be full and the cycle may be late.  The cycle loads the       *)
(* fences one by one, before and after every request it pops, and          *)
(* publishes what it applied together with the fences it saw.  The NC      *)
(* thread returns a feedback only when those are still the current ones.   *)
(*                                                                         *)
(* A store, a load, a push, a pop and a publication are steps.  The ring   *)
(* is a bounded queue (module SpscRing) and the banks are a register       *)
(* (module FeedbackChannel).  Counters that saturate at 2^64 are left out. *)
(***************************************************************************)
EXTENDS Naturals, Sequences

CONSTANTS
  MaxSession, (* sessions the NC thread starts                             *)
  MaxCommand, (* commands it submits                                       *)
  Capacity,   (* requests the ring holds                                   *)
  MaxPops,    (* requests the cycle takes in one pass                      *)
  Facts,      (* what the facts of a pass may fit: sets of sessions        *)
  Nothing     (* no feedback, or no request                                *)

ASSUME ShadowAssumption ==
  /\ MaxSession \in Nat /\ MaxCommand \in Nat
  /\ Capacity \in Nat \ {0} /\ MaxPops \in Nat \ {0}
  /\ Facts \subseteq SUBSET (1 .. MaxSession)

VARIABLES
  latest,            (* latestSession_                                     *)
  cancelThrough,     (* cancelThroughSession_                              *)
  neutralizeThrough, (* neutralizeThroughCommand_                          *)
  queue,             (* requests_                                          *)
  published,         (* the feedback in the bank to read                   *)
  nc,                (* where the NC thread is                             *)
  request,           (* the request it sends                               *)
  control,           (* m_edmRTShadowControl of NCManager                  *)
  command,           (* lastControlCommand_                                *)
  seen,              (* what its last read returned, while no fence moved  *)
  rt,                (* where the cycle is                                 *)
  loaded,            (* the fences it has loaded                           *)
  taken,             (* the request it has popped                          *)
  pops,              (* how many it has popped in this pass                *)
  fit,               (* sessions whose scope the facts of the pass satisfy *)
  drained,           (* a drain was applied in this pass                   *)
  f,                 (* f_, the feedback it builds                         *)
  entry              (* history: the fences when the pass began            *)

fences == <<latest, cancelThrough, neutralizeThrough>>
ncVars == <<nc, request, control, command, seen>>
cycleVars == <<pops, fit, drained, entry>>
rtVars == <<rt, loaded, taken, cycleVars, f>>
vars == <<fences, queue, published, ncVars, rtVars>>

Session == 1 .. MaxSession
Command == 1 .. MaxCommand

ActiveState == {"Running", "Blocked", "Draining", "Completed"}
State == ActiveState \cup {"Idle", "AwaitStart", "Cancelled", "Fault"}

Request ==
  [kind : {"start"}, session : Session, command : {0}]
  \cup [kind : {"velocity", "drain"}, session : Session, command : Command]

Feedback ==
  [session : 0 .. MaxSession, state : State, latest : 0 .. MaxSession,
   cancelled : 0 .. MaxSession, neutralized : 0 .. MaxCommand,
   last : 0 .. MaxCommand, speed : 0 .. MaxCommand,
   started : BOOLEAN, pendingDrain : BOOLEAN]

Fences == [latest : 0 .. MaxSession, cancelled : 0 .. MaxSession,
           neutralized : 0 .. MaxCommand]

Control == [session : 0 .. MaxSession, submitted : 0 .. MaxCommand,
            drainSubmitted : BOOLEAN, cancelled : BOOLEAN, cancelPending : BOOLEAN]

Opened(s) == [session |-> s, submitted |-> 0, drainSubmitted |-> FALSE,
              cancelled |-> FALSE, cancelPending |-> FALSE]

NoFences == [latest |-> 0, cancelled |-> 0, neutralized |-> 0]

CurrentFences == [latest |-> latest, cancelled |-> cancelThrough,
                  neutralized |-> neutralizeThrough]

Init ==
  /\ latest = 0 /\ cancelThrough = 0 /\ neutralizeThrough = 0
  /\ queue = <<>> /\ published = Nothing
  /\ nc = "idle" /\ request = Nothing /\ control = Opened(0) /\ command = 0
  /\ seen = Nothing
  /\ rt = [at |-> "idle", context |-> "none"] /\ loaded = NoFences /\ taken = Nothing
  /\ pops = 0 /\ fit = {} /\ drained = FALSE /\ entry = NoFences
  /\ f = [session |-> 0, state |-> "Idle", latest |-> 0, cancelled |-> 0,
          neutralized |-> 0, last |-> 0, speed |-> 0,
          started |-> FALSE, pendingDrain |-> FALSE]

-----------------------------------------------------------------------------
(* The NC thread.                                                          *)

Maximum(a, b) == IF b > a THEN b ELSE a

Goto(label) == nc' = label

(* ReadEDMRTShadowSameThread and the other calls need a session that is    *)
(* not cancelled.                                                          *)
InSession == nc = "idle" /\ control.session # 0 /\ ~control.cancelled

(* StartEDMProcessIntentSameThread cancels the session it replaces. *)
Start ==
  /\ nc = "idle" /\ control.session < MaxSession
  /\ cancelThrough' = IF InSession THEN Maximum(cancelThrough, control.session)
                      ELSE cancelThrough
  /\ control' = Opened(control.session + 1)
  /\ request' = [kind |-> "start", session |-> control.session + 1, command |-> 0]
  /\ seen' = Nothing
  /\ Goto("open")
  /\ UNCHANGED <<latest, neutralizeThrough, queue, published, command, rtVars>>

OpenSession ==
  /\ nc = "open"
  /\ latest' = control.session
  /\ Goto("push")
  /\ UNCHANGED <<cancelThrough, neutralizeThrough, queue, published, request,
                 control, command, seen, rtVars>>

(* Mutant: an older command keeps its floor. *)
LazyFloor(c) == neutralizeThrough

FloorOf(c) == Maximum(neutralizeThrough, c - 1)

(* A packet of the session: the commands it follows are neutralized first. *)
Submit(kind) ==
  /\ InSession /\ ~control.drainSubmitted /\ command < MaxCommand
  /\ command' = command + 1
  /\ request' = [kind |-> kind, session |-> control.session, command |-> command + 1]
  /\ neutralizeThrough' = FloorOf(command + 1)
  /\ seen' = Nothing
  /\ Goto("push")
  /\ UNCHANGED <<latest, cancelThrough, queue, published, control, rtVars>>

Push ==
  /\ nc = "push" /\ Len(queue) < Capacity
  /\ queue' = Append(queue, request)
  /\ control' = IF request.kind = "start" THEN control
                ELSE [control EXCEPT !.submitted = request.command,
                                     !.drainSubmitted = request.kind = "drain"]
  /\ request' = Nothing
  /\ Goto("idle")
  /\ UNCHANGED <<fences, published, command, seen, rtVars>>

PushRefused ==
  /\ nc = "push" /\ Len(queue) >= Capacity
  /\ Goto(IF request.kind = "start" THEN "cancel" ELSE "withdraw")
  /\ UNCHANGED <<fences, queue, published, request, control, command, seen, rtVars>>

(* A submission that failed does not leave the preceding one eligible. *)
Withdraw ==
  /\ nc = "withdraw"
  /\ neutralizeThrough' = Maximum(neutralizeThrough, request.command)
  /\ Goto("cancel")
  /\ UNCHANGED <<latest, cancelThrough, queue, published, request, control,
                 command, seen, rtVars>>

CancelSession ==
  /\ cancelThrough' = Maximum(cancelThrough, control.session)
  /\ control' = [control EXCEPT !.cancelled = TRUE, !.cancelPending = TRUE]
  /\ request' = Nothing
  /\ seen' = Nothing
  /\ Goto("idle")
  /\ UNCHANGED <<latest, neutralizeThrough, queue, published, command, rtVars>>

CancelRefused == nc = "cancel" /\ CancelSession

Cancel == InSession /\ CancelSession

(* The local model is blocked: what was submitted shall not move. *)
Neutralize ==
  /\ InSession /\ ~control.drainSubmitted
  /\ neutralizeThrough' = Maximum(neutralizeThrough, control.submitted)
  /\ seen' = Nothing
  /\ UNCHANGED <<latest, cancelThrough, queue, published, nc, request, control,
                 command, rtVars>>

ReadReturns ==
  /\ published # Nothing
  /\ published.latest = latest
  /\ published.cancelled = cancelThrough
  /\ published.neutralized = neutralizeThrough

Read ==
  /\ InSession /\ ReadReturns
  /\ seen' = published
  /\ UNCHANGED <<fences, queue, published, nc, request, control, command, rtVars>>

(* ServiceEDMRTShadowCancelSameThread. *)
AcknowledgeCancel ==
  /\ nc = "idle" /\ control.cancelPending
  /\ ReadReturns
  /\ published.state = "Cancelled"
  /\ published.latest = control.session /\ published.cancelled >= control.session
  /\ ~published.pendingDrain /\ published.speed = 0
  /\ control' = [control EXCEPT !.cancelPending = FALSE]
  /\ seen' = published
  /\ UNCHANGED <<fences, queue, published, nc, request, command, rtVars>>

NC ==
  \/ Start \/ OpenSession \/ \E kind \in {"velocity", "drain"} : Submit(kind)
  \/ Push \/ PushRefused \/ Withdraw \/ CancelRefused \/ Cancel \/ Neutralize
  \/ Read \/ AcknowledgeCancel

-----------------------------------------------------------------------------
(* What the cycle does with its feedback.                                  *)

Stopped(g, state) == [g EXCEPT !.state = state, !.speed = 0, !.pendingDrain = FALSE]

Trip(g) == Stopped(g, "Fault")

Active(g) == g.state \in ActiveState

(* RuntimeReady: clock, PDO, authority, and the epoch and lease of the     *)
(* scope.                                                                  *)
Ready(g) == g.session \in fit

(* The copy of the fences that ObserveFences keeps in the feedback. *)
WithFences(g, fence) ==
  [g EXCEPT !.latest = fence.latest, !.cancelled = fence.cancelled,
            !.neutralized = fence.neutralized]

SessionCancelled(fence) == fence.latest # 0 /\ fence.latest <= fence.cancelled

Retired(g, fence) ==
  [Stopped(g, IF SessionCancelled(fence) THEN "Cancelled"
              ELSE IF fence.latest = 0 THEN "Idle" ELSE "AwaitStart")
     EXCEPT !.started = FALSE]

CommandNeutralized(g) ==
  /\ g.last # 0 /\ g.last <= g.neutralized
  /\ g.state \in {"Running", "Draining", "Completed"}

(* Mutant: a neutralized command goes on moving. *)
ObserveSessionsOnly(g, fence) ==
  LET h == WithFences(g, fence)
  IN IF SessionCancelled(fence) \/ h.session # fence.latest THEN Retired(h, fence)
     ELSE h

(* Mutant: a session that was never started has nothing to cancel. *)
ObserveStartedOnly(g, fence) ==
  LET h == WithFences(g, fence)
  IN IF ~h.started THEN h
     ELSE IF SessionCancelled(fence) \/ h.session # fence.latest THEN Retired(h, fence)
     ELSE IF ~CommandNeutralized(h) THEN h
     ELSE IF h.state # "Running" THEN Trip(h)
     ELSE [h EXCEPT !.state = "Blocked", !.speed = 0]

(* A velocity that is neutralized blocks the consumer, a drain fails. *)
ObserveFences(g, fence) ==
  LET h == WithFences(g, fence)
  IN IF SessionCancelled(fence) \/ h.session # fence.latest THEN Retired(h, fence)
     ELSE IF ~CommandNeutralized(h) THEN h
     ELSE IF h.state # "Running" THEN Trip(h)
     ELSE [h EXCEPT !.state = "Blocked", !.speed = 0]

(* StartRuntime, for an initial intent that is valid and young or not. *)
StartRuntime(g, req, valid) ==
  LET h == [Stopped(g, g.state) EXCEPT !.session = req.session, !.last = 0]
  IN IF req.session # g.latest \/ req.session <= g.cancelled THEN g
     ELSE IF g.started \/ g.session = req.session THEN Trip(g)
     ELSE IF ~Ready(h) \/ ~valid THEN Trip(h)
     ELSE [h EXCEPT !.started = TRUE, !.state = "Blocked"]

Applied(g, req) ==
  [g EXCEPT !.last = req.command, !.pendingDrain = req.kind = "drain",
            !.speed = IF req.kind = "drain" THEN 0 ELSE req.command,
            !.state = IF req.kind = "drain" THEN "Draining" ELSE "Running"]

Fenced(g, req) ==
  \/ req.session # g.latest \/ req.session <= g.cancelled
  \/ req.command <= g.neutralized

(* Mutant: a packet that is not valid is skipped. *)
ApplyOrSkip(g, req, valid) ==
  IF Fenced(g, req) \/ ~valid THEN g
  ELSE IF ~g.started \/ g.state \notin {"Running", "Blocked"} THEN Trip(g)
  ELSE IF ~Ready(g) \/ req.session # g.session THEN Trip(g)
  ELSE Applied(g, req)

(* ApplyRuntime, for a packet the consumer accepts or refuses. *)
ApplyRuntime(g, req, valid) ==
  IF Fenced(g, req) THEN g
  ELSE IF ~g.started \/ g.state \notin {"Running", "Blocked"} THEN Trip(g)
  ELSE IF ~Ready(g) \/ req.session # g.session \/ ~valid THEN Trip(g)
  ELSE Applied(g, req)

(* The facts of the pass, then the age of the packet that moves. *)
Supervise(g, stale) ==
  IF Active(g) /\ ~Ready(g) THEN Trip(g)
  ELSE IF g.state = "Running" /\ stale THEN Trip(g)
  ELSE g

-----------------------------------------------------------------------------
(* RuntimeCycle.  The context of ReadFences is the step that follows it.   *)

Context == {"entry", "before", "after", "exit"}
FenceStep == {"latest", "cancelled", "neutralized"}
CyclePc == [at : FenceStep, context : Context]
           \cup [at : {"idle", "pop", "publish"}, context : {"none"}]
RtGoto(at, context) == rt' = [at |-> at, context |-> context]

RtAt(at) == rt.at = at

BeginCycle ==
  /\ RtAt("idle")
  /\ \E facts \in Facts : fit' = facts
  /\ entry' = CurrentFences
  /\ RtGoto("latest", "entry")
  /\ UNCHANGED <<fences, queue, published, ncVars, loaded, taken, pops, drained, f>>

LoadLatest ==
  /\ RtAt("latest")
  /\ loaded' = [loaded EXCEPT !.latest = latest]
  /\ RtGoto("cancelled", rt.context)
  /\ UNCHANGED <<fences, queue, published, ncVars, taken, cycleVars, f>>

LoadCancelled ==
  /\ RtAt("cancelled")
  /\ loaded' = [loaded EXCEPT !.cancelled = cancelThrough]
  /\ RtGoto("neutralized", rt.context)
  /\ UNCHANGED <<fences, queue, published, ncVars, taken, cycleVars, f>>

(* The last load, and what the cycle does before it touches shared memory  *)
(* again: it observes the fences, and acts on the request in its hands.    *)
LoadNeutralized(context) ==
  /\ RtAt("neutralized") /\ rt.context = context
  /\ loaded' = NoFences

ReadFences == [loaded EXCEPT !.neutralized = neutralizeThrough]

ObserveEntry(stale) ==
  /\ LoadNeutralized("entry")
  /\ f' = Supervise(ObserveFences(f, ReadFences), stale)
  /\ RtGoto("pop", "none")
  /\ UNCHANGED <<fences, queue, published, ncVars, taken, cycleVars>>

Pop ==
  /\ RtAt("pop") /\ pops < MaxPops /\ queue # <<>>
  /\ taken' = Head(queue) /\ queue' = Tail(queue)
  /\ pops' = pops + 1
  /\ RtGoto("latest", "before")
  /\ UNCHANGED <<fences, published, ncVars, loaded, fit, drained, entry, f>>

ObserveStart(valid) ==
  /\ LoadNeutralized("before") /\ taken.kind = "start"
  /\ f' = StartRuntime(ObserveFences(f, ReadFences), taken, valid)
  /\ taken' = Nothing
  /\ RtGoto("latest", "after")
  /\ UNCHANGED <<fences, queue, published, ncVars, cycleVars>>

ObserveApply(valid) ==
  /\ LoadNeutralized("before") /\ taken.kind # "start"
  /\ LET g == ObserveFences(f, ReadFences)
     IN /\ f' = ApplyRuntime(g, taken, valid)
        /\ drained' = (drained \/ (f'.state = "Draining" /\ f'.last # g.last))
  /\ taken' = Nothing
  /\ RtGoto("latest", "after")
  /\ UNCHANGED <<fences, queue, published, ncVars, pops, fit, entry>>

ObserveAfter ==
  /\ LoadNeutralized("after")
  /\ f' = ObserveFences(f, ReadFences)
  /\ RtGoto("pop", "none")
  /\ UNCHANGED <<fences, queue, published, ncVars, taken, cycleVars>>

(* A drain is complete in a later pass than it was applied in, when the    *)
(* millisecond has advanced.                                               *)
EndPops(later) ==
  /\ RtAt("pop") /\ (pops = MaxPops \/ queue = <<>>)
  /\ f' = IF f.state = "Draining" /\ ~drained /\ later /\ Ready(f)
          THEN [f EXCEPT !.pendingDrain = FALSE, !.state = "Completed"]
          ELSE f
  /\ pops' = 0 /\ fit' = {} /\ drained' = FALSE
  /\ RtGoto("latest", "exit")
  /\ UNCHANGED <<fences, queue, published, ncVars, loaded, taken, entry>>

ObserveExit ==
  /\ LoadNeutralized("exit")
  /\ f' = ObserveFences(f, ReadFences)
  /\ RtGoto("publish", "none")
  /\ UNCHANGED <<fences, queue, published, ncVars, taken, cycleVars>>

Publish ==
  /\ RtAt("publish")
  /\ published' = f
  /\ entry' = NoFences
  /\ RtGoto("idle", "none")
  /\ UNCHANGED <<fences, queue, ncVars, loaded, taken, pops, fit, drained, f>>

Cycle ==
  \/ BeginCycle \/ LoadLatest \/ LoadCancelled
  \/ \E choice \in BOOLEAN : \/ ObserveEntry(choice) \/ ObserveStart(choice)
                             \/ ObserveApply(choice) \/ EndPops(choice)
  \/ Pop \/ ObserveAfter \/ ObserveExit \/ Publish

Next == NC \/ Cycle

Spec == Init /\ [][Next]_vars

(* The cycle runs for ever, the NC thread finishes a call it has begun and *)
(* polls the feedback.                                                     *)
Fairness ==
  /\ WF_vars(Cycle)
  /\ WF_vars(OpenSession \/ Push \/ PushRefused \/ Withdraw \/ CancelRefused)
  /\ WF_vars(Read) /\ WF_vars(AcknowledgeCancel)

FairSpec == Spec /\ Fairness

-----------------------------------------------------------------------------
TypeOK ==
  /\ latest \in 0 .. MaxSession /\ cancelThrough \in 0 .. MaxSession
  /\ neutralizeThrough \in 0 .. MaxCommand
  /\ queue \in Seq(Request) /\ Len(queue) <= Capacity
  /\ published \in Feedback \cup {Nothing} /\ seen \in Feedback \cup {Nothing}
  /\ nc \in {"idle", "open", "push", "withdraw", "cancel"}
  /\ request \in Request \cup {Nothing}
  /\ control \in Control /\ command \in 0 .. MaxCommand
  /\ rt \in CyclePc
  /\ loaded \in Fences /\ entry \in Fences
  /\ taken \in Request \cup {Nothing}
  /\ pops \in 0 .. MaxPops /\ fit \in SUBSET Session /\ drained \in BOOLEAN
  /\ f \in Feedback

(* The feedback the NC thread holds as current is about what it asked for  *)
(* last: a session that is active is the latest one and not cancelled, a   *)
(* command that moves or is complete is the newest one submitted and not   *)
(* neutralized, whatever was published while it moved the fences           *)
(* (ControlRead; ReadEDMRTShadowSameThread alarms otherwise).              *)
ReadIsCurrent ==
  seen # Nothing /\ Active(seen) =>
    /\ seen.started /\ seen.session = latest /\ latest > cancelThrough
    /\ seen.state # "Blocked" =>
         seen.last = control.submitted /\ seen.last > neutralizeThrough
    /\ seen.state = "Blocked" => seen.speed = 0

(* A pass honours every fence that stood when it began: what it is about   *)
(* to publish neither moves nor drains for a session that was cancelled or *)
(* replaced, nor for a command that was neutralized (RuntimeCycle).        *)
StopHonoured ==
  rt.at = "publish" /\ f.state \in {"Running", "Draining"} =>
    /\ f.session >= entry.latest /\ f.session > entry.cancelled
    /\ f.last > entry.neutralized

(* Speed comes from one running command, of the session the feedback names *)
(* and above the floor it shows; no failure path leaves it behind          *)
(* (ShadowConsumer::Cancel, Neutralize).                                   *)
SpeedIsEligible ==
  \A g \in {f} \cup (IF published = Nothing THEN {} ELSE {published}) :
    g.speed # 0 => /\ g.state = "Running" /\ g.started /\ g.speed = g.last
                   /\ g.session = g.latest /\ g.session > g.cancelled
                   /\ g.speed > g.neutralized

(* A cancellation is acknowledged, however full the queue was              *)
(* (ServiceEDMRTShadowCancelSameThread).                                   *)
CancelAcknowledged == control.cancelPending ~> ~control.cancelPending

(* The NC thread learns what became of the command it submitted: applied   *)
(* or failed, unless it withdrew it (SubmitEDMRTShadowSameThread).         *)
SubmissionSettled ==
  []<>(\/ control.submitted = 0 \/ control.cancelled
       \/ neutralizeThrough >= control.submitted
       \/ seen # Nothing /\ (seen.last = control.submitted \/ seen.state = "Fault"))
=============================================================================
