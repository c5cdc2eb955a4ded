------------------------- MODULE EDMRTShadow_proofs -------------------------
(***************************************************************************)
(* Proofs about EDMRTShadow, for every number of sessions and commands,    *)
(* every capacity of the ring, every length of a pass and every set of     *)
(* facts.                                                                  *)
(*                                                                         *)
(* The invariant has three ideas.  Coherent: what the consumer does        *)
(* (ObserveFences, StartRuntime, ApplyRuntime, Supervise) never leaves it  *)
(* active for a session or a command below the fences it has observed.     *)
(* Known: a command number travels with the session it was submitted in,   *)
(* so what is in the queue, in the cycle's hands or in a feedback for the  *)
(* present session is not newer than the NC's own record.  Entered: the    *)
(* fences only rise, so those loaded during a pass are not below those     *)
(* that stood when it began.                                               *)
(*                                                                         *)
(* What is proved of the channel, and elsewhere of the controlled stop,    *)
(* holds of the run that polls both.                                       *)
(***************************************************************************)
EXTENDS MCPolled, TLAPS

-----------------------------------------------------------------------------
Coherent(g) ==
  /\ Active(g) =>
       /\ g.started /\ g.session = g.latest /\ g.cancelled < g.latest
       /\ g.state # "Blocked" => g.neutralized < g.last
  /\ g.speed # 0 => g.state = "Running" /\ g.speed = g.last

(* A number of the present session is not newer than its last submission.  *)
Known(session, number) ==
  /\ session <= control.session
  /\ session = control.session => number <= control.submitted

KnownFeedback(g) == Known(g.session, g.last)
KnownRequest(r) == Known(r.session, r.command)

Submitting ==
  /\ latest <= control.session
  /\ nc # "open" => latest = control.session
  /\ command <= neutralizeThrough + 1
  /\ control.submitted <= command
  /\ nc \in {"open", "push", "withdraw"} =>
       /\ request \in Request /\ request.session = control.session
       /\ request.kind # "start" => request.command = command

(* The cycle holds a request it has popped. *)
Holding == rt.at \in FenceStep /\ rt.context = "before"

Travelling ==
  /\ \A i \in 1 .. Len(queue) : KnownRequest(queue[i])
  /\ Holding => taken \in Request /\ KnownRequest(taken)
  /\ KnownFeedback(f)
  /\ published # Nothing => KnownFeedback(published)

Consuming ==
  /\ Coherent(f)
  /\ published # Nothing => Coherent(published)

Seeing ==
  seen # Nothing =>
    /\ nc = "idle" /\ Coherent(seen) /\ KnownFeedback(seen)
    /\ seen.latest = latest /\ seen.cancelled = cancelThrough
    /\ seen.neutralized = neutralizeThrough

Entered ==
  /\ rt.at # "idle" =>
       entry.latest <= latest /\ entry.cancelled <= cancelThrough
         /\ entry.neutralized <= neutralizeThrough
  /\ rt.at \in {"cancelled", "neutralized"} => entry.latest <= loaded.latest
  /\ rt.at = "neutralized" => entry.cancelled <= loaded.cancelled
  /\ rt.at = "publish" =>
       entry.latest <= f.latest /\ entry.cancelled <= f.cancelled
         /\ entry.neutralized <= f.neutralized

IInv == TypeOK /\ Submitting /\ Travelling /\ Consuming /\ Seeing /\ Entered

-----------------------------------------------------------------------------
(* What the consumer does with its feedback: types, coherence, and the     *)
(* session and the command it is about.                                    *)

LEMMA StoppedType ==
  ASSUME NEW g \in Feedback, NEW state \in State
  PROVE  LET k == Stopped(g, state)
         IN /\ k \in Feedback
            /\ k.state = state /\ k.speed = 0 /\ ~k.pendingDrain
            /\ k.session = g.session /\ k.last = g.last /\ k.started = g.started
            /\ k.latest = g.latest /\ k.cancelled = g.cancelled
            /\ k.neutralized = g.neutralized
<1>1. 0 \in 0 .. MaxCommand
  BY ShadowAssumption
<1> QED BY <1>1 DEF Stopped, Feedback

LEMMA WithFencesType ==
  ASSUME NEW g \in Feedback, NEW fence \in Fences
  PROVE  LET h == WithFences(g, fence)
         IN /\ h \in Feedback /\ h.session = g.session /\ h.state = g.state
            /\ h.started = g.started /\ h.last = g.last /\ h.speed = g.speed
            /\ h.latest = fence.latest /\ h.cancelled = fence.cancelled
            /\ h.neutralized = fence.neutralized
BY DEF WithFences, Feedback, Fences

LEMMA RetiredType ==
  ASSUME NEW h \in Feedback, NEW fence \in Fences
  PROVE  LET k == Retired(h, fence)
         IN /\ k \in Feedback /\ ~Active(k) /\ k.speed = 0
            /\ k.session = h.session /\ k.last = h.last
            /\ k.latest = h.latest /\ k.cancelled = h.cancelled
            /\ k.neutralized = h.neutralized
<1> DEFINE state == IF SessionCancelled(fence) THEN "Cancelled"
                    ELSE IF fence.latest = 0 THEN "Idle" ELSE "AwaitStart"
           k == Stopped(h, state)
<1>1. state \in State /\ state \notin ActiveState
  BY DEF State, ActiveState
<1> HIDE DEF state
<1>2. /\ k \in Feedback /\ k.state = state /\ k.speed = 0
      /\ k.session = h.session /\ k.last = h.last
      /\ k.latest = h.latest /\ k.cancelled = h.cancelled
      /\ k.neutralized = h.neutralized
  BY <1>1, StoppedType
<1>3. Retired(h, fence) = [k EXCEPT !.started = FALSE]
  BY DEF Retired, state
<1> HIDE DEF k
<1> QED BY <1>1, <1>2, <1>3 DEF Active, Feedback

LEMMA TripType ==
  ASSUME NEW g \in Feedback
  PROVE  /\ Trip(g) \in Feedback /\ ~Active(Trip(g)) /\ Trip(g).speed = 0
         /\ Trip(g).session = g.session /\ Trip(g).last = g.last
         /\ Trip(g).latest = g.latest /\ Trip(g).cancelled = g.cancelled
         /\ Trip(g).neutralized = g.neutralized
<1>1. "Fault" \in State /\ "Fault" \notin ActiveState
  BY DEF State, ActiveState
<1> QED BY <1>1, StoppedType DEF Trip, Active

LEMMA ObserveFacts ==
  ASSUME NEW g \in Feedback, NEW fence \in Fences, Coherent(g)
  PROVE  LET k == ObserveFences(g, fence)
         IN /\ k \in Feedback /\ Coherent(k)
            /\ k.session = g.session /\ k.last = g.last
            /\ k.latest = fence.latest /\ k.cancelled = fence.cancelled
            /\ k.neutralized = fence.neutralized
<1> DEFINE h == WithFences(g, fence)
<1>1. /\ h \in Feedback /\ h.session = g.session /\ h.state = g.state
      /\ h.started = g.started /\ h.last = g.last /\ h.speed = g.speed
      /\ h.latest = fence.latest /\ h.cancelled = fence.cancelled
      /\ h.neutralized = fence.neutralized
  BY WithFencesType
<1>2. CASE SessionCancelled(fence) \/ h.session # fence.latest
  <2>1. ObserveFences(g, fence) = Retired(h, fence)
    BY <1>2 DEF ObserveFences
  <2> HIDE DEF h
  <2> QED BY <1>1, <2>1, RetiredType DEF Coherent
<1>3. CASE ~(SessionCancelled(fence) \/ h.session # fence.latest)
  <2>1. Active(g) => h.cancelled < h.latest
    BY <1>1, <1>3, ShadowAssumption
       DEF SessionCancelled, Coherent, Feedback, Fences
  <2>2. CASE ~CommandNeutralized(h)
    <3>1. ObserveFences(g, fence) = h
      BY <1>3, <2>2 DEF ObserveFences
    <3>2. Active(h) /\ h.state # "Blocked" => h.neutralized < h.last
      BY <1>1, <2>2, ShadowAssumption
         DEF CommandNeutralized, Coherent, Active, ActiveState, Feedback, Fences
    <3> QED BY <1>1, <1>3, <2>1, <3>1, <3>2 DEF Coherent, Active
  <2>3. CASE CommandNeutralized(h) /\ h.state # "Running"
    <3>1. ObserveFences(g, fence) = Trip(h)
      BY <1>3, <2>3 DEF ObserveFences
    <3> HIDE DEF h
    <3> QED BY <1>1, <3>1, TripType DEF Coherent
  <2>4. CASE CommandNeutralized(h) /\ h.state = "Running"
    <3> DEFINE k == [h EXCEPT !.state = "Blocked", !.speed = 0]
    <3>1. ObserveFences(g, fence) = k
      BY <1>3, <2>4 DEF ObserveFences
    <3>2. "Blocked" \in State /\ 0 \in 0 .. MaxCommand
      BY ShadowAssumption DEF State, ActiveState
    <3>3. Active(g)
      BY <1>1, <2>4 DEF Active, ActiveState
    <3> HIDE DEF h
    <3>4. /\ k \in Feedback /\ k.state = "Blocked" /\ k.speed = 0
          /\ k.session = h.session /\ k.last = h.last /\ k.started = h.started
          /\ k.latest = h.latest /\ k.cancelled = h.cancelled
          /\ k.neutralized = h.neutralized
      BY <1>1, <3>2 DEF Feedback
    <3> HIDE DEF k
    <3> QED BY <1>1, <1>3, <2>1, <3>1, <3>3, <3>4 DEF Coherent
  <2> QED BY <2>2, <2>3, <2>4
<1> QED BY <1>2, <1>3

LEMMA SuperviseFacts ==
  ASSUME NEW g \in Feedback, NEW stale \in BOOLEAN, Coherent(g)
  PROVE  LET k == Supervise(g, stale)
         IN /\ k \in Feedback /\ Coherent(k)
            /\ k.session = g.session /\ k.last = g.last
<1>1. Supervise(g, stale) \in {g, Trip(g)}
  BY DEF Supervise
<1> QED BY <1>1, TripType DEF Coherent

LEMMA StartFacts ==
  ASSUME NEW g \in Feedback, NEW r \in Request, NEW valid \in BOOLEAN, Coherent(g)
  PROVE  LET k == StartRuntime(g, r, valid)
         IN /\ k \in Feedback /\ Coherent(k)
            /\ \/ k.session = g.session /\ k.last = g.last
               \/ k.session = r.session /\ k.last = 0
<1> DEFINE h == [Stopped(g, g.state) EXCEPT !.session = r.session, !.last = 0]
<1>1. r.session \in Session
  BY DEF Request
<1>2. /\ h \in Feedback /\ h.session = r.session /\ h.last = 0 /\ h.speed = 0
      /\ h.latest = g.latest /\ h.cancelled = g.cancelled /\ h.started = g.started
  <2> DEFINE k == Stopped(g, g.state)
  <2>1. k \in Feedback /\ k.speed = 0 /\ k.latest = g.latest
        /\ k.cancelled = g.cancelled /\ k.started = g.started
    <3>1. g.state \in State
      BY DEF Feedback
    <3> QED BY <3>1, StoppedType
  <2>2. 0 \in 0 .. MaxCommand /\ r.session \in 0 .. MaxSession
    BY <1>1, ShadowAssumption DEF Session
  <2> HIDE DEF k
  <2>3. h = [k EXCEPT !.session = r.session, !.last = 0]
    BY DEF k
  <2> QED BY <2>1, <2>2, <2>3 DEF Feedback
<1>3. CASE r.session # g.latest \/ r.session <= g.cancelled
  BY <1>3 DEF StartRuntime
<1>4. CASE ~(r.session # g.latest \/ r.session <= g.cancelled)
  <2>1. CASE g.started \/ g.session = r.session
    <3>1. StartRuntime(g, r, valid) = Trip(g)
      BY <1>4, <2>1 DEF StartRuntime
    <3> QED BY <3>1, TripType DEF Coherent
  <2>2. CASE ~(g.started \/ g.session = r.session) /\ (~Ready(h) \/ ~valid)
    <3>1. StartRuntime(g, r, valid) = Trip(h)
      BY <1>4, <2>2 DEF StartRuntime
    <3> HIDE DEF h
    <3> QED BY <1>2, <3>1, TripType DEF Coherent
  <2>3. CASE ~(g.started \/ g.session = r.session) /\ Ready(h) /\ valid
    <3>1. StartRuntime(g, r, valid) = [h EXCEPT !.started = TRUE, !.state = "Blocked"]
      BY <1>4, <2>3 DEF StartRuntime
    <3>2. g.cancelled < g.latest
      BY <1>1, <1>4, ShadowAssumption DEF Feedback, Session
    <3> HIDE DEF h
    <3> QED BY <1>2, <1>4, <3>1, <3>2 DEF Coherent, Active, Feedback, State, ActiveState
  <2> QED BY <2>1, <2>2, <2>3
<1> QED BY <1>3, <1>4

LEMMA ApplyFacts ==
  ASSUME NEW g \in Feedback, NEW r \in Request, r.kind # "start",
         NEW valid \in BOOLEAN, Coherent(g)
  PROVE  LET k == ApplyRuntime(g, r, valid)
         IN /\ k \in Feedback /\ Coherent(k)
            /\ k.session = g.session
            /\ k.last = g.last \/ (k.last = r.command /\ g.session = r.session)
<1>1. r.session \in Session /\ r.command \in Command
  BY DEF Request
<1>2. CASE ApplyRuntime(g, r, valid) = g
  BY <1>2
<1>3. CASE ApplyRuntime(g, r, valid) = Trip(g)
  BY <1>3, TripType DEF Coherent
<1>4. CASE /\ ApplyRuntime(g, r, valid) = Applied(g, r)
           /\ ~Fenced(g, r) /\ g.started /\ r.session = g.session
  <2>1. g.cancelled < g.latest /\ r.session = g.latest /\ g.neutralized < r.command
    BY <1>1, <1>4, ShadowAssumption DEF Fenced, Feedback, Session, Command
  <2>2. /\ Applied(g, r) \in Feedback
        /\ Applied(g, r).session = g.session /\ Applied(g, r).last = r.command
        /\ Applied(g, r).started = g.started /\ Applied(g, r).latest = g.latest
        /\ Applied(g, r).cancelled = g.cancelled
        /\ Applied(g, r).neutralized = g.neutralized
        /\ Applied(g, r).speed # 0 =>
             Applied(g, r).state = "Running" /\ Applied(g, r).speed = r.command
    <3>1. /\ r.command \in 0 .. MaxCommand /\ 0 \in 0 .. MaxCommand
          /\ "Draining" \in State /\ "Running" \in State
      BY <1>1, ShadowAssumption DEF Command, State, ActiveState
    <3>2. CASE r.kind = "drain"
      BY <3>1, <3>2 DEF Applied, Feedback
    <3>3. CASE r.kind # "drain"
      BY <3>1, <3>3 DEF Applied, Feedback
    <3> QED BY <3>2, <3>3
  <2> QED BY <1>4, <2>1, <2>2 DEF Coherent
<1> QED
  BY <1>2, <1>3, <1>4 DEF ApplyRuntime

-----------------------------------------------------------------------------
(* The NC thread.  Its steps leave the cycle alone and only raise fences.  *)

LEMMA Ranges ==
  /\ \A r \in Request : r.session \in Nat /\ r.command \in Nat
  /\ \A g \in Feedback : g.session \in Nat /\ g.last \in Nat
<1>1. Session \subseteq Nat /\ Command \subseteq Nat /\ 0 \in Nat
  BY ShadowAssumption DEF Session, Command
<1>2. ASSUME NEW r \in Request
      PROVE  r.session \in Nat /\ r.command \in Nat
  BY <1>1 DEF Request
<1>3. ASSUME NEW g \in Feedback
      PROVE  g.session \in Nat /\ g.last \in Nat
  BY ShadowAssumption DEF Feedback
<1> QED BY <1>2, <1>3

LEMMA FloorRises ==
  ASSUME NEW c \in Nat, NEW m \in Nat, NEW n \in Nat, m <= n
  PROVE  (c <= m + 1 => c <= n + 1) /\ (c <= n => c + 1 <= n + 1)
OBVIOUS

LEMMA MaximumRises ==
  ASSUME NEW a \in Nat, NEW b \in Nat
  PROVE  a <= Maximum(a, b) /\ b <= Maximum(a, b) /\ Maximum(a, b) \in {a, b}
BY DEF Maximum

Rise ==
  /\ latest <= latest' /\ cancelThrough <= cancelThrough'
  /\ neutralizeThrough <= neutralizeThrough'

LEMMA CycleUndisturbed ==
  ASSUME IInv, UNCHANGED <<published, rtVars>>, Rise, TypeOK'
  PROVE  Consuming' /\ Entered'
<1> USE DEF rtVars, cycleVars
<1>1. Consuming'
  BY DEF IInv, Consuming, Coherent, Active
<1>2. /\ latest \in Nat /\ cancelThrough \in Nat /\ neutralizeThrough \in Nat
      /\ latest' \in Nat /\ cancelThrough' \in Nat /\ neutralizeThrough' \in Nat
      /\ entry.latest \in Nat /\ entry.cancelled \in Nat /\ entry.neutralized \in Nat
  BY ShadowAssumption DEF IInv, TypeOK, Fences
<1>3. rt.at # "idle" =>
        entry.latest <= latest' /\ entry.cancelled <= cancelThrough'
          /\ entry.neutralized <= neutralizeThrough'
  BY <1>2 DEF IInv, Entered, Rise
<1>4. Entered'
  BY <1>3 DEF IInv, Entered
<1> QED BY <1>1, <1>4

(* What travels stays known when the NC's record moves on. *)
LEMMA TravellingKept ==
  ASSUME IInv, UNCHANGED <<queue, published, rtVars>>,
         \A n, c \in Nat : Known(n, c) => Known(n, c)'
  PROVE  Travelling'
<1>1. /\ \A i \in 1 .. Len(queue) : queue[i] \in Request
      /\ \A r \in Request : r.session \in Nat /\ r.command \in Nat
      /\ \A g \in Feedback : g.session \in Nat /\ g.last \in Nat
  <2>1. \A i \in 1 .. Len(queue) : queue[i] \in Request
    BY DEF IInv, TypeOK
  <2> QED BY <2>1, Ranges
<1>2. \A i \in 1 .. Len(queue) : KnownRequest(queue[i])'
  <2>1. ASSUME NEW r \in Request, KnownRequest(r)
        PROVE  KnownRequest(r)'
    BY <1>1, <2>1 DEF KnownRequest
  <2>2. ASSUME NEW i \in 1 .. Len(queue)
        PROVE  KnownRequest(queue[i])'
    <3>1. PICK r \in Request : r = queue[i]
      BY <1>1
    <3>2. KnownRequest(r)
      BY <3>1 DEF IInv, Travelling
    <3>3. KnownRequest(r)' /\ queue'[i] = r
      BY <2>1, <3>1, <3>2 DEF rtVars
    <3> QED BY <3>3 DEF KnownRequest, Known
  <2> QED BY <2>2
<1>3. Holding' => taken' \in Request /\ KnownRequest(taken)'
  BY <1>1 DEF IInv, Travelling, Holding, KnownRequest, Known, rtVars
<1>4. KnownFeedback(f)'
  BY <1>1 DEF IInv, TypeOK, Travelling, KnownFeedback, Known, rtVars
<1>5. published # Nothing => KnownFeedback(published)'
  BY <1>1 DEF IInv, TypeOK, Travelling, KnownFeedback, Known
<1> QED BY <1>2, <1>3, <1>4, <1>5 DEF Travelling, rtVars

LEMMA StartStep ==
  ASSUME IInv, Start
  PROVE  IInv'
<1> DEFINE s == control.session + 1
<1>1. /\ control.session \in 0 .. MaxSession /\ s \in Session /\ 0 \in 0 .. MaxCommand
      /\ cancelThrough \in 0 .. MaxSession /\ cancelThrough' \in 0 .. MaxSession
      /\ cancelThrough <= cancelThrough'
  <2>1. control.session \in 0 .. MaxSession /\ cancelThrough \in 0 .. MaxSession
    BY DEF IInv, TypeOK, Control
  <2>2. /\ cancelThrough <= Maximum(cancelThrough, control.session)
        /\ Maximum(cancelThrough, control.session) \in 0 .. MaxSession
    BY <2>1, ShadowAssumption, MaximumRises
  <2> QED BY <2>1, <2>2, ShadowAssumption DEF Start, Session
<1>2. /\ control' = Opened(s) /\ control'.session = s /\ control'.submitted = 0
      /\ request' = [kind |-> "start", session |-> s, command |-> 0]
      /\ nc' = "open" /\ seen' = Nothing
      /\ UNCHANGED <<latest, neutralizeThrough, queue, published, command, rtVars>>
  BY DEF Start, Opened, Goto
<1>3. TypeOK'
  <2>1. control' \in Control /\ request' \in Request
    BY <1>1, <1>2 DEF Opened, Control, Request, Session
  <2> QED BY <1>1, <1>2, <2>1 DEF IInv, TypeOK, rtVars, cycleVars
<1>4. Submitting'
  <2>1. latest <= s /\ control'.submitted <= command'
    BY <1>1, <1>2, ShadowAssumption DEF IInv, TypeOK, Submitting
  <2>2. request' \in Request /\ request'.session = control'.session
        /\ request'.kind = "start"
    BY <1>1, <1>2 DEF Request, Session
  <2> QED BY <1>2, <2>1, <2>2 DEF IInv, Submitting
<1>5. Travelling'
  <2>1. ASSUME NEW n \in Nat, NEW c \in Nat, Known(n, c)
        PROVE  Known(n, c)'
    BY <1>1, <1>2, <2>1 DEF Known
  <2> QED BY <1>2, <2>1, TravellingKept
<1>6. Seeing'
  BY <1>2 DEF Seeing
<1>7. Consuming' /\ Entered'
  <2>1. latest <= latest' /\ neutralizeThrough <= neutralizeThrough'
    BY <1>2, ShadowAssumption DEF IInv, TypeOK
  <2> QED BY <1>1, <1>2, <1>3, <2>1, CycleUndisturbed DEF Rise
<1> QED BY <1>3, <1>4, <1>5, <1>6, <1>7 DEF IInv

(* A step that leaves the NC's record and what travels alone. *)
LEMMA RecordKept ==
  ASSUME IInv, UNCHANGED <<queue, published, rtVars>>,
         control'.session = control.session, control'.submitted = control.submitted
  PROVE  Travelling'
<1>1. \A n, c \in Nat : Known(n, c) => Known(n, c)'
  BY DEF Known
<1> QED BY <1>1, TravellingKept

LEMMA OpenSessionStep ==
  ASSUME IInv, OpenSession
  PROVE  IInv'
<1>1. /\ nc = "open" /\ nc' = "push" /\ latest' = control.session
      /\ control.session \in 0 .. MaxSession /\ latest <= control.session
      /\ UNCHANGED <<cancelThrough, neutralizeThrough, queue, published, request,
                     control, command, seen, rtVars>>
  BY DEF OpenSession, Goto, IInv, TypeOK, Control, Submitting
<1>2. TypeOK'
  BY <1>1 DEF IInv, TypeOK, rtVars, cycleVars
<1>3. Submitting'
  BY <1>1, ShadowAssumption DEF IInv, Submitting
<1>4. Travelling'
  BY <1>1, RecordKept
<1>5. Seeing'
  BY <1>1 DEF IInv, Seeing
<1>6. Consuming' /\ Entered'
  <2>1. cancelThrough <= cancelThrough' /\ neutralizeThrough <= neutralizeThrough'
    BY <1>1, ShadowAssumption DEF IInv, TypeOK
  <2> QED BY <1>1, <1>2, <2>1, CycleUndisturbed DEF Rise
<1> QED BY <1>2, <1>3, <1>4, <1>5, <1>6 DEF IInv

LEMMA SubmitStep ==
  ASSUME IInv, NEW wish \in {"velocity", "drain"}, Submit(wish)
  PROVE  IInv'
<1>1. /\ command \in 0 .. MaxCommand /\ command + 1 \in Command
      /\ neutralizeThrough \in 0 .. MaxCommand
      /\ control.session \in Session
  BY ShadowAssumption DEF Submit, InSession, IInv, TypeOK, Control, Command, Session
<1>2. /\ nc = "idle" /\ nc' = "push" /\ command' = command + 1 /\ seen' = Nothing
      /\ request' = [kind |-> wish, session |-> control.session, command |-> command + 1]
      /\ UNCHANGED <<latest, cancelThrough, queue, published, control, rtVars>>
  BY DEF Submit, InSession, Goto
<1>3. /\ neutralizeThrough' \in 0 .. MaxCommand
      /\ neutralizeThrough <= neutralizeThrough' /\ command <= neutralizeThrough'
  <2>1. neutralizeThrough' = Maximum(neutralizeThrough, (command + 1) - 1)
    BY DEF Submit, FloorOf
  <2>2. (command + 1) - 1 = command /\ neutralizeThrough' = Maximum(neutralizeThrough, command)
    BY <1>1, <2>1
  <2> QED BY <1>1, <2>2, ShadowAssumption, MaximumRises
<1>4. request' \in Request
  BY <1>1, <1>2 DEF Request
<1>5. TypeOK'
  <2>1. command' \in 0 .. MaxCommand
    BY <1>1, <1>2 DEF Command
  <2> QED BY <1>2, <1>3, <1>4, <2>1 DEF IInv, TypeOK, rtVars, cycleVars
<1>6. Submitting'
  <2>1. control.submitted <= command + 1 /\ command + 1 <= neutralizeThrough' + 1
    <3>1. control.submitted \in 0 .. MaxCommand /\ control.submitted <= command
      BY DEF IInv, Submitting, TypeOK, Control
    <3>2. /\ command \in Nat /\ neutralizeThrough' \in Nat
          /\ control.submitted \in Nat
      BY <1>1, <1>3, <3>1
    <3>3. control.submitted <= command + 1
      BY <3>1, <3>2
    <3>4. command + 1 <= neutralizeThrough' + 1
      BY <1>3, <3>2, FloorRises
    <3> QED BY <3>3, <3>4
  <2>2. request'.session = control.session /\ request'.command = command + 1
    BY <1>2
  <2> QED BY <1>2, <1>4, <2>1, <2>2 DEF IInv, Submitting
<1>7. Travelling'
  BY <1>2, RecordKept
<1>8. Seeing'
  BY <1>2 DEF Seeing
<1>9. Consuming' /\ Entered'
  <2>1. latest <= latest' /\ cancelThrough <= cancelThrough'
    BY <1>2, ShadowAssumption DEF IInv, TypeOK
  <2> QED BY <1>2, <1>3, <1>5, <2>1, CycleUndisturbed DEF Rise
<1> QED BY <1>5, <1>6, <1>7, <1>8, <1>9 DEF IInv

LEMMA PushStep ==
  ASSUME IInv, Push
  PROVE  IInv'
<1>1. /\ nc = "push" /\ nc' = "idle" /\ Len(queue) < Capacity
      /\ queue' = Append(queue, request) /\ request' = Nothing
      /\ UNCHANGED <<fences, published, command, seen, rtVars>>
  BY DEF Push, Goto
<1>2. /\ request \in Request /\ request.session = control.session
      /\ request.kind # "start" => request.command = command
      /\ control.submitted <= command /\ seen = Nothing
  BY <1>1 DEF IInv, Submitting, Seeing
<1>3. /\ control \in Control /\ command \in 0 .. MaxCommand
      /\ control.submitted \in 0 .. MaxCommand
  BY DEF IInv, TypeOK, Control
<1>4. /\ control' \in Control /\ control'.session = control.session
      /\ control.submitted <= control'.submitted
      /\ control'.submitted <= command /\ request.command <= control'.submitted
  <2>1. CASE request.kind = "start"
    <3>1. control' = control /\ request.command = 0
      BY <1>2, <2>1 DEF Push, Request
    <3> QED BY <1>2, <1>3, <3>1, ShadowAssumption
  <2>2. CASE request.kind # "start"
    <3>1. control' = [control EXCEPT !.submitted = command,
                                     !.drainSubmitted = request.kind = "drain"]
      BY <1>2, <2>2 DEF Push
    <3>2. (request.kind = "drain") \in BOOLEAN
      OBVIOUS
    <3>3. control' \in Control /\ control'.session = control.session
          /\ control'.submitted = command
      BY <1>3, <3>1, <3>2 DEF Control
    <3> QED BY <1>2, <1>3, <2>2, <3>3, ShadowAssumption
  <2> QED BY <2>1, <2>2
<1>5. TypeOK'
  <2>1. queue' \in Seq(Request) /\ Len(queue') <= Capacity
    BY <1>1, <1>2, ShadowAssumption DEF IInv, TypeOK
  <2> QED BY <1>1, <1>4, <2>1 DEF IInv, TypeOK, fences, rtVars, cycleVars
<1>6. Submitting'
  BY <1>1, <1>4 DEF IInv, Submitting, fences
<1>7. Travelling'
  <2>1. \A n, c \in Nat : Known(n, c) => Known(n, c)'
    BY <1>3, <1>4, ShadowAssumption DEF Known, Control
  <2>2. /\ Holding' => taken' \in Request /\ KnownRequest(taken)'
        /\ KnownFeedback(f)' /\ (published # Nothing => KnownFeedback(published)')
    BY <1>1, <2>1, Ranges
       DEF IInv, TypeOK, Travelling, Holding, KnownRequest, KnownFeedback, Known, rtVars
  <2>3. ASSUME NEW i \in 1 .. Len(queue')
        PROVE  KnownRequest(queue[i])'
    <3>1. queue \in Seq(Request)
      BY DEF IInv, TypeOK
    <3>2. CASE i \in 1 .. Len(queue)
      <4>1. PICK r \in Request : r = queue[i]
        BY <3>1, <3>2
      <4>2. queue'[i] = r
        BY <1>1, <1>2, <3>1, <3>2, <4>1
      <4>3. KnownRequest(r)
        BY <3>2, <4>1 DEF IInv, Travelling
      <4>4. KnownRequest(r)'
        BY <2>1, <4>3, Ranges DEF KnownRequest
      <4> QED BY <4>2, <4>4 DEF KnownRequest, Known
    <3>3. CASE i = Len(queue) + 1
      <4>1. queue'[i] = request
        BY <1>1, <1>2, <3>1, <3>3
      <4>2. request.session <= control'.session
        BY <1>2, <1>3, <1>4, ShadowAssumption DEF Control
      <4> QED BY <1>4, <4>1, <4>2 DEF KnownRequest, Known
    <3> QED BY <1>1, <1>2, <3>1, <3>2, <3>3
  <2> QED BY <1>1, <2>2, <2>3 DEF Travelling, rtVars
<1>8. Seeing'
  BY <1>1, <1>2 DEF Seeing
<1>9. Consuming' /\ Entered'
  <2>1. Rise
    BY <1>1, ShadowAssumption DEF Rise, fences, IInv, TypeOK
  <2> QED BY <1>1, <1>5, <2>1, CycleUndisturbed
<1> QED BY <1>5, <1>6, <1>7, <1>8, <1>9 DEF IInv

LEMMA PushRefusedStep ==
  ASSUME IInv, PushRefused
  PROVE  IInv'
<1>1. /\ nc = "push" /\ nc' \in {"cancel", "withdraw"}
      /\ UNCHANGED <<fences, queue, published, request, control, command, seen, rtVars>>
  BY DEF PushRefused, Goto
<1>2. TypeOK'
  BY <1>1 DEF IInv, TypeOK, fences, rtVars, cycleVars
<1>3. Submitting'
  BY <1>1 DEF IInv, Submitting, fences
<1>4. Travelling'
  BY <1>1, RecordKept
<1>5. Seeing'
  BY <1>1 DEF IInv, Seeing, fences
<1>6. Consuming' /\ Entered'
  <2>1. Rise
    BY <1>1, ShadowAssumption DEF Rise, fences, IInv, TypeOK
  <2> QED BY <1>1, <1>2, <2>1, CycleUndisturbed
<1> QED BY <1>2, <1>3, <1>4, <1>5, <1>6 DEF IInv

LEMMA WithdrawStep ==
  ASSUME IInv, Withdraw
  PROVE  IInv'
<1>1. /\ nc = "withdraw" /\ nc' = "cancel"
      /\ UNCHANGED <<latest, cancelThrough, queue, published, request, control,
                     command, seen, rtVars>>
  BY DEF Withdraw, Goto
<1>2. request.command \in 0 .. MaxCommand /\ neutralizeThrough \in 0 .. MaxCommand
  BY <1>1, ShadowAssumption DEF IInv, Submitting, TypeOK, Request, Command
<1>3. neutralizeThrough <= neutralizeThrough' /\ neutralizeThrough' \in 0 .. MaxCommand
  BY <1>2, ShadowAssumption, MaximumRises DEF Withdraw
<1>4. TypeOK'
  BY <1>1, <1>3 DEF IInv, TypeOK, rtVars, cycleVars
<1>5. Submitting'
  <2>1. command <= neutralizeThrough' + 1
    <3>1. command \in 0 .. MaxCommand /\ command <= neutralizeThrough + 1
      BY DEF IInv, Submitting, TypeOK
    <3>2. command \in Nat /\ neutralizeThrough \in Nat /\ neutralizeThrough' \in Nat
      BY <1>2, <1>3, <3>1
    <3> QED BY <1>3, <3>1, <3>2, FloorRises
  <2> QED BY <1>1, <2>1 DEF IInv, Submitting
<1>6. Travelling'
  BY <1>1, RecordKept
<1>7. Seeing'
  BY <1>1 DEF IInv, Seeing
<1>8. Consuming' /\ Entered'
  <2>1. latest <= latest' /\ cancelThrough <= cancelThrough'
    BY <1>1, ShadowAssumption DEF IInv, TypeOK
  <2> QED BY <1>1, <1>3, <1>4, <2>1, CycleUndisturbed DEF Rise
<1> QED BY <1>4, <1>5, <1>6, <1>7, <1>8 DEF IInv

LEMMA CancelStep ==
  ASSUME IInv, nc # "open", CancelSession
  PROVE  IInv'
<1>1. /\ nc' = "idle" /\ request' = Nothing /\ seen' = Nothing
      /\ control' = [control EXCEPT !.cancelled = TRUE, !.cancelPending = TRUE]
      /\ UNCHANGED <<latest, neutralizeThrough, queue, published, command, rtVars>>
  BY DEF CancelSession, Goto
<1>2. /\ control \in Control /\ cancelThrough \in 0 .. MaxSession
      /\ control.session \in 0 .. MaxSession
  BY DEF IInv, TypeOK, Control
<1>3. cancelThrough <= cancelThrough' /\ cancelThrough' \in 0 .. MaxSession
  BY <1>2, ShadowAssumption, MaximumRises DEF CancelSession
<1>4. /\ control' \in Control /\ control'.session = control.session
      /\ control'.submitted = control.submitted
  BY <1>1, <1>2 DEF Control
<1>5. TypeOK'
  BY <1>1, <1>3, <1>4 DEF IInv, TypeOK, rtVars, cycleVars
<1>6. Submitting'
  BY <1>1, <1>4 DEF IInv, Submitting
<1>7. Travelling'
  BY <1>1, <1>4, RecordKept
<1>8. Seeing'
  BY <1>1 DEF Seeing
<1>9. Consuming' /\ Entered'
  <2>1. latest <= latest' /\ neutralizeThrough <= neutralizeThrough'
    BY <1>1, ShadowAssumption DEF IInv, TypeOK
  <2> QED BY <1>1, <1>3, <1>5, <2>1, CycleUndisturbed DEF Rise
<1> QED BY <1>5, <1>6, <1>7, <1>8, <1>9 DEF IInv

LEMMA NeutralizeStep ==
  ASSUME IInv, Neutralize
  PROVE  IInv'
<1>1. /\ seen' = Nothing
      /\ UNCHANGED <<latest, cancelThrough, queue, published, nc, request, control,
                     command, rtVars>>
  BY DEF Neutralize
<1>2. neutralizeThrough \in 0 .. MaxCommand /\ control.submitted \in 0 .. MaxCommand
  BY DEF IInv, TypeOK, Control
<1>3. neutralizeThrough <= neutralizeThrough' /\ neutralizeThrough' \in 0 .. MaxCommand
  BY <1>2, ShadowAssumption, MaximumRises DEF Neutralize
<1>4. TypeOK'
  BY <1>1, <1>3 DEF IInv, TypeOK, rtVars, cycleVars
<1>5. Submitting'
  <2>1. command <= neutralizeThrough' + 1
    <3>1. command \in 0 .. MaxCommand /\ command <= neutralizeThrough + 1
      BY DEF IInv, Submitting, TypeOK
    <3>2. command \in Nat /\ neutralizeThrough \in Nat /\ neutralizeThrough' \in Nat
      BY <1>2, <1>3, <3>1
    <3> QED BY <1>3, <3>1, <3>2, FloorRises
  <2> QED BY <1>1, <2>1 DEF IInv, Submitting
<1>6. Travelling'
  BY <1>1, RecordKept
<1>7. Seeing'
  BY <1>1 DEF Seeing
<1>8. Consuming' /\ Entered'
  <2>1. latest <= latest' /\ cancelThrough <= cancelThrough'
    BY <1>1, ShadowAssumption DEF IInv, TypeOK
  <2> QED BY <1>1, <1>3, <1>4, <2>1, CycleUndisturbed DEF Rise
<1> QED BY <1>4, <1>5, <1>6, <1>7, <1>8 DEF IInv

(* A feedback is returned under the fences it was published with. *)
LEMMA ReadStep ==
  ASSUME IInv, ReadReturns, nc = "idle", seen' = published,
         control' \in Control, control'.session = control.session,
         control'.submitted = control.submitted,
         UNCHANGED <<fences, queue, published, nc, request, command, rtVars>>
  PROVE  IInv'
<1> USE DEF fences
<1>1. TypeOK'
  BY DEF IInv, TypeOK, rtVars, cycleVars
<1>2. Submitting'
  BY DEF IInv, Submitting
<1>3. Travelling'
  BY RecordKept
<1>4. Seeing'
  BY <1>3 DEF IInv, Consuming, Travelling, Seeing, ReadReturns, Coherent, Active,
              KnownFeedback, Known
<1>5. Consuming' /\ Entered'
  <2>1. Rise
    BY ShadowAssumption DEF Rise, IInv, TypeOK
  <2> QED BY <1>1, <2>1, CycleUndisturbed
<1> QED BY <1>1, <1>2, <1>3, <1>4, <1>5 DEF IInv

LEMMA NCStep ==
  ASSUME IInv, NC
  PROVE  IInv'
<1>1. CASE CancelRefused \/ Cancel
  BY <1>1, CancelStep DEF CancelRefused, Cancel, InSession
<1>2. CASE Read
  BY <1>2, ReadStep DEF Read, InSession, IInv, TypeOK
<1>3. CASE AcknowledgeCancel
  <2>1. control' = [control EXCEPT !.cancelPending = FALSE] /\ control \in Control
    BY <1>3 DEF AcknowledgeCancel, IInv, TypeOK
  <2>2. control' \in Control /\ control'.session = control.session
        /\ control'.submitted = control.submitted
    BY <2>1 DEF Control
  <2> QED BY <1>3, <2>2, ReadStep DEF AcknowledgeCancel
<1> QED
  BY <1>1, <1>2, <1>3, StartStep, OpenSessionStep, SubmitStep, PushStep,
     PushRefusedStep, WithdrawStep, NeutralizeStep DEF NC

-----------------------------------------------------------------------------
(* The cycle.  Its steps leave the NC thread and the fences alone.         *)

LEMMA NCUndisturbed ==
  ASSUME IInv, UNCHANGED <<fences, ncVars>>
  PROVE  Submitting' /\ Seeing'
<1> USE DEF fences, ncVars
<1>1. Submitting'
  BY DEF IInv, Submitting
<1>2. Seeing'
  BY DEF IInv, Seeing, Coherent, Active, KnownFeedback, Known
<1> QED BY <1>1, <1>2

(* What is known of a feedback or a request does not depend on the cycle.  *)
LEMMA KnownKept ==
  ASSUME UNCHANGED ncVars, NEW session, NEW number, Known(session, number)
  PROVE  Known(session, number)'
BY DEF Known, ncVars

(* The step of a pass that reads the last fence.                           *)
LEMMA Observing ==
  ASSUME IInv, NEW context, LoadNeutralized(context)
  PROVE  /\ ReadFences \in Fences /\ loaded' \in Fences
         /\ entry.latest <= ReadFences.latest
         /\ entry.cancelled <= ReadFences.cancelled
         /\ entry.neutralized <= ReadFences.neutralized
         /\ rt.at = "neutralized" /\ rt.context = context
<1>1. /\ loaded \in Fences /\ neutralizeThrough \in 0 .. MaxCommand
      /\ rt.at = "neutralized" /\ rt.context = context
      /\ entry.latest <= loaded.latest /\ entry.cancelled <= loaded.cancelled
      /\ entry.neutralized <= neutralizeThrough
  BY DEF IInv, TypeOK, Entered, LoadNeutralized, RtAt
<1>2. /\ ReadFences \in Fences /\ ReadFences.latest = loaded.latest
      /\ ReadFences.cancelled = loaded.cancelled
      /\ ReadFences.neutralized = neutralizeThrough
  BY <1>1 DEF ReadFences, Fences
<1>3. loaded' \in Fences
  BY ShadowAssumption DEF LoadNeutralized, NoFences, Fences
<1> QED BY <1>1, <1>2, <1>3

LEMMA BeginCycleStep ==
  ASSUME IInv, BeginCycle
  PROVE  IInv'
<1>1. /\ fit' \in Facts /\ entry' = CurrentFences
      /\ rt' = [at |-> "latest", context |-> "entry"]
      /\ UNCHANGED <<fences, queue, published, ncVars, loaded, taken, pops, drained, f>>
  BY DEF BeginCycle, RtGoto
<1>2. /\ entry' \in Fences /\ entry'.latest = latest
      /\ entry'.cancelled = cancelThrough /\ entry'.neutralized = neutralizeThrough
  BY <1>1 DEF CurrentFences, Fences, IInv, TypeOK
<1>3. rt' \in CyclePc /\ fit' \in SUBSET Session
  BY <1>1, ShadowAssumption DEF CyclePc, FenceStep, Context, Session
<1>4. TypeOK'
  BY <1>1, <1>2, <1>3 DEF IInv, TypeOK, fences, ncVars
<1>5. Travelling'
  BY <1>1 DEF IInv, Travelling, Holding, KnownRequest, KnownFeedback, Known, ncVars
<1>6. Consuming'
  BY <1>1 DEF IInv, Consuming, Coherent, Active
<1>7. Entered'
  BY <1>1, <1>2, ShadowAssumption DEF Entered, fences, IInv, TypeOK
<1> QED BY <1>1, <1>4, <1>5, <1>6, <1>7, NCUndisturbed DEF IInv

LEMMA LoadStep ==
  ASSUME IInv, LoadLatest \/ LoadCancelled
  PROVE  IInv'
<1>1. UNCHANGED <<fences, queue, published, ncVars, taken, cycleVars, f>>
  BY DEF LoadLatest, LoadCancelled
<1>2. /\ loaded \in Fences /\ latest \in 0 .. MaxSession
      /\ cancelThrough \in 0 .. MaxSession /\ rt \in CyclePc
  BY DEF IInv, TypeOK
<1>3. rt.at \in FenceStep => rt.context \in Context
  BY <1>2 DEF CyclePc, FenceStep
<1>4. /\ loaded' \in Fences /\ rt' \in CyclePc
      /\ rt'.context = rt.context /\ rt.at \in FenceStep /\ rt'.at \in FenceStep
  <2>1. CASE LoadLatest
    <3>1. /\ loaded' = [loaded EXCEPT !.latest = latest] /\ rt.at = "latest"
          /\ rt' = [at |-> "cancelled", context |-> rt.context]
      BY <2>1 DEF LoadLatest, RtAt, RtGoto
    <3> QED BY <1>2, <1>3, <3>1 DEF Fences, CyclePc, FenceStep
  <2>2. CASE LoadCancelled
    <3>1. /\ loaded' = [loaded EXCEPT !.cancelled = cancelThrough] /\ rt.at = "cancelled"
          /\ rt' = [at |-> "neutralized", context |-> rt.context]
      BY <2>2 DEF LoadCancelled, RtAt, RtGoto
    <3> QED BY <1>2, <1>3, <3>1 DEF Fences, CyclePc, FenceStep
  <2> QED BY <2>1, <2>2
<1>5. TypeOK'
  BY <1>1, <1>4 DEF IInv, TypeOK, fences, ncVars, cycleVars
<1>6. Travelling'
  BY <1>1, <1>4 DEF IInv, Travelling, Holding, KnownRequest, KnownFeedback, Known, ncVars
<1>7. Consuming'
  BY <1>1, <1>4 DEF IInv, Consuming, Coherent, Active
<1>8. Entered'
  <2>1. /\ entry.latest <= latest /\ entry.cancelled <= cancelThrough
        /\ entry.neutralized <= neutralizeThrough
    BY <1>4 DEF IInv, Entered, FenceStep
  <2>2. CASE LoadLatest
    <3>1. /\ loaded'.latest = latest /\ rt'.at = "cancelled"
      BY <1>2, <2>2 DEF LoadLatest, RtGoto, Fences
    <3> QED BY <1>1, <2>1, <3>1 DEF Entered, fences, cycleVars
  <2>3. CASE LoadCancelled
    <3>1. /\ loaded'.latest = loaded.latest /\ loaded'.cancelled = cancelThrough
          /\ rt'.at = "neutralized" /\ rt.at = "cancelled"
      BY <1>2, <2>3 DEF LoadCancelled, RtAt, RtGoto, Fences
    <3> QED BY <1>1, <2>1, <3>1 DEF IInv, Entered, fences, cycleVars
  <2> QED BY <2>2, <2>3
<1> QED BY <1>1, <1>5, <1>6, <1>7, <1>8, NCUndisturbed DEF IInv

(* A new feedback that is coherent and known is all an observation has to  *)
(* show; only the last one of a pass goes to "publish".                    *)
LEMMA ObservedStep ==
  ASSUME IInv, UNCHANGED <<fences, queue, published, ncVars, entry>>,
         f' \in Feedback, Coherent(f'), KnownFeedback(f'),
         rt' \in CyclePc, rt'.at \in {"pop", "latest", "publish"},
         rt.at # "idle", rt'.context # "before",
         taken' \in {taken, Nothing}, loaded' \in Fences,
         fit' \in SUBSET Session, drained' \in BOOLEAN, pops' \in 0 .. MaxPops,
         rt'.at = "publish" =>
           entry.latest <= f'.latest /\ entry.cancelled <= f'.cancelled
             /\ entry.neutralized <= f'.neutralized
  PROVE  IInv'
<1>1. TypeOK'
  BY DEF IInv, TypeOK, fences, ncVars
<1>2. Travelling'
  BY DEF IInv, Travelling, Holding, KnownRequest, KnownFeedback, Known, ncVars
<1>3. Consuming'
  BY DEF IInv, Consuming, Coherent, Active
<1>4. Entered'
  BY DEF IInv, Entered, fences
<1> QED BY <1>1, <1>2, <1>3, <1>4, NCUndisturbed DEF IInv

LEMMA ObserveEntryStep ==
  ASSUME IInv, NEW stale \in BOOLEAN, ObserveEntry(stale)
  PROVE  IInv'
<1> DEFINE g == ObserveFences(f, ReadFences)
<1>1. /\ LoadNeutralized("entry") /\ f' = Supervise(g, stale)
      /\ rt' = [at |-> "pop", context |-> "none"]
      /\ UNCHANGED <<fences, queue, published, ncVars, taken, cycleVars>>
  BY DEF ObserveEntry, RtGoto
<1>2. f \in Feedback /\ Coherent(f) /\ KnownFeedback(f)
  BY DEF IInv, TypeOK, Consuming, Travelling
<1>3. g \in Feedback /\ Coherent(g) /\ g.session = f.session /\ g.last = f.last
  BY <1>1, <1>2, Observing, ObserveFacts
<1> HIDE DEF g
<1>4. f' \in Feedback /\ Coherent(f') /\ KnownFeedback(f')
  BY <1>1, <1>2, <1>3, SuperviseFacts DEF KnownFeedback
<1>5. rt' \in CyclePc /\ rt'.at = "pop" /\ rt'.context = "none" /\ rt.at = "neutralized"
      /\ loaded' \in Fences
  BY <1>1, Observing DEF CyclePc
<1>6. drained' \in BOOLEAN
  BY <1>1 DEF IInv, TypeOK, cycleVars
<1> QED BY <1>1, <1>4, <1>5, <1>6, ObservedStep DEF IInv, TypeOK, cycleVars

LEMMA PopStep ==
  ASSUME IInv, Pop
  PROVE  IInv'
<1>1. /\ rt.at = "pop" /\ pops < MaxPops /\ queue # <<>>
      /\ taken' = Head(queue) /\ queue' = Tail(queue) /\ pops' = pops + 1
      /\ rt' = [at |-> "latest", context |-> "before"]
      /\ UNCHANGED <<fences, published, ncVars, loaded, fit, drained, entry, f>>
  BY DEF Pop, RtAt, RtGoto
<1>2. queue \in Seq(Request) /\ Len(queue) <= Capacity
  BY DEF IInv, TypeOK
<1>3. /\ Head(queue) = queue[1] /\ queue[1] \in Request /\ 1 \in 1 .. Len(queue)
      /\ Tail(queue) \in Seq(Request) /\ Len(Tail(queue)) = Len(queue) - 1
      /\ \A i \in 1 .. Len(Tail(queue)) :
           i + 1 \in 1 .. Len(queue) /\ Tail(queue)[i] = queue[i + 1]
  BY <1>1, <1>2
<1>4. TypeOK'
  <2>1. Len(queue') <= Capacity /\ pops' \in 0 .. MaxPops
    BY <1>1, <1>2, <1>3, ShadowAssumption DEF IInv, TypeOK
  <2>2. rt' \in CyclePc
    BY <1>1 DEF CyclePc, FenceStep, Context
  <2> QED BY <1>1, <1>3, <2>1, <2>2 DEF IInv, TypeOK, fences, ncVars
<1>5. Travelling'
  <2>1. ASSUME NEW i \in 1 .. Len(queue')
        PROVE  KnownRequest(queue[i])'
    <3>1. KnownRequest(queue[i + 1]) /\ queue'[i] = queue[i + 1]
      BY <1>1, <1>3 DEF IInv, Travelling
    <3> QED BY <1>1, <3>1 DEF KnownRequest, Known, ncVars
  <2>2. taken' \in Request /\ KnownRequest(taken)'
    <3>1. KnownRequest(queue[1]) /\ taken' = queue[1]
      BY <1>1, <1>3 DEF IInv, Travelling
    <3> QED BY <1>1, <1>3, <3>1 DEF KnownRequest, Known, ncVars
  <2>3. KnownFeedback(f)' /\ (published # Nothing => KnownFeedback(published))'
    BY <1>1 DEF IInv, Travelling, KnownFeedback, Known, ncVars
  <2> QED BY <2>1, <2>2, <2>3 DEF Travelling
<1>6. Consuming'
  BY <1>1 DEF IInv, Consuming, Coherent, Active
<1>7. Entered'
  BY <1>1 DEF IInv, Entered, fences
<1> QED BY <1>1, <1>4, <1>5, <1>6, <1>7, NCUndisturbed DEF IInv

(* A request in the cycle's hands. *)
LEMMA HeldRequest ==
  ASSUME IInv, LoadNeutralized("before")
  PROVE  taken \in Request /\ KnownRequest(taken)
BY DEF IInv, Travelling, Holding, LoadNeutralized, RtAt, FenceStep

LEMMA ObserveStartStep ==
  ASSUME IInv, NEW valid \in BOOLEAN, ObserveStart(valid)
  PROVE  IInv'
<1> DEFINE g == ObserveFences(f, ReadFences)
<1>1. /\ LoadNeutralized("before") /\ f' = StartRuntime(g, taken, valid)
      /\ taken' = Nothing /\ rt' = [at |-> "latest", context |-> "after"]
      /\ UNCHANGED <<fences, queue, published, ncVars, cycleVars>>
  BY DEF ObserveStart, RtGoto
<1>2. f \in Feedback /\ Coherent(f) /\ KnownFeedback(f)
  BY DEF IInv, TypeOK, Consuming, Travelling
<1>3. g \in Feedback /\ Coherent(g) /\ g.session = f.session /\ g.last = f.last
  BY <1>1, <1>2, Observing, ObserveFacts
<1>4. taken \in Request /\ KnownRequest(taken) /\ control.submitted \in Nat
  BY <1>1, HeldRequest DEF IInv, TypeOK, Control
<1> HIDE DEF g
<1>5. /\ f' \in Feedback /\ Coherent(f')
      /\ \/ f'.session = f.session /\ f'.last = f.last
         \/ f'.session = taken.session /\ f'.last = 0
  BY <1>1, <1>3, <1>4, StartFacts
<1>6. KnownFeedback(f')
  BY <1>2, <1>4, <1>5 DEF KnownFeedback, KnownRequest, Known
<1>7. rt' \in CyclePc /\ rt'.at = "latest" /\ rt'.context = "after" /\ rt.at = "neutralized"
      /\ loaded' \in Fences
  BY <1>1, Observing DEF CyclePc, FenceStep, Context
<1>8. drained' \in BOOLEAN
  BY <1>1 DEF IInv, TypeOK, cycleVars
<1> QED BY <1>1, <1>5, <1>6, <1>7, <1>8, ObservedStep DEF IInv, TypeOK, cycleVars

LEMMA ObserveApplyStep ==
  ASSUME IInv, NEW valid \in BOOLEAN, ObserveApply(valid)
  PROVE  IInv'
<1> DEFINE g == ObserveFences(f, ReadFences)
<1>1. /\ LoadNeutralized("before") /\ taken.kind # "start"
      /\ f' = ApplyRuntime(g, taken, valid)
      /\ drained' = (drained \/ (f'.state = "Draining" /\ f'.last # g.last))
      /\ taken' = Nothing /\ rt' = [at |-> "latest", context |-> "after"]
      /\ UNCHANGED <<fences, queue, published, ncVars, pops, fit, entry>>
  BY DEF ObserveApply, RtGoto
<1>2. f \in Feedback /\ Coherent(f) /\ KnownFeedback(f)
  BY DEF IInv, TypeOK, Consuming, Travelling
<1>3. g \in Feedback /\ Coherent(g) /\ g.session = f.session /\ g.last = f.last
  BY <1>1, <1>2, Observing, ObserveFacts
<1>4. taken \in Request /\ KnownRequest(taken)
  BY <1>1, HeldRequest
<1>5. drained' \in BOOLEAN
  BY <1>1 DEF IInv, TypeOK
<1> HIDE DEF g
<1>6. /\ f' \in Feedback /\ Coherent(f') /\ f'.session = f.session
      /\ f'.last = f.last \/ (f'.last = taken.command /\ f.session = taken.session)
  BY <1>1, <1>3, <1>4, ApplyFacts
<1>7. KnownFeedback(f')
  BY <1>2, <1>4, <1>6 DEF KnownFeedback, KnownRequest, Known
<1>8. rt' \in CyclePc /\ rt'.at = "latest" /\ rt'.context = "after" /\ rt.at = "neutralized"
      /\ loaded' \in Fences
  BY <1>1, Observing DEF CyclePc, FenceStep, Context
<1>9. fit' \in SUBSET Session /\ pops' \in 0 .. MaxPops
  BY <1>1 DEF IInv, TypeOK
<1> QED BY <1>1, <1>5, <1>6, <1>7, <1>8, <1>9, ObservedStep

LEMMA ObserveAfterStep ==
  ASSUME IInv, ObserveAfter
  PROVE  IInv'
<1>1. /\ LoadNeutralized("after") /\ f' = ObserveFences(f, ReadFences)
      /\ rt' = [at |-> "pop", context |-> "none"]
      /\ UNCHANGED <<fences, queue, published, ncVars, taken, cycleVars>>
  BY DEF ObserveAfter, RtGoto
<1>2. f \in Feedback /\ Coherent(f) /\ KnownFeedback(f) /\ drained \in BOOLEAN
  BY DEF IInv, TypeOK, Consuming, Travelling
<1>3. f' \in Feedback /\ Coherent(f') /\ KnownFeedback(f')
  BY <1>1, <1>2, Observing, ObserveFacts DEF KnownFeedback
<1>4. rt' \in CyclePc /\ rt'.at = "pop" /\ rt'.context = "none" /\ rt.at = "neutralized"
      /\ loaded' \in Fences
  BY <1>1, Observing DEF CyclePc
<1> QED BY <1>1, <1>2, <1>3, <1>4, ObservedStep DEF IInv, TypeOK, cycleVars

LEMMA EndPopsStep ==
  ASSUME IInv, NEW later \in BOOLEAN, EndPops(later)
  PROVE  IInv'
<1> DEFINE g == [f EXCEPT !.pendingDrain = FALSE, !.state = "Completed"]
<1>1. /\ rt.at = "pop" /\ f' \in {f, g}
      /\ f' = g => f' = f \/ f.state = "Draining"
      /\ rt' = [at |-> "latest", context |-> "exit"]
      /\ pops' = 0 /\ fit' = {} /\ drained' = FALSE
      /\ UNCHANGED <<fences, queue, published, ncVars, loaded, taken, entry>>
  BY DEF EndPops, RtAt, RtGoto
<1>2. f \in Feedback /\ Coherent(f) /\ KnownFeedback(f) /\ drained \in BOOLEAN
      /\ loaded \in Fences
  BY DEF IInv, TypeOK, Consuming, Travelling
<1>3. /\ g \in Feedback /\ g.state = "Completed" /\ g.session = f.session
      /\ g.last = f.last /\ g.started = f.started /\ g.speed = f.speed
      /\ g.latest = f.latest /\ g.cancelled = f.cancelled /\ g.neutralized = f.neutralized
  BY <1>2 DEF Feedback, State, ActiveState
<1>4. f.state = "Draining" => Coherent(g)
  BY <1>2, <1>3 DEF Coherent, Active, ActiveState
<1> HIDE DEF g
<1>5. f' \in Feedback /\ Coherent(f') /\ KnownFeedback(f')
  BY <1>1, <1>2, <1>3, <1>4 DEF KnownFeedback
<1>6. rt' \in CyclePc /\ rt'.at = "latest" /\ rt'.context = "exit"
  BY <1>1 DEF CyclePc, FenceStep, Context
<1>7. pops' \in 0 .. MaxPops /\ fit' \in SUBSET Session /\ drained' \in BOOLEAN
  <2>1. 0 \in 0 .. MaxPops
    BY ShadowAssumption
  <2> QED BY <1>1, <2>1
<1>8. loaded' = loaded /\ taken' = taken /\ rt'.context # "before" /\ rt.at # "idle"
      /\ rt'.at # "publish" /\ UNCHANGED <<fences, queue, published, ncVars, entry>>
  BY <1>1, <1>6
<1> QED BY <1>2, <1>5, <1>6, <1>7, <1>8, ObservedStep

LEMMA ObserveExitStep ==
  ASSUME IInv, ObserveExit
  PROVE  IInv'
<1>1. /\ LoadNeutralized("exit") /\ f' = ObserveFences(f, ReadFences)
      /\ rt' = [at |-> "publish", context |-> "none"]
      /\ UNCHANGED <<fences, queue, published, ncVars, taken, cycleVars>>
  BY DEF ObserveExit, RtGoto
<1>2. f \in Feedback /\ Coherent(f) /\ KnownFeedback(f) /\ drained \in BOOLEAN
  BY DEF IInv, TypeOK, Consuming, Travelling
<1>3. /\ ReadFences \in Fences /\ loaded' \in Fences /\ rt.at = "neutralized"
      /\ entry.latest <= ReadFences.latest
      /\ entry.cancelled <= ReadFences.cancelled
      /\ entry.neutralized <= ReadFences.neutralized
  BY <1>1, Observing
<1>4. /\ f' \in Feedback /\ Coherent(f') /\ KnownFeedback(f')
      /\ f'.latest = ReadFences.latest /\ f'.cancelled = ReadFences.cancelled
      /\ f'.neutralized = ReadFences.neutralized
  BY <1>1, <1>2, <1>3, ObserveFacts DEF KnownFeedback
<1>5. rt' \in CyclePc /\ rt'.at = "publish" /\ rt'.context = "none"
  BY <1>1 DEF CyclePc
<1> QED BY <1>1, <1>2, <1>3, <1>4, <1>5, ObservedStep DEF IInv, TypeOK, cycleVars

LEMMA PublishStep ==
  ASSUME IInv, Publish
  PROVE  IInv'
<1>1. /\ published' = f /\ entry' = NoFences /\ rt' = [at |-> "idle", context |-> "none"]
      /\ UNCHANGED <<fences, queue, ncVars, loaded, taken, pops, fit, drained, f>>
  BY DEF Publish, RtGoto
<1>2. NoFences \in Fences /\ rt' \in CyclePc
  BY <1>1, ShadowAssumption DEF NoFences, Fences, CyclePc
<1>3. TypeOK'
  BY <1>1, <1>2 DEF IInv, TypeOK, fences, ncVars
<1>4. Travelling'
  BY <1>1 DEF IInv, Travelling, Holding, FenceStep, KnownRequest, KnownFeedback, Known, ncVars
<1>5. Consuming'
  BY <1>1 DEF IInv, Consuming, Coherent, Active
<1>6. Entered'
  BY <1>1 DEF Entered
<1> QED BY <1>1, <1>3, <1>4, <1>5, <1>6, NCUndisturbed DEF IInv

-----------------------------------------------------------------------------
LEMMA InitEstablishes == Init => IInv
<1> SUFFICES ASSUME Init PROVE IInv
  OBVIOUS
<1>1. /\ 0 \in 0 .. MaxSession /\ 0 \in 0 .. MaxCommand /\ 0 \in 0 .. MaxPops
      /\ 0 <= Capacity
  BY ShadowAssumption
<1>2. TypeOK
  <2>1. control \in Control /\ f \in Feedback /\ loaded \in Fences /\ entry \in Fences
    BY <1>1 DEF Init, Opened, Control, Feedback, State, ActiveState, NoFences, Fences
  <2>2. rt \in CyclePc
    BY DEF Init, CyclePc
  <2>3. queue \in Seq(Request) /\ Len(queue) <= Capacity
    BY <1>1 DEF Init
  <2> QED BY <1>1, <2>1, <2>2, <2>3 DEF Init, TypeOK
<1>3. Submitting
  BY DEF Init, Submitting, Opened
<1>4. Travelling
  BY DEF Init, Travelling, Holding, FenceStep, KnownFeedback, Known, Opened
<1>5. Consuming /\ Seeing /\ Entered
  BY DEF Init, Consuming, Seeing, Entered, Coherent, Active, ActiveState
<1> QED BY <1>2, <1>3, <1>4, <1>5 DEF IInv

LEMMA NextPreserves == IInv /\ [Next]_vars => IInv'
<1> SUFFICES ASSUME IInv, [Next]_vars PROVE IInv'
  OBVIOUS
<1>1. CASE NC
  BY <1>1, NCStep
<1>2. CASE Cycle
  BY <1>2, BeginCycleStep, LoadStep, ObserveEntryStep, PopStep, ObserveStartStep,
     ObserveApplyStep, ObserveAfterStep, EndPopsStep, ObserveExitStep, PublishStep
     DEF Cycle
<1>3. CASE UNCHANGED vars
  <2>1. UNCHANGED <<fences, ncVars>>
    BY <1>3 DEF vars
  <2>2. Submitting' /\ Seeing'
    BY <2>1, NCUndisturbed
  <2>3. TypeOK'
    BY <1>3 DEF IInv, TypeOK, vars, fences, ncVars, rtVars, cycleVars
  <2>4. Travelling' /\ Consuming' /\ Entered'
    BY <1>3 DEF IInv, Travelling, Holding, KnownRequest, KnownFeedback, Known, Consuming,
                Coherent, Active, Entered, vars, fences, ncVars, rtVars, cycleVars
  <2> QED BY <2>2, <2>3, <2>4 DEF IInv
<1> QED BY <1>1, <1>2, <1>3 DEF Next

THEOREM Invariance == Spec => []IInv
<1> QED BY InitEstablishes, NextPreserves, PTL DEF Spec

(* The types of the channel, of its control record and of the pass. *)
THEOREM TypeCorrect == Spec => []TypeOK
<1>1. IInv => TypeOK
  BY DEF IInv
<1> QED BY <1>1, Invariance, PTL

(* The feedback the NC thread holds as current is about what it asked for  *)
(* last (ReadEDMRTShadowSameThread).                                       *)
THEOREM ReadStaysCurrent == Spec => []ReadIsCurrent
<1>1. IInv => ReadIsCurrent
  <2> SUFFICES ASSUME IInv, seen # Nothing, Active(seen)
               PROVE  /\ seen.started /\ seen.session = latest /\ latest > cancelThrough
                      /\ seen.state # "Blocked" =>
                           seen.last = control.submitted /\ seen.last > neutralizeThrough
                      /\ seen.state = "Blocked" => seen.speed = 0
    BY DEF ReadIsCurrent
  <2>1. /\ nc = "idle" /\ Coherent(seen) /\ KnownFeedback(seen) /\ seen.latest = latest
        /\ seen.cancelled = cancelThrough /\ seen.neutralized = neutralizeThrough
    BY DEF IInv, Seeing
  <2>2. /\ seen.started /\ seen.session = latest /\ cancelThrough < latest
        /\ seen.state # "Blocked" => neutralizeThrough < seen.last
        /\ seen.speed # 0 => seen.state = "Running"
    BY <2>1 DEF Coherent
  <2>3. /\ latest = control.session /\ command <= neutralizeThrough + 1
        /\ control.submitted <= command
    BY <2>1 DEF IInv, Submitting
  <2>4. seen.last <= control.submitted
    BY <2>1, <2>2, <2>3 DEF KnownFeedback, Known
  <2>5. /\ latest \in Nat /\ cancelThrough \in Nat /\ neutralizeThrough \in Nat
        /\ command \in Nat /\ control.submitted \in Nat /\ seen.last \in Nat
    BY ShadowAssumption DEF IInv, TypeOK, Control, Feedback
  <2>6. seen.state # "Blocked" =>
          seen.last = control.submitted /\ seen.last > neutralizeThrough
    <3> SUFFICES ASSUME seen.state # "Blocked"
                 PROVE  seen.last = control.submitted /\ seen.last > neutralizeThrough
      OBVIOUS
    <3>1. neutralizeThrough < seen.last
      BY <2>2
    <3> HIDE DEF Coherent
    <3> QED BY <2>3, <2>4, <2>5, <3>1
  <2> QED BY <2>2, <2>5, <2>6
<1> QED BY <1>1, Invariance, PTL

(* A pass honours every fence that stood when it began (RuntimeCycle). *)
THEOREM StopsAreHonoured == Spec => []StopHonoured
<1>1. IInv => StopHonoured
  <2> SUFFICES ASSUME IInv, rt.at = "publish", f.state \in {"Running", "Draining"}
               PROVE  /\ f.session >= entry.latest /\ f.session > entry.cancelled
                      /\ f.last > entry.neutralized
    BY DEF StopHonoured
  <2>1. /\ entry.latest <= f.latest /\ entry.cancelled <= f.cancelled
        /\ entry.neutralized <= f.neutralized
    BY DEF IInv, Entered
  <2>2. f.session = f.latest /\ f.cancelled < f.latest /\ f.neutralized < f.last
    BY DEF IInv, Consuming, Coherent, Active, ActiveState
  <2>3. /\ entry.latest \in Nat /\ entry.cancelled \in Nat /\ entry.neutralized \in Nat
        /\ f.session \in Nat /\ f.latest \in Nat /\ f.cancelled \in Nat
        /\ f.neutralized \in Nat /\ f.last \in Nat
    BY ShadowAssumption DEF IInv, TypeOK, Fences, Feedback
  <2> QED BY <2>1, <2>2, <2>3
<1> QED BY <1>1, Invariance, PTL

(* No failure path leaves a speed behind (ShadowConsumer::Cancel,          *)
(* Neutralize).                                                            *)
THEOREM SpeedStaysEligible == Spec => []SpeedIsEligible
<1>1. ASSUME NEW g \in Feedback, Coherent(g), g.speed # 0
      PROVE  /\ g.state = "Running" /\ g.started /\ g.speed = g.last
             /\ g.session = g.latest /\ g.session > g.cancelled
             /\ g.speed > g.neutralized
  <2>1. /\ g.state = "Running" /\ g.started /\ g.speed = g.last
        /\ g.session = g.latest /\ g.cancelled < g.latest /\ g.neutralized < g.last
    BY <1>1 DEF Coherent, Active, ActiveState
  <2>2. /\ g.latest \in Nat /\ g.cancelled \in Nat /\ g.neutralized \in Nat
        /\ g.last \in Nat
    BY ShadowAssumption DEF Feedback
  <2> QED BY <2>1, <2>2
<1>2. IInv => SpeedIsEligible
  BY <1>1 DEF IInv, TypeOK, Consuming, SpeedIsEligible
<1> QED BY <1>2, Invariance, PTL

-----------------------------------------------------------------------------
(* What holds of each of the two holds of both, one of which moves.        *)
THEOREM PolledKeepsTheirSpecs == PolledSpec => Spec /\ ControlledStop!Spec
<1>1. PolledInit => Init /\ ControlledStop!Init
  BY DEF PolledInit
<1>2. [ShadowMoves \/ ResetMoves]_all =>
        [Next]_vars /\ [ControlledStop!Next]_ControlledStop!vars
  BY DEF ShadowMoves, ResetMoves, InShadow, InReset, all, resetVariables,
     ControlledStop!vars, ControlledStop!authorityVars, ControlledStop!mailVars,
     ControlledStop!motionVars, ControlledStop!callerVars, ControlledStop!ncVars,
     ControlledStop!rtVars, ControlledStop!alarmVars
<1> QED BY <1>1, <1>2, PTL DEF PolledSpec, Spec, ControlledStop!Spec
=============================================================================
