--------------------------- MODULE CoreTimer_proofs ---------------------------
(***************************************************************************)
(* Stopping the cyclic runtime is safe for every set of timers and every   *)
(* order in which they are stopped and drained; and what is proved of the  *)
(* components of the liveness run, here and elsewhere, holds of that run.  *)
(***************************************************************************)
EXTENDS MCLiveness, TLAPS

(* No callback of the timer is admitted or ever will be, and the timer is  *)
(* gone.                                                                   *)
Closed(t) == gate[t].stopped /\ gate[t].active = 0
Drained(t) == Closed(t) /\ ~handle[t]

(* The gate counts the one callback a timer can have in progress, and what *)
(* a callback that is about to enter has loaded was open.                  *)
GateCounts ==
  \A t \in Timer :
    /\ gate[t].active = IF handler[t] \in Inside THEN 1 ELSE 0
    /\ handler[t] = "enter" => ~observed[t].stopped

(* A timer that does not exist is not armed, and its callback is either    *)
(* not there or can no longer enter.                                       *)
MissingIsSilent ==
  \A t \in Timer : ~handle[t] => ~armed[t] /\ (handler[t] = "none" \/ Closed(t))

(* An Owner is given up for a drained timer only. *)
OwnerLast == \A t \in Timer : ~owner[t] => Drained(t)

(* What the stopping thread has established of the timer it treats. *)
PhaseFacts ==
  /\ main \in {"running", "quiescent"} \/ todo # <<>>
  /\ main \in {"drain cancel", "drain wait"} => gate[Now].stopped
  /\ main \in {"final cancel", "delete", "detach"} => Closed(Now)
  /\ main = "detach" => ~handle[Now]

(* StopCyclicRuntime reaches every timer. *)
DrainPhase == {"drain stop", "drain cancel", "drain wait", "final cancel", "delete", "detach"}
Progress ==
  /\ main \in {"stop", "cancel", "quiescent"} => full
  /\ full /\ main \in DrainPhase => \A t \in Timer : t \in Range(todo) \/ ~owner[t]
  /\ main = "quiescent" => \A t \in Timer : ~owner[t]

IInv ==
  /\ TypeOK
  /\ GateCounts
  /\ MissingIsSilent
  /\ OwnerLast
  /\ PhaseFacts
  /\ Progress

-----------------------------------------------------------------------------
(* An element of a list is its head or in its tail. *)
LEMMA HeadOrTail ==
  ASSUME NEW list \in Seq(Timer), list # <<>>
  PROVE  /\ Head(list) \in Timer /\ Tail(list) \in Seq(Timer)
         /\ \A t \in Range(list) : t = Head(list) \/ t \in Range(Tail(list))
<1>1. Head(list) \in Timer /\ Tail(list) \in Seq(Timer)
  OBVIOUS
<1>2. ASSUME NEW t \in Range(list), t # Head(list)
      PROVE  t \in Range(Tail(list))
  <2>1. PICK i \in 1 .. Len(list) : t = list[i]
    BY DEF Range
  <2>2. i # 1 /\ i - 1 \in 1 .. Len(Tail(list))
    BY <2>1, <1>2
  <2>3. Tail(list)[i - 1] = t
    BY <2>1, <2>2
  <2>4. DOMAIN Tail(list) = 1 .. Len(Tail(list))
    BY <1>1
  <2> QED BY <2>2, <2>3, <2>4 DEF Range
<1> QED BY <1>1, <1>2

(* The lists of StopCyclicRuntime are not empty. *)
LEMMA OrdersNotEmpty == StopOrder # <<>> /\ DrainOrder # <<>>
  BY TimerAssumption DEF Range

(* What the two updates of one gate change, and what they leave.           *)
LEMMA ActiveSet ==
  ASSUME NEW f \in [Timer -> Gate], NEW t \in Timer, NEW n \in Nat
  PROVE  LET g == [f EXCEPT ![t].active = n] IN
         /\ g \in [Timer -> Gate]
         /\ g[t].active = n /\ g[t].stopped = f[t].stopped
         /\ \A u \in Timer \ {t} : g[u] = f[u]
<1> DEFINE g == [f EXCEPT ![t].active = n]
<1>1. g[t] = [f[t] EXCEPT !.active = n] /\ f[t] \in Gate
  OBVIOUS
<1>2. g[t] \in Gate /\ g[t].active = n /\ g[t].stopped = f[t].stopped
  BY <1>1 DEF Gate
<1>3. g \in [Timer -> Gate]
  BY <1>2
<1> QED BY <1>2, <1>3

LEMMA StoppedSet ==
  ASSUME NEW f \in [Timer -> Gate], NEW t \in Timer
  PROVE  LET g == [f EXCEPT ![t].stopped = TRUE] IN
         /\ g \in [Timer -> Gate]
         /\ g[t].active = f[t].active /\ g[t].stopped
         /\ \A u \in Timer \ {t} : g[u] = f[u]
  BY DEF Gate

-----------------------------------------------------------------------------
(* At first every gate is open and nobody stops anything. *)
LEMMA InitIInv == Init => IInv
<1> SUFFICES ASSUME Init PROVE IInv
  OBVIOUS
<1> USE DEF Init, Open, Inside, Gate
<1>1. TypeOK
  <2>1. gate \in [Timer -> Gate] OBVIOUS
  <2>2. handle \in [Timer -> BOOLEAN] OBVIOUS
  <2>3. armed \in [Timer -> BOOLEAN] OBVIOUS
  <2>4. owner \in [Timer -> BOOLEAN] OBVIOUS
  <2>5. handler \in [Timer -> Inside \cup {"none", "delivered", "enter"}] OBVIOUS
  <2>6. todo \in Seq(Timer) OBVIOUS
  <2> QED BY <2>1, <2>2, <2>3, <2>4, <2>5, <2>6 DEF TypeOK
<1>2. GateCounts BY DEF GateCounts
<1>3. MissingIsSilent BY DEF MissingIsSilent
<1>4. OwnerLast BY DEF OwnerLast
<1>5. PhaseFacts BY DEF PhaseFacts
<1>6. Progress BY DEF Progress, DrainPhase
<1> QED BY <1>1, <1>2, <1>3, <1>4, <1>5, <1>6 DEF IInv

(* What a callback does leaves the stopping thread's facts alone: a closed *)
(* gate stays closed.                                                      *)
LEMMA CallbackIInv ==
  ASSUME IInv, NEW t \in Timer, Expire(t) \/ Callback(t)
  PROVE  IInv'
<1> USE DEF Inside, Closed, HandlerAt, HandlerTo, timerVars, mainVars
<1>0. TypeOK /\ GateCounts /\ MissingIsSilent /\ OwnerLast /\ PhaseFacts /\ Progress
  BY DEF IInv
<1>a. UNCHANGED <<handle, owner, mainVars>>
  BY DEF Expire, Callback, TryEnterLoad, TryEnterSwap, LookForStop, Rearm, Leave
<1>b. /\ gate \in [Timer -> Gate] /\ gate[t].active \in Nat
      /\ handler \in [Timer -> Inside \cup {"none", "delivered", "enter"}]
  BY <1>0 DEF TypeOK, Gate
<1>c. gate \in [Timer -> Gate]
  BY <1>b
<1>1. /\ TypeOK' /\ GateCounts' /\ MissingIsSilent'
      /\ \A u \in Timer : gate[u].stopped => gate'[u].stopped
      /\ \A u \in Timer : Closed(u) => Closed(u)'
  <2>1. CASE Expire(t)
    BY <2>1, <1>0 DEF Expire, TypeOK, GateCounts, MissingIsSilent
  <2>2. CASE TryEnterLoad(t)
    BY <2>2, <1>0 DEF TryEnterLoad, TypeOK, GateCounts, MissingIsSilent
  <2>3. CASE TryEnterSwap(t) /\ gate[t] = observed[t]
    <3>1. gate[t].active = 0 /\ ~gate[t].stopped
      BY <2>3, <1>0, <1>b DEF TryEnterSwap, GateCounts
    <3>2a. gate' = [gate EXCEPT ![t].active = gate[t].active + 1]
      BY <2>3 DEF TryEnterSwap
    <3>2. /\ handler' = [handler EXCEPT ![t] = "admitted"]
          /\ UNCHANGED <<armed, observed>>
      BY <2>3 DEF TryEnterSwap
    <3>3. /\ gate' \in [Timer -> Gate] /\ gate'[t].active = 1
          /\ \A u \in Timer \ {t} : gate'[u] = gate[u]
      <4>1. gate[t].active + 1 \in Nat /\ gate[t].active + 1 = 1
        BY <3>1
      <4>2. /\ gate' \in [Timer -> Gate] /\ gate'[t].active = gate[t].active + 1
            /\ \A u \in Timer \ {t} : gate'[u] = gate[u]
        BY <4>1, <3>2a, <1>c, ActiveSet
      <4> QED BY <4>1, <4>2
    <3>4. TypeOK'
      BY <3>2, <3>3, <1>0, <1>a DEF TypeOK
    <3>5. GateCounts' /\ MissingIsSilent'
      BY <2>3, <3>1, <3>2, <3>3, <1>b, <1>0, <1>a DEF GateCounts, MissingIsSilent, TryEnterSwap
    <3> QED BY <3>1, <3>3, <3>4, <3>5
  <2>4. CASE TryEnterSwap(t) /\ gate[t] # observed[t]
    BY <2>4, <1>0 DEF TryEnterSwap, TypeOK, GateCounts, MissingIsSilent
  <2>5. CASE LookForStop(t)
    BY <2>5, <1>0 DEF LookForStop, TypeOK, GateCounts, MissingIsSilent
  <2>6. CASE Rearm(t)
    <3>1. /\ handler[t] \in Inside /\ handler'[t] \in Inside /\ UNCHANGED <<gate, handle, observed>>
          /\ handler' \in [Timer -> Inside \cup {"none", "delivered", "enter"}]
          /\ \A u \in Timer \ {t} : handler'[u] = handler[u]
      BY <2>6, <1>b DEF Rearm
    <3>2. /\ armed' \in [Timer -> BOOLEAN]
          /\ \A u \in Timer : armed'[u] => armed[u] \/ (u = t /\ handle[t])
      BY <2>6, <1>0 DEF Rearm, TypeOK
    <3>3. TypeOK'
      BY <3>1, <3>2, <1>0, <1>a DEF TypeOK
    <3>4. GateCounts'
      BY <3>1, <1>0 DEF GateCounts
    <3>5. MissingIsSilent'
      BY <3>1, <3>2, <1>0 DEF MissingIsSilent
    <3> QED BY <3>1, <3>3, <3>4, <3>5
  <2>7. CASE Leave(t)
    <3>1. gate[t].active = 1
      BY <2>7, <1>0 DEF Leave, GateCounts
    <3>2a. gate' = [gate EXCEPT ![t].active = gate[t].active - 1]
      BY <2>7 DEF Leave
    <3>2. /\ handler' = [handler EXCEPT ![t] = "none"]
          /\ UNCHANGED <<armed, observed>>
      BY <2>7 DEF Leave
    <3>3. /\ gate' \in [Timer -> Gate] /\ gate'[t].active = 0
          /\ gate'[t].stopped = gate[t].stopped
          /\ \A u \in Timer \ {t} : gate'[u] = gate[u]
      <4>1. gate[t].active - 1 \in Nat /\ gate[t].active - 1 = 0
        BY <3>1
      <4>2. /\ gate' \in [Timer -> Gate] /\ gate'[t].active = gate[t].active - 1
            /\ gate'[t].stopped = gate[t].stopped
            /\ \A u \in Timer \ {t} : gate'[u] = gate[u]
        BY <4>1, <3>2a, <1>c, ActiveSet
      <4> QED BY <4>1, <4>2
    <3>4. TypeOK'
      BY <3>2, <3>3, <1>0, <1>a DEF TypeOK
    <3>5. GateCounts' /\ MissingIsSilent'
      BY <2>7, <3>2, <3>3, <1>b, <1>0, <1>a DEF GateCounts, MissingIsSilent, Leave
    <3> QED BY <3>3, <3>4, <3>5
  <2> QED BY <2>1, <2>2, <2>3, <2>4, <2>5, <2>6, <2>7 DEF Callback
<1>2. OwnerLast'
  BY <1>0, <1>a, <1>1 DEF OwnerLast, Drained
<1>3. PhaseFacts'
  <2>1. CASE main \in {"running", "quiescent"}
    BY <1>0, <1>a, <2>1 DEF PhaseFacts
  <2>2. CASE todo # <<>>
    <3>1. Now \in Timer /\ Now' = Now
      BY <2>2, <1>0, <1>a, HeadOrTail DEF Now, TypeOK
    <3> QED BY <3>1, <2>2, <1>0, <1>a, <1>1 DEF PhaseFacts
  <2> QED BY <2>1, <2>2, <1>0 DEF PhaseFacts
<1>4. Progress'
  BY <1>0, <1>a DEF Progress
<1> QED BY <1>1, <1>2, <1>3, <1>4 DEF IInv

(* A stop sets one flag and changes nothing else. *)
LEMMA RequestStopped ==
  ASSUME TypeOK, NEW t \in Timer, RequestStop(t)
  PROVE  /\ gate' \in [Timer -> Gate] /\ gate'[t].stopped
         /\ \A u \in Timer : /\ gate'[u].active = gate[u].active
                             /\ gate[u].stopped => gate'[u].stopped
<1>1. gate \in [Timer -> Gate] /\ gate' = [gate EXCEPT ![t].stopped = TRUE]
  BY DEF TypeOK, RequestStop
<1>2. /\ gate' \in [Timer -> Gate]
      /\ gate'[t].active = gate[t].active /\ gate'[t].stopped
      /\ \A u \in Timer \ {t} : gate'[u] = gate[u]
  BY <1>1, StoppedSet
<1> QED BY <1>2

(* Whatever a cancel answers, it arms nothing. *)
LEMMA Cancelled ==
  ASSUME TypeOK, NEW t \in Timer, Cancel(t)
  PROVE  armed' \in [Timer -> BOOLEAN] /\ \A u \in Timer : armed'[u] => armed[u]
  BY DEF TypeOK, Cancel

(* The list goes on to its tail, or to a new list, that is not empty. *)
LEMMA OnwardLists ==
  ASSUME TypeOK, PhaseFacts, NEW label, NEW list \in Seq(Timer), list # <<>>,
         main \notin {"running", "quiescent"}, Onward(label, list)
  PROVE  /\ todo' \in Seq(Timer) /\ todo' # <<>>
         /\ main' = main \/ (main' = label /\ todo' = list)
  BY HeadOrTail DEF TypeOK, PhaseFacts, Onward, Phase

(* The steps of the stopping thread, one after the other. *)
LEMMA StopperIInv ==
  ASSUME IInv, StopCyclicRuntime \/ DrainProbe \/ Stopping \/ DeleteTimer \/ DeleteFailed
  PROVE  IInv'
<1> USE TimerAssumption, OrdersNotEmpty DEF timerVars, handlerVars, DrainPhase, Closed, Phase
<1>0. TypeOK /\ GateCounts /\ MissingIsSilent /\ OwnerLast /\ PhaseFacts /\ Progress
  BY DEF IInv
<1>1. CASE StopCyclicRuntime
  <2>1. TypeOK'
    BY <1>0, <1>1 DEF StopCyclicRuntime, TypeOK
  <2>2. GateCounts' /\ MissingIsSilent' /\ OwnerLast'
    BY <1>0, <1>1 DEF StopCyclicRuntime, GateCounts, MissingIsSilent, OwnerLast, Drained
  <2>3. PhaseFacts' /\ Progress'
    BY <1>1 DEF StopCyclicRuntime, PhaseFacts, Progress
  <2> QED BY <2>1, <2>2, <2>3 DEF IInv
<1>2. CASE DrainProbe
  <2>1. <<Probe>> \in Seq(Timer) /\ <<Probe>> # <<>>
    OBVIOUS
  <2>2. TypeOK'
    BY <1>0, <1>2, <2>1 DEF DrainProbe, TypeOK
  <2>3. GateCounts' /\ MissingIsSilent' /\ OwnerLast'
    BY <1>0, <1>2 DEF DrainProbe, GateCounts, MissingIsSilent, OwnerLast, Drained
  <2>4. PhaseFacts' /\ Progress'
    BY <1>2, <2>1 DEF DrainProbe, PhaseFacts, Progress
  <2> QED BY <2>2, <2>3, <2>4 DEF IInv
<1>3. ASSUME main \notin {"running", "quiescent"}
      PROVE  todo # <<>> /\ todo \in Seq(Timer) /\ Now \in Timer
  BY <1>0, <1>3, HeadOrTail DEF PhaseFacts, TypeOK, Now
<1>4. CASE StopGate
  <2>1. main = "stop" /\ Now \in Timer
    BY <1>3, <1>4 DEF StopGate, MainAt
  <2>2. /\ gate' \in [Timer -> Gate]
        /\ \A u \in Timer : /\ gate'[u].active = gate[u].active
                            /\ gate[u].stopped => gate'[u].stopped
    BY <2>1, <1>0, <1>4, RequestStopped DEF StopGate
  <2>3. /\ todo' \in Seq(Timer) /\ todo' # <<>>
        /\ main' \in {"stop", "cancel"} /\ UNCHANGED <<handle, armed, owner, handler, observed, full>>
    BY <2>1, <1>0, <1>4, OnwardLists DEF StopGate
  <2>4. TypeOK'
    BY <1>0, <2>2, <2>3 DEF TypeOK
  <2>5. GateCounts' /\ MissingIsSilent' /\ OwnerLast'
    BY <1>0, <2>2, <2>3 DEF GateCounts, MissingIsSilent, OwnerLast, Drained
  <2>6. PhaseFacts' /\ Progress'
    BY <1>0, <2>1, <2>3 DEF PhaseFacts, Progress
  <2> QED BY <2>4, <2>5, <2>6 DEF IInv
<1>5. CASE CancelTimer
  <2>1. main = "cancel" /\ Now \in Timer
    BY <1>3, <1>5 DEF CancelTimer, MainAt
  <2>2. armed' \in [Timer -> BOOLEAN] /\ \A u \in Timer : armed'[u] => armed[u]
    BY <2>1, <1>0, <1>5, Cancelled DEF CancelTimer
  <2>3. /\ todo' \in Seq(Timer) /\ todo' # <<>>
        /\ main' = "cancel" \/ (main' = "drain stop" /\ todo' = DrainOrder)
        /\ UNCHANGED <<gate, handle, owner, handler, observed, full>>
    BY <2>1, <1>0, <1>5, OnwardLists DEF CancelTimer
  <2>4. TypeOK'
    BY <1>0, <2>2, <2>3 DEF TypeOK
  <2>5. GateCounts' /\ MissingIsSilent' /\ OwnerLast'
    BY <1>0, <2>2, <2>3 DEF GateCounts, MissingIsSilent, OwnerLast, Drained
  <2>6. PhaseFacts' /\ Progress'
    BY <1>0, <2>1, <2>3 DEF PhaseFacts, Progress
  <2> QED BY <2>4, <2>5, <2>6 DEF IInv
<1>6. CASE DrainStop
  <2>1. main = "drain stop" /\ Now \in Timer /\ todo # <<>>
    BY <1>3, <1>6 DEF DrainStop, MainAt
  <2>2. /\ gate' \in [Timer -> Gate] /\ gate'[Now].stopped
        /\ \A u \in Timer : /\ gate'[u].active = gate[u].active
                            /\ gate[u].stopped => gate'[u].stopped
    BY <2>1, <1>0, <1>6, RequestStopped DEF DrainStop
  <2>3. /\ main' = "drain cancel" /\ todo' = todo /\ Now' = Now
        /\ UNCHANGED <<handle, armed, owner, handler, observed, full>>
    BY <1>6 DEF DrainStop, Now
  <2>4. TypeOK'
    BY <1>0, <2>2, <2>3 DEF TypeOK
  <2>5. GateCounts' /\ MissingIsSilent' /\ OwnerLast'
    BY <1>0, <2>2, <2>3 DEF GateCounts, MissingIsSilent, OwnerLast, Drained
  <2>6. PhaseFacts' /\ Progress'
    BY <1>0, <2>1, <2>2, <2>3 DEF PhaseFacts, Progress
  <2> QED BY <2>4, <2>5, <2>6 DEF IInv
<1>7. CASE DrainCancel \/ FinalCancel
  <2>1. main \in {"drain cancel", "final cancel"} /\ Now \in Timer /\ todo # <<>>
    BY <1>3, <1>7 DEF DrainCancel, FinalCancel, MainAt
  <2>2. armed' \in [Timer -> BOOLEAN] /\ \A u \in Timer : armed'[u] => armed[u]
    BY <2>1, <1>0, <1>7, Cancelled DEF DrainCancel, FinalCancel
  <2>3. /\ main' = IF main = "drain cancel" THEN "drain wait" ELSE "delete"
        /\ todo' = todo /\ Now' = Now
        /\ UNCHANGED <<gate, handle, owner, handler, observed, full>>
    BY <1>7 DEF DrainCancel, FinalCancel, MainAt, Now
  <2>4. TypeOK'
    BY <1>0, <2>2, <2>3 DEF TypeOK
  <2>5. GateCounts' /\ MissingIsSilent' /\ OwnerLast'
    BY <1>0, <2>2, <2>3 DEF GateCounts, MissingIsSilent, OwnerLast, Drained
  <2>6. PhaseFacts' /\ Progress'
    BY <1>0, <2>1, <2>3 DEF PhaseFacts, Progress
  <2> QED BY <2>4, <2>5, <2>6 DEF IInv
<1>8. CASE DrainWait \/ DeleteFailed
  <2>1. main \in {"drain wait", "delete"} /\ Now \in Timer /\ todo # <<>>
    BY <1>3, <1>8 DEF DrainWait, DeleteFailed, MainAt
  <2>2. /\ main' = IF main = "drain wait" /\ ~handle[Now] THEN "detach" ELSE "final cancel"
        /\ main = "drain wait" => gate[Now].active = 0
        /\ todo' = todo /\ Now' = Now
        /\ UNCHANGED <<gate, handle, armed, owner, handler, observed, full>>
    BY <1>8 DEF DrainWait, DeleteFailed, MainAt, Now
  <2>3. TypeOK'
    BY <1>0, <2>2 DEF TypeOK
  <2>4. GateCounts' /\ MissingIsSilent' /\ OwnerLast'
    BY <1>0, <2>2 DEF GateCounts, MissingIsSilent, OwnerLast, Drained
  <2>5. PhaseFacts' /\ Progress'
    BY <1>0, <2>1, <2>2 DEF PhaseFacts, Progress
  <2> QED BY <2>3, <2>4, <2>5 DEF IInv
<1>9. CASE DeleteTimer
  <2>1. main = "delete" /\ Now \in Timer /\ todo # <<>> /\ Closed(Now)
    BY <1>0, <1>3, <1>9 DEF DeleteTimer, MainAt, PhaseFacts
  <2>2. /\ main' = "detach" /\ todo' = todo /\ Now' = Now
        /\ UNCHANGED <<gate, owner, handler, observed, full>>
        /\ handle' = [handle EXCEPT ![Now] = FALSE] /\ armed' = [armed EXCEPT ![Now] = FALSE]
    BY <1>9 DEF DeleteTimer, Now
  <2>3. TypeOK'
    BY <1>0, <2>1, <2>2 DEF TypeOK
  <2>4. ~handle'[Now] /\ ~armed'[Now]
        /\ \A u \in Timer \ {Now} : handle'[u] = handle[u] /\ armed'[u] = armed[u]
    BY <1>0, <2>1, <2>2 DEF TypeOK
  <2>5. GateCounts' /\ MissingIsSilent' /\ OwnerLast'
    BY <1>0, <2>1, <2>2, <2>4 DEF GateCounts, MissingIsSilent, OwnerLast, Drained
  <2>6. PhaseFacts' /\ Progress'
    BY <1>0, <2>1, <2>2, <2>4 DEF PhaseFacts, Progress
  <2> QED BY <2>3, <2>5, <2>6 DEF IInv
<1>10. CASE Detach
  <2>1. /\ main = "detach" /\ Now \in Timer /\ todo # <<>> /\ todo \in Seq(Timer)
        /\ Closed(Now) /\ ~handle[Now]
    BY <1>0, <1>3, <1>10 DEF Detach, MainAt, PhaseFacts
  <2>2. /\ owner' = [owner EXCEPT ![Now] = FALSE]
        /\ UNCHANGED <<gate, handle, armed, handler, observed, full>>
    BY <1>10 DEF Detach
  <2>3. /\ todo' = Tail(todo)
        /\ main' = IF Tail(todo) # <<>> THEN "drain stop" ELSE IF full THEN "quiescent" ELSE "running"
    BY <1>10 DEF Detach
  <2>4. ~owner'[Now] /\ \A u \in Timer \ {Now} : owner'[u] = owner[u]
    BY <1>0, <2>1, <2>2 DEF TypeOK
  <2>5. TypeOK'
    BY <1>0, <2>1, <2>2, <2>3, HeadOrTail DEF TypeOK
  <2>6. GateCounts' /\ MissingIsSilent' /\ OwnerLast'
    BY <1>0, <2>1, <2>2, <2>4 DEF GateCounts, MissingIsSilent, OwnerLast, Drained
  <2>7. PhaseFacts'
    BY <2>3 DEF PhaseFacts
  <2>8. Progress'
    <3>1. full => \A u \in Timer : u \in Range(Tail(todo)) \/ ~owner'[u]
      BY <1>0, <2>1, <2>4, HeadOrTail DEF Progress, Now
    <3>2. Tail(todo) = <<>> => Range(Tail(todo)) = {}
      BY DEF Range
    <3> QED BY <2>2, <2>3, <3>1, <3>2 DEF Progress
  <2> QED BY <2>5, <2>6, <2>7, <2>8 DEF IInv
<1> QED BY <1>1, <1>2, <1>4, <1>5, <1>6, <1>7, <1>8, <1>9, <1>10 DEF Stopping

(* The invariant holds whatever expires, fails, rearms and stops. *)
LEMMA Invariant == Spec => []IInv
<1>1. IInv /\ [Next]_vars => IInv'
  <2> SUFFICES ASSUME IInv, [Next]_vars PROVE IInv'
    OBVIOUS
  <2>1. ASSUME NEW t \in Timer, Expire(t) \/ Callback(t) PROVE IInv'
    BY <2>1, CallbackIInv
  <2>2. CASE StopCyclicRuntime \/ DrainProbe \/ Stopping \/ DeleteTimer \/ DeleteFailed
    BY <2>2, StopperIInv
  <2>3. CASE UNCHANGED vars
    <3>1. TypeOK' /\ GateCounts' /\ MissingIsSilent' /\ OwnerLast'
      BY <2>3 DEF vars, timerVars, handlerVars, mainVars, IInv, TypeOK, GateCounts,
                  MissingIsSilent, OwnerLast, Drained, Closed
    <3>2. PhaseFacts' /\ Progress'
      BY <2>3 DEF vars, timerVars, handlerVars, mainVars, IInv, PhaseFacts, Progress, Now, Closed
    <3> QED BY <3>1, <3>2 DEF IInv
  <2> QED BY <2>1, <2>2, <2>3 DEF Next
<1> QED BY <1>1, InitIInv, PTL DEF Spec

(* Every variable keeps its type; the active count never borrows below     *)
(* zero into the stopped flag.                                             *)
THEOREM TypesKept == Spec => []TypeOK
<1>1. IInv => TypeOK
  BY DEF IInv
<1> QED BY <1>1, Invariant, PTL

(* Neither the Owner nor a timer it arms is taken away under an admitted   *)
(* callback: the drain waits for a count that counts exactly the callback  *)
(* inside, and nobody is admitted past a closed gate.                      *)
THEOREM OwnerSafe == Spec => []OwnerOutlivesCallback
<1>1. ASSUME IInv PROVE OwnerOutlivesCallback
  <2>1. \A t \in Timer : handler[t] \in Inside => gate[t].active = 1 /\ handler[t] # "none"
    BY <1>1 DEF IInv, GateCounts, Inside
  <2>2. \A t \in Timer : ~owner[t] => gate[t].active = 0
    BY <1>1 DEF IInv, OwnerLast, Drained, Closed
  <2>3. \A t \in Timer : ~handle[t] => handler[t] = "none" \/ gate[t].active = 0
    BY <1>1 DEF IInv, MissingIsSilent, Closed
  <2> QED BY <2>1, <2>2, <2>3 DEF OwnerOutlivesCallback
<1> QED BY <1>1, Invariant, PTL

(* When StopCyclicRuntime returns every timer was drained.                 *)
THEOREM QuiescentSafe == Spec => []QuiescentIsQuiet
<1>1. ASSUME IInv, main = "quiescent" PROVE QuiescentIsQuiet
  <2>1. \A t \in Timer : Drained(t)
    BY <1>1 DEF IInv, OwnerLast, Progress
  <2>2. \A t \in Timer : ~armed[t]
    BY <1>1, <2>1 DEF IInv, MissingIsSilent, Drained
  <2>3. \A t \in Timer : handler[t] \notin Inside
    BY <1>1, <2>1 DEF IInv, GateCounts, Drained, Closed
  <2> QED BY <2>1, <2>2, <2>3 DEF QuiescentIsQuiet, Drained, Closed
<1>2. IInv => QuiescentIsQuiet
  BY <1>1 DEF QuiescentIsQuiet
<1> QED BY <1>2, Invariant, PTL

(* A closed gate is never opened, and the compare-exchange of TryEnter     *)
(* admits nobody through it.                                               *)
THEOREM ClosedGateAdmitsNobody == Spec => NoAdmissionAfterStop
<1> DEFINE Kept == \A t \in Timer : gate[t].stopped =>
                     gate'[t].stopped /\ gate'[t].active <= gate[t].active
<1>1. IInv /\ [Next]_vars => [Kept]_vars
  <2> SUFFICES ASSUME IInv, Next PROVE Kept
    BY DEF vars
  <2>1. /\ gate \in [Timer -> Gate] /\ \A u \in Timer : gate[u].active \in Nat
    BY DEF IInv, TypeOK, Gate
  <2>2. CASE UNCHANGED gate
    BY <2>1, <2>2
  <2>3. ASSUME NEW t \in Timer, TryEnterSwap(t), gate' # gate
        PROVE  Kept
    <3>1. gate[t] = observed[t] /\ gate' = [gate EXCEPT ![t].active = gate[t].active + 1]
      BY <2>3 DEF TryEnterSwap
    <3>2. ~gate[t].stopped
      BY <2>3, <3>1 DEF TryEnterSwap, HandlerAt, IInv, GateCounts
    <3>3. \A u \in Timer \ {t} : gate'[u] = gate[u]
      BY <3>1, <2>1
    <3> QED BY <3>2, <3>3, <2>1
  <2>4. ASSUME NEW t \in Timer, Leave(t) PROVE Kept
    <3>1. gate[t].active = 1
      BY <2>4 DEF Leave, HandlerAt, Inside, IInv, GateCounts
    <3>2. gate' = [gate EXCEPT ![t].active = gate[t].active - 1]
      BY <2>4 DEF Leave
    <3>3. gate[t].active - 1 \in Nat
      BY <3>1
    <3>4. /\ gate'[t].active = gate[t].active - 1 /\ gate'[t].stopped = gate[t].stopped
          /\ \A u \in Timer \ {t} : gate'[u] = gate[u]
      BY <3>2, <3>3, <2>1, ActiveSet
    <3> QED BY <3>1, <3>4, <2>1
  <2>5. ASSUME NEW t \in Timer, RequestStop(t) PROVE Kept
    <3>1. \A u \in Timer : gate'[u].active = gate[u].active /\ (gate[u].stopped => gate'[u].stopped)
      BY <2>5, RequestStopped DEF IInv
    <3> QED BY <3>1, <2>1
  <2>6. ASSUME StopGate \/ DrainStop PROVE Kept
    <3>1. Now \in Timer /\ RequestStop(Now)
      BY <2>6, HeadOrTail DEF StopGate, DrainStop, MainAt, Now, IInv, TypeOK
    <3> QED BY <3>1, <2>5
  <2>7. CASE \E t \in Timer : Expire(t) \/ Callback(t)
    <3>1. PICK t \in Timer : Expire(t) \/ Callback(t)
      BY <2>7
    <3>2. UNCHANGED gate \/ TryEnterSwap(t) \/ Leave(t)
      BY <3>1 DEF Expire, Callback, TryEnterLoad, LookForStop, Rearm
    <3> QED BY <3>2, <2>2, <2>3, <2>4
  <2>8. CASE StopCyclicRuntime \/ DrainProbe \/ Stopping \/ DeleteTimer \/ DeleteFailed
    <3>1. UNCHANGED gate \/ StopGate \/ DrainStop
      BY <2>8 DEF StopCyclicRuntime, DrainProbe, Stopping, CancelTimer, DrainCancel, DrainWait,
                  FinalCancel, Detach, DeleteTimer, DeleteFailed
    <3> QED BY <3>1, <2>2, <2>6
  <2> QED BY <2>7, <2>8 DEF Next
<1> QED BY <1>1, Invariant, PTL DEF Spec, NoAdmissionAfterStop

-----------------------------------------------------------------------------
(* What holds of each of the three holds of all, one of which moves.       *)
THEOREM LivenessKeepsTheirSpecs == SideBySide => Spec /\ Motion!Spec /\ Home!Spec
<1>1. SideBySideInit => Init /\ Motion!Init /\ Home!Init
  BY DEF SideBySideInit
<1>2. [MotionMoves \/ TimersMove \/ HomeMoves]_all =>
        [Next]_vars /\ [Motion!Next]_Motion!vars /\ [Home!Next]_Home!vars
  BY DEF MotionMoves, TimersMove, HomeMoves, InMotion, InTimers, InHome, all,
     motionVariables, homeVariables, Motion!vars, Home!vars, Home!channelVars, Motion!shared, Motion!requests, Motion!locals,
     Home!counters
<1> QED BY <1>1, <1>2, PTL DEF SideBySide, Spec, Motion!Spec, Home!Spec
=============================================================================
