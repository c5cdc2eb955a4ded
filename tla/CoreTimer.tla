------------------------------ MODULE CoreTimer ------------------------------
(***************************************************************************)
(* Shutdown of the cyclic runtime: CoreTimerCallbackGate, CoreTimerShutdown *)
(* and EtherCatMaster::StopCyclicRuntime, against the timer handlers that  *)
(* are still running, still being delivered, or just setting their timer   *)
(* once more.                                                              *)
(*                                                                         *)
(* A timer of RTX64 delivers one callback at a time.  Periodic timers stay *)
(* armed; the others are armed again by their own callback.  The calls of  *)
(* the RTX64 interface may fail, as far as the code expects them to.       *)
(***************************************************************************)
EXTENDS Naturals, Sequences, Functions

CONSTANTS
  Timer,      (* the timers: PDO, PLC, PROBE                               *)
  OneShot,    (* those armed again by their callback                       *)
  Probe,      (* the timer the startup thread may drain on its own         *)
  StopOrder,  (* the order in which gates are closed and timers cancelled  *)
  DrainOrder  (* the order in which they are drained and deleted           *)

ASSUME TimerAssumption ==
  /\ OneShot \subseteq Timer /\ Probe \in Timer
  /\ StopOrder \in Seq(Timer) /\ DrainOrder \in Seq(Timer)
  /\ Range(StopOrder) = Timer /\ Range(DrainOrder) = Timer

VARIABLES
  gate,      (* m_state of each gate: active count and stopped flag        *)
  handle,    (* does the timer exist                                       *)
  armed,     (* will it expire                                             *)
  owner,     (* is the Owner of its context still attached                 *)
  handler,   (* where its callback is                                      *)
  observed,  (* the gate word the callback loaded                          *)
  main,      (* where the thread that starts and stops the runtime is      *)
  todo,      (* the timers it has still to treat in this phase             *)
  full       (* is this StopCyclicRuntime, or the drain of the probe alone *)

timerVars == <<handle, armed>>
handlerVars == <<handler, observed>>
mainVars == <<main, todo, full>>
vars == <<gate, timerVars, owner, handlerVars, mainVars>>

Gate == [active : Nat, stopped : BOOLEAN]
Open == [active |-> 0, stopped |-> FALSE]

(* Any part of the startup may have failed: a timer may not exist, or not  *)
(* be armed.                                                               *)
Init ==
  /\ gate = [t \in Timer |-> Open]
  /\ handle \in [Timer -> BOOLEAN]
  /\ armed \in {f \in [Timer -> BOOLEAN] : \A t \in Timer : f[t] => handle[t]}
  /\ owner = [t \in Timer |-> TRUE]
  /\ handler = [t \in Timer |-> "none"]
  /\ observed = [t \in Timer |-> Open]
  /\ main = "running" /\ todo = <<>> /\ full = FALSE

-----------------------------------------------------------------------------
(* The callbacks.                                                          *)

HandlerAt(t, label) == handler[t] = label
HandlerTo(t, label) == handler' = [handler EXCEPT ![t] = label]

Expire(t) ==
  /\ HandlerAt(t, "none") /\ armed[t]
  /\ armed' = [armed EXCEPT ![t] = t \notin OneShot]
  /\ HandlerTo(t, "delivered")
  /\ UNCHANGED <<gate, handle, owner, observed, mainVars>>

(* Mutant: the stopped flag is not looked at. *)
TryEnterStopped(t) ==
  /\ HandlerAt(t, "delivered")
  /\ observed' = [observed EXCEPT ![t] = gate[t]]
  /\ HandlerTo(t, "enter")
  /\ UNCHANGED <<gate, timerVars, owner, mainVars>>

TryEnterLoad(t) ==
  /\ HandlerAt(t, "delivered")
  /\ observed' = [observed EXCEPT ![t] = gate[t]]
  /\ HandlerTo(t, IF gate[t].stopped THEN "none" ELSE "enter")
  /\ UNCHANGED <<gate, timerVars, owner, mainVars>>

TryEnterSwap(t) ==
  /\ HandlerAt(t, "enter")
  /\ IF gate[t] = observed[t]
     THEN /\ gate' = [gate EXCEPT ![t].active = @ + 1]
          /\ HandlerTo(t, "admitted")
     ELSE HandlerTo(t, "none") /\ UNCHANGED gate
  /\ UNCHANGED <<timerVars, owner, observed, mainVars>>

(* A one-shot callback looks whether a stop was requested and arms its     *)
(* timer; if that fails, the PDO callback looks and tries once more.       *)
LookForStop(t) ==
  /\ handler[t] \in {"admitted", "retry"}
  /\ HandlerTo(t, IF t \notin OneShot \/ gate[t].stopped THEN "work"
                  ELSE IF HandlerAt(t, "admitted") THEN "rearm" ELSE "rearm again")
  /\ UNCHANGED <<gate, timerVars, owner, observed, mainVars>>

Rearm(t) ==
  /\ handler[t] \in {"rearm", "rearm again"}
  /\ \/ /\ handle[t]
        /\ armed' = [armed EXCEPT ![t] = TRUE]
        /\ HandlerTo(t, "work")
     \/ /\ HandlerTo(t, IF HandlerAt(t, "rearm") /\ t # Probe THEN "retry" ELSE "work")
        /\ UNCHANGED armed
  /\ UNCHANGED <<gate, handle, owner, observed, mainVars>>

Leave(t) ==
  /\ HandlerAt(t, "work")
  /\ gate' = [gate EXCEPT ![t].active = @ - 1]
  /\ HandlerTo(t, "none")
  /\ UNCHANGED <<timerVars, owner, observed, mainVars>>

Callback(t) ==
  TryEnterLoad(t) \/ TryEnterSwap(t) \/ LookForStop(t) \/ Rearm(t) \/ Leave(t)

-----------------------------------------------------------------------------
(* The thread that stops the runtime.  Each phase treats one timer after   *)
(* the other.                                                              *)

MainAt(label) == main = label /\ todo # <<>>
Now == Head(todo)
Phase(label, list) == main' = label /\ todo' = list

(* The next timer of this phase, or the next phase. *)
Onward(label, list) ==
  IF Tail(todo) # <<>> THEN main' = main /\ todo' = Tail(todo) ELSE Phase(label, list)

StopCyclicRuntime ==
  /\ main \in {"running", "quiescent"}
  /\ Phase("stop", StopOrder)
  /\ full' = TRUE
  /\ UNCHANGED <<gate, timerVars, owner, handlerVars>>

DrainProbe ==
  /\ main = "running"
  /\ Phase("drain stop", <<Probe>>)
  /\ full' = FALSE
  /\ UNCHANGED <<gate, timerVars, owner, handlerVars>>

RequestStop(t) == gate' = [gate EXCEPT ![t].stopped = TRUE]

StopGate ==
  /\ MainAt("stop")
  /\ RequestStop(Now)
  /\ Onward("cancel", StopOrder)
  /\ UNCHANGED <<timerVars, owner, handlerVars, full>>

(* RtCancelTimer may fail: the failure is printed and nothing else. *)
Cancel(t) == armed' \in {armed, [armed EXCEPT ![t] = FALSE]}

CancelTimer ==
  /\ MainAt("cancel")
  /\ Cancel(Now)
  /\ Onward("drain stop", DrainOrder)
  /\ UNCHANGED <<gate, handle, owner, handlerVars, full>>

DrainStop ==
  /\ MainAt("drain stop")
  /\ RequestStop(Now)
  /\ Phase("drain cancel", todo)
  /\ UNCHANGED <<timerVars, owner, handlerVars, full>>

DrainCancel ==
  /\ MainAt("drain cancel")
  /\ Cancel(Now)
  /\ Phase("drain wait", todo)
  /\ UNCHANGED <<gate, handle, owner, handlerVars, full>>

(* Mutant: the wait is given up after a while. *)
DrainWaitBounded ==
  /\ MainAt("drain wait")
  /\ Phase(IF handle[Now] THEN "final cancel" ELSE "detach", todo)
  /\ UNCHANGED <<gate, timerVars, owner, handlerVars, full>>

DrainWait ==
  /\ MainAt("drain wait")
  /\ gate[Now].active = 0
  /\ Phase(IF handle[Now] THEN "final cancel" ELSE "detach", todo)
  /\ UNCHANGED <<gate, timerVars, owner, handlerVars, full>>

FinalCancel ==
  /\ MainAt("final cancel")
  /\ Cancel(Now)
  /\ Phase("delete", todo)
  /\ UNCHANGED <<gate, handle, owner, handlerVars, full>>

(* RtDeleteTimer cancels too. *)
DeleteTimer ==
  /\ MainAt("delete")
  /\ handle' = [handle EXCEPT ![Now] = FALSE]
  /\ armed' = [armed EXCEPT ![Now] = FALSE]
  /\ Phase("detach", todo)
  /\ UNCHANGED <<gate, owner, handlerVars, full>>

(* Mutant: the drain goes on as if the timer were gone. *)
DeleteFailedIgnored ==
  /\ MainAt("delete")
  /\ Phase("detach", todo)
  /\ UNCHANGED <<gate, timerVars, owner, handlerVars, full>>

DeleteFailed ==
  /\ MainAt("delete")
  /\ Phase("final cancel", todo)
  /\ UNCHANGED <<gate, timerVars, owner, handlerVars, full>>

Detach ==
  /\ MainAt("detach")
  /\ owner' = [owner EXCEPT ![Now] = FALSE]
  /\ IF Tail(todo) # <<>> THEN Phase("drain stop", Tail(todo))
     ELSE Phase(IF full THEN "quiescent" ELSE "running", <<>>)
  /\ UNCHANGED <<gate, timerVars, handlerVars, full>>

Stopping ==
  \/ StopGate \/ CancelTimer \/ DrainStop \/ DrainCancel \/ DrainWait \/ FinalCancel
  \/ Detach

Next ==
  \/ \E t \in Timer : Expire(t) \/ Callback(t)
  \/ StopCyclicRuntime \/ DrainProbe \/ Stopping \/ DeleteTimer \/ DeleteFailed

(* Callbacks come to their end, the stopping thread goes on, and a timer   *)
(* that is deleted again and again is deleted in the end.                  *)
Fairness ==
  /\ \A t \in Timer : WF_vars(Callback(t))
  /\ WF_vars(Stopping) /\ SF_vars(DeleteTimer)

Spec == Init /\ [][Next]_vars
FairSpec == Spec /\ Fairness

-----------------------------------------------------------------------------
Inside == {"admitted", "rearm", "retry", "rearm again", "work"}

TypeOK ==
  /\ gate \in [Timer -> Gate]
  /\ handle \in [Timer -> BOOLEAN] /\ armed \in [Timer -> BOOLEAN]
  /\ owner \in [Timer -> BOOLEAN]
  /\ handler \in [Timer -> Inside \cup {"none", "delivered", "enter"}]
  /\ observed \in [Timer -> Gate]
  /\ main \in {"running", "stop", "cancel", "drain stop", "drain cancel", "drain wait",
               "final cancel", "delete", "detach", "quiescent"}
  /\ todo \in Seq(Timer) /\ full \in BOOLEAN

(* An admitted callback dereferences its Owner and arms its timer until it *)
(* leaves: neither is taken away under it.                                 *)
OwnerOutlivesCallback ==
  \A t \in Timer : handler[t] \in Inside =>
    owner[t] /\ (t \in OneShot => handle[t])

(* StopCyclicRuntime returns to code that destroys what callbacks use: by  *)
(* then no callback is admitted, no timer exists, and nothing is armed     *)
(* that could deliver another, whatever rearmed after the first cancel.    *)
QuiescentIsQuiet ==
  main = "quiescent" => \A t \in Timer :
    ~handle[t] /\ ~armed[t] /\ gate[t].stopped /\ handler[t] \notin Inside

(* A gate that was closed admits nobody any more. *)
NoAdmissionAfterStop ==
  [][\A t \in Timer : gate[t].stopped =>
       gate'[t].stopped /\ gate'[t].active <= gate[t].active]_vars

(* Once asked to stop, the runtime becomes quiescent. *)
StopCompletes == main = "stop" ~> main = "quiescent"
=============================================================================
