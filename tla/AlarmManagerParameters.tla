----------------------- MODULE AlarmManagerParameters -----------------------
(* Constants of AlarmManager.                                              *)
EXTENDS Naturals

CONSTANTS
  Producer,      (* threads that call Trigger                              *)
  Clearer,       (* threads that call Clear                                *)
  Holder,        (* threads that take the motion admission                 *)
  Mode,          (* the requireNoAlarm and exact arguments callers use     *)
  NoAlarm,       (* code NONE                                              *)
  MaxAlarms,     (* MAX_ALARMS, the slots of the image                     *)
  MaxDeferred,   (* DEFERRED_ALARM_COUNT_MAX                               *)
  MaxSequence    (* intent sequence at which no further call begins        *)

ASSUME ThreadAssumption ==
  /\ (Producer \cup Clearer) \cap Holder = {}
  /\ NoAlarm \notin Producer \cup Clearer \cup Holder
  /\ Mode \subseteq [requireNone : BOOLEAN, exact : BOOLEAN]
ASSUME BoundAssumption ==
  /\ MaxAlarms \in Nat \ {0} /\ MaxDeferred \in Nat \ {0} /\ MaxSequence \in Nat
=============================================================================
