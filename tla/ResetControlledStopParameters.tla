-------------------- MODULE ResetControlledStopParameters --------------------
(* Constants of ResetControlledStop.                                       *)
EXTENDS Naturals

CONSTANTS
  Stopper,     (* threads that request an emergency stop or a group stop   *)
  Nc,          (* the 10 ms task of the numerical control                  *)
  MaxPress,    (* RESET presses on a running program                       *)
  MaxIncident  (* lost mappings RT detects, and alarms raised              *)

ASSUME ResetAssumption ==
  Nc \notin Stopper /\ MaxPress \in Nat /\ MaxIncident \in Nat
=============================================================================
