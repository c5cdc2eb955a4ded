------------------------- MODULE HomeAxisParameters -------------------------
(* Constants of HomeAxis.                                                  *)
EXTENDS Naturals

CONSTANTS
  CommandCapacity, (* MOTION_AXIS_COMMAND_CAPACITY                         *)
  ResultCapacity,  (* MOTION_AXIS_RESULT_CAPACITY, also the ledger's size  *)
  RuntimeLimit,    (* commands a pass of the motion thread takes           *)
  ControlLimit,    (* results a scan of the control thread takes           *)
  UsesProbe,       (* the axis captures its index by the drive's probe     *)
  MaxSearches,     (* scans that command the search velocity               *)
  MaxHolds,        (* feed holds                                           *)
  MaxRefused,      (* refusals that pass: of submissions by a full ring or *)
                   (* a held ingress, of a release by a reserved output    *)
  MaxDeferred,     (* proofs of the reference that are deferred            *)
  MaxSessions      (* HOME requests                                        *)

ASSUME HomeAxisAssumption ==
  /\ CommandCapacity \in Nat \ {0} /\ ResultCapacity \in Nat \ {0}
  /\ RuntimeLimit \in Nat \ {0} /\ ControlLimit \in Nat \ {0}
  /\ UsesProbe \in BOOLEAN
  /\ MaxSearches \in Nat /\ MaxHolds \in Nat /\ MaxRefused \in Nat
  /\ MaxDeferred \in Nat /\ MaxSessions \in Nat
=============================================================================
