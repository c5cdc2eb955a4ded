------------------------ MODULE NicTransmitParameters ------------------------
(* The parameters of NicTransmit, apart so that a module that instantiates *)
(* it beside others can extend them.                                       *)
EXTENDS Naturals

CONSTANTS
  Cyclic,     (* the PDO callback: process images, probes, SDO steps       *)
  Startup,    (* the thread that configures the slaves                     *)
  SlotCount,  (* SlotCount: preallocated frames (16 in the code)           *)
  IndexSpan,  (* values of the datagram index (256 in the code)            *)
  MaxFrames   (* frames filled in a run                                    *)

ASSUME NicAssumption ==
  /\ Cyclic # Startup
  /\ SlotCount \in Nat \ {0} /\ IndexSpan \in Nat \ {0}
  /\ MaxFrames \in Nat
=============================================================================
