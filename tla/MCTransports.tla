---------------------------- MODULE MCTransports ----------------------------
(***************************************************************************)
(* What carries commands and frames: the command ring between the NC and   *)
(* the motion thread, and the transmit side of the network driver.  They   *)
(* share no state and none waits for the other, so a behaviour moves one   *)
(* of them, chosen at the start, and the reachable states are the union of *)
(* theirs.                                                                 *)
(*                                                                         *)
(* The ring has three slots and nearly two trips round: singles, pairs and *)
(* batches straddle the end of the array at every offset.  The driver has  *)
(* two threads, two frames and two indices; three frames are filled, so    *)
(* that the answer of the first can pass for that of the second while the  *)
(* third is sent.                                                          *)
(***************************************************************************)
EXTENDS SpscRing, NicTransmitParameters, TLC

VARIABLES
  moving,      (* the transport that moves                                 *)
  active, m_idx, slots, tainted, buffer, filled, nal, newest, responses, thread

Nic == INSTANCE NicTransmit WITH caller <- thread

nicVariables ==
  <<active, m_idx, slots, tainted, buffer, filled, nal, newest, responses, thread>>

Symmetry == Permutations(Value)

TransportsInit == moving \in {"ring", "nic"} /\ Init /\ Nic!Init

RingMoves == moving = "ring" /\ Next /\ UNCHANGED <<moving, nicVariables>>
NicMoves == moving = "nic" /\ Nic!Next /\ UNCHANGED <<moving, vars>>

TransportsSpec ==
  TransportsInit /\ [][RingMoves \/ NicMoves]_<<moving, vars, nicVariables>>

BufferUntouched == Nic!BufferUntouched
SentInOrder == Nic!SentInOrder
=============================================================================
