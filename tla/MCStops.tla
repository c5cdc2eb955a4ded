------------------------------- MODULE MCStops -------------------------------
(***************************************************************************)
(* What stops a program: the EDM cancellation fence, and the controlled    *)
(* stop of RESET with the emergency stop mailbox.  They share no state in  *)
(* these models and none waits for the other, so a behaviour moves one of  *)
(* them, chosen at the start.                                              *)
(*                                                                         *)
(* The fence has two requesters, one piece of work, and a phase with room  *)
(* for three stops.  In the controlled stop one thread requests stops      *)
(* beside the NC and the motion thread; one press is made, and an alarm or *)
(* a lost mapping interferes.                                              *)
(***************************************************************************)
EXTENDS CancelFence, ResetControlledStopParameters, TLC

CONSTANTS r1, r2, w1

TwoRequesters == {r1, r2}
OneWorker == {w1}
TwoSessions == 1 .. 2
Symmetry == Permutations(TwoRequesters)

VARIABLES
  moving,      (* the component that moves                                 *)
  word, acked, publishers, generation, epoch, mailbox, stop, recovering, alarm, group,
  token, evidence, causal, kind, nc, rt, own, own_generation, claimed, authority,
  presses, incidents, interrupted, clean, due, resetPhase, call

Reset ==
  INSTANCE ResetControlledStop WITH phase <- resetPhase, pc <- call, owed <- due

resetVariables ==
  <<word, acked, publishers, generation, epoch, mailbox, stop, recovering, alarm, group,
    token, evidence, causal, kind, nc, rt, own, own_generation, claimed, authority,
    presses, incidents, interrupted, clean, due, resetPhase, call>>

(* What does not move starts in one way. *)
StopsInit ==
  /\ moving \in {"fence", "reset"} /\ Init /\ Reset!Init
  /\ moving = "fence" \/ session = [t \in Thread |-> 0]
  /\ moving = "reset" \/ kind = [t \in Stopper |-> "stop"]

FenceMoves == moving = "fence" /\ Next /\ UNCHANGED <<moving, resetVariables>>
ResetMoves == moving = "reset" /\ Reset!Next /\ UNCHANGED <<moving, vars>>

StopsSpec == StopsInit /\ [][FenceMoves \/ ResetMoves]_<<moving, vars, resetVariables>>

EvidenceKept == Reset!EvidenceKept
ConsumedUninterrupted == Reset!ConsumedUninterrupted
ActionClearedWhenPosted == Reset!ActionClearedWhenPosted
=============================================================================
