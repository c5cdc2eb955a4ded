-------------------------- MODULE MCMotionOwnership --------------------------
(* A small instance of MotionOwnership for TLC: two ordinary owners, one   *)
(* of which may take over from the other, are alike.                       *)
EXTENDS MotionOwnership, TLC

CONSTANTS r1, t1, c1, rt, auto, jog

OneRequester == {r1}
OneTaker == {t1}
OneClient == {c1}
AutoAndJog == {auto, jog}
Symmetry == Permutations(AutoAndJog)
BothKinds == {"estop", "stop"}
=============================================================================
