------------------------ MODULE MCSafetyEpochHandshake ------------------------
(* Small instances of SafetyEpochHandshake for TLC. *)
EXTENDS SafetyEpochHandshake

CONSTANTS h1, h2, p1, c1, rt

TwoHelpers == {h1, h2}
OnePublisher == {p1}
OneCommitter == {c1}
=============================================================================
