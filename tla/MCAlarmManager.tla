--------------------------- MODULE MCAlarmManager ---------------------------
(* Two threads that raise alarms, and one RESET, which takes the alarms it *)
(* saw and insists on the intent word it captured.                         *)
EXTENDS AlarmManager

CONSTANTS p1, p2, h1

TwoProducers == {p1, p2}
OneHolder == {h1}
None == {}
ResetOnly == {[requireNone |-> FALSE, exact |-> TRUE]}
=============================================================================
