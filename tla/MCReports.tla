------------------------------ MODULE MCReports ------------------------------
(***************************************************************************)
(* What the machine reports: the feedback of an EDM runtime, and the       *)
(* alarms with their motion admission.  They share no state and none waits *)
(* for the other, so a behaviour moves one of them, chosen at the start.   *)
(*                                                                         *)
(* The channel has one writer, one reader (a reader writes nothing that    *)
(* others see) and values of two words.  Two threads raise alarms, one of  *)
(* which also clears them, beside one holder of the admission.             *)
(***************************************************************************)
EXTENDS FeedbackChannel, AlarmManagerParameters

CONSTANTS p1, p2, h1

TwoProducers == {p1, p2}
OneClearer == {p2}
OneHolder == {h1}

(* A servo frame asks for no alarm and takes any intent state; a RESET takes *)
(* the alarms it saw and insists on the intent state it captured.            *)
Frame == [requireNone |-> TRUE, exact |-> FALSE]
Reset == [requireNone |-> FALSE, exact |-> TRUE]
FrameAndReset == {Frame, Reset}

VARIABLES
  moving,      (* the component that moves                                 *)
  intent, alarmWriter, deferred, overflowPayload, image, hasAlarm, updateCount, call,
  left, after, seen, publishing, admission, shown, waiting, captured

Alarms == INSTANCE AlarmManager WITH pc <- call, writer <- alarmWriter

alarmVariables ==
  <<intent, alarmWriter, deferred, overflowPayload, image, hasAlarm, updateCount, call,
    left, after, seen, publishing, admission, shown, waiting, captured>>

ReportsInit == moving \in {"channel", "alarms"} /\ Init /\ Alarms!Init

ChannelMoves == moving = "channel" /\ Next /\ UNCHANGED <<moving, alarmVariables>>
AlarmsMove == moving = "alarms" /\ Alarms!Next /\ UNCHANGED <<moving, vars>>

ReportsSpec ==
  ReportsInit /\ [][ChannelMoves \/ AlarmsMove]_<<moving, vars, alarmVariables>>

AdmissionProof == Alarms!AdmissionProof
NoAlarmIsLost == Alarms!NoAlarmIsLost
DeferredDescribesWaiting == Alarms!DeferredDescribesWaiting
=============================================================================
