------------------------------ MODULE MCPolled ------------------------------
(***************************************************************************)
(* What the NC asks of the motion thread and polls for in the end: the     *)
(* commands of an EDM session, and the press of RESET.  They share no      *)
(* state in these models and none waits for the other, so a behaviour      *)
(* moves one of them, chosen at the start, and fairness is asked of that   *)
(* one.                                                                    *)
(*                                                                         *)
(* Two EDM sessions of one epoch and lease send two commands through a     *)
(* ring of two; the facts of a pass fit both sessions or none.  RESET is   *)
(* pressed once, beside a thread that requests stops.                      *)
(***************************************************************************)
EXTENDS EDMRTShadow, ResetControlledStopParameters

AllOrNone == {{}, 1 .. MaxSession}

VARIABLES
  moving,      (* the component that moves                                 *)
  phase, word, acked, publishers, generation, epoch, mailbox, stop, recovering, alarm,
  group, token, evidence, pc, causal, kind, task, motion, own, own_generation, claimed,
  authority, presses, incidents, interrupted, clean, owed

ControlledStop == INSTANCE ResetControlledStop WITH nc <- task, rt <- motion

resetVariables ==
  <<phase, word, acked, publishers, generation, epoch, mailbox, stop, recovering, alarm,
    group, token, evidence, pc, causal, kind, task, motion, own, own_generation, claimed,
    authority, presses, incidents, interrupted, clean, owed>>
all == <<moving, vars, resetVariables>>

(* What does not move starts in one way. *)
PolledInit ==
  /\ moving \in {"shadow", "reset"} /\ Init /\ ControlledStop!Init
  /\ moving = "reset" \/ kind = [t \in Stopper |-> "stop"]

InShadow(A) == moving = "shadow" /\ A /\ UNCHANGED <<moving, resetVariables>>
InReset(A) == moving = "reset" /\ A /\ UNCHANGED <<moving, vars>>

ShadowMoves == InShadow(Next)
ResetMoves == InReset(ControlledStop!Next)

(* The fairness of each component, while it moves. *)
PolledFairness ==
  /\ WF_vars(InShadow(Cycle))
  /\ WF_vars(InShadow(OpenSession \/ Push \/ PushRefused \/ Withdraw \/ CancelRefused))
  /\ WF_vars(InShadow(Read)) /\ WF_vars(InShadow(AcknowledgeCancel))
  /\ WF_resetVariables(InReset(ControlledStop!RtStep))
  /\ WF_resetVariables(InReset(\E t \in ControlledStop!Caller : ControlledStop!CallStep(t)))
  /\ WF_resetVariables(InReset(ControlledStop!NcPoll))
  /\ WF_resetVariables(InReset(ControlledStop!AlarmScan \/ ControlledStop!Materialize))

PolledSpec == PolledInit /\ [][ShadowMoves \/ ResetMoves]_all /\ PolledFairness

EveryPressAnswered == ControlledStop!EveryPressAnswered
=============================================================================
