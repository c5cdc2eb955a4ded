----------------------------- MODULE MCLiveness -----------------------------
(***************************************************************************)
(* What must happen in the end: the requests of MotionOwnership are        *)
(* applied, the timers stop and a cancelled HOME gives its lease back.     *)
(* The three components share no state in these models and none waits for  *)
(* another, so a behaviour moves one of them, chosen at the start, and     *)
(* fairness is asked of that one.                                          *)
(***************************************************************************)
EXTENDS CoreTimer, HomeAxisParameters

CONSTANTS Requester, Taker, Client, Rt, RequestKind, OrdinaryOwner, MaxGeneration

CONSTANTS r1, c1, pdo, plc, probe

OneRequester == {r1}
NoTaker == {}
OneClient == {c1}
AutoAndJog == {"AUTO", "JOG"}
BothKinds == {"estop", "stop"}

AllTimers == {pdo, plc, probe}
SelfArming == {pdo, probe}
Closing == <<pdo, plc, probe>>
Draining == <<plc, pdo, probe>>

VARIABLES
  moving,      (* the component that moves                                 *)
  word, acked, publishers, recovering, controlledStop, stopAuthority, posted,
  consumed, kind, granted, pc, seen, ticket, lease, expected, checking, wanted, helping,
  commands, results, ledger, next, holder, axis, motion, scan, home, emergency,
  searches, holds, refused, deferred, sessions

Motion == INSTANCE MotionOwnership WITH gate <- checking
Home == INSTANCE HomeAxis WITH owner <- holder, rt <- motion

motionVariables ==
  <<word, acked, publishers, recovering, controlledStop, stopAuthority, posted,
    consumed, kind, granted, pc, seen, ticket, lease, expected, checking, wanted, helping>>
homeVariables ==
  <<commands, results, ledger, next, holder, axis, motion, scan, home, emergency,
    searches, holds, refused, deferred, sessions>>
all == <<moving, vars, motionVariables, homeVariables>>

(* What does not move starts in one way. *)
SideBySideInit ==
  /\ moving \in {"motion", "timers", "home"} /\ Init /\ Motion!Init /\ Home!Init
  /\ moving = "motion" \/ kind = [r \in Requester |-> "estop"]
  /\ moving = "timers" \/ armed = [t \in Timer |-> TRUE]

InMotion(A) ==
  moving = "motion" /\ A /\ UNCHANGED <<moving, vars, homeVariables>>
InTimers(A) ==
  moving = "timers" /\ A /\ UNCHANGED <<moving, motionVariables, homeVariables>>
InHome(A) ==
  moving = "home" /\ A /\ UNCHANGED <<moving, vars, motionVariables>>

MotionMoves == InMotion(Motion!Next)
TimersMove == InTimers(Next)
HomeMoves == InHome(Home!Next)

(* The fairness of each component, of the one that moves: since the choice *)
(* never changes, fairness of a disjunction is fairness of its disjunct.   *)
SideBySideFairness ==
  /\ WF_all(InMotion(Motion!RtStep) \/ InTimers(Stopping) \/ InHome(Home!Runtime))
  /\ SF_all(\/ InMotion(Motion!RtSettle(TRUE)) \/ InTimers(DeleteTimer)
            \/ InHome(Home!ComeToRest))
  /\ WF_all(\/ InMotion(Motion!RequesterStep(r1)) \/ InTimers(Callback(pdo))
            \/ InHome(Home!Control))
  /\ WF_all(\/ InMotion(Motion!ClientGoesOn(c1))
            \/ InTimers(Callback(plc)) \/ InHome(Home!TakeSafety /\ emergency))
  /\ WF_all(InTimers(Callback(probe)))

SideBySide ==
  /\ SideBySideInit /\ [][MotionMoves \/ TimersMove \/ HomeMoves]_all
  /\ SideBySideFairness

EveryTicketAcknowledged == Motion!EveryTicketAcknowledged
EveryRequestApplied == Motion!EveryRequestApplied
CancelRetires == Home!CancelRetires
=============================================================================
