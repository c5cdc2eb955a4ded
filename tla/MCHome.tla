------------------------------- MODULE MCHome -------------------------------
(***************************************************************************)
(* HOME: its persistence, and the axis command mailbox under a HOME        *)
(* request.  They share no state in these models and none waits for the    *)
(* other, so a behaviour moves one of them, chosen at the start.           *)
(*                                                                         *)
(* Home persistence has two axes and every order of HOMEs, failures and    *)
(* ends of the Core within its budgets.  The mailbox has a command ring of *)
(* two and a ledger of four, under one HOME request.                       *)
(***************************************************************************)
EXTENDS HomePersistence, HomeAxisParameters

VARIABLES
  moving,      (* the component that moves                                 *)
  commands, results, ledger, sequence, owner, axis, rt, scan, request, emergency,
  searches, holds, refused, deferred, sessions

Axis == INSTANCE HomeAxis WITH next <- sequence, home <- request

axisVariables ==
  <<commands, results, ledger, sequence, owner, axis, rt, scan, request, emergency,
    searches, holds, refused, deferred, sessions>>

HomeInit == moving \in {"persistence", "axis"} /\ Init /\ Axis!Init

PersistenceMoves == moving = "persistence" /\ Next /\ UNCHANGED <<moving, axisVariables>>
AxisMoves == moving = "axis" /\ Axis!Next /\ UNCHANGED <<moving, vars>>

HomeSpec ==
  HomeInit /\ [][PersistenceMoves \/ AxisMoves]_<<moving, vars, axisVariables>>

ReturnedLeaseIsSettled == Axis!ReturnedLeaseIsSettled
=============================================================================
