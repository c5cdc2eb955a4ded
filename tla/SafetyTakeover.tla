---------------------------- MODULE SafetyTakeover ----------------------------
(***************************************************************************)
(* What a SAFETY takeover promises about execution epochs: between the     *)
(* takeover and the end of its handshake exactly one SAFETY epoch is       *)
(* published, ordinary publishers may get ahead of it but never past it,   *)
(* and the takeover is complete only once it is there.                     *)
(***************************************************************************)
EXTENDS Naturals

VARIABLES
  gen,     (* generation of the motion owner                               *)
  phase,   (* "ordinary", "open", "fenced" or "closed"                     *)
  epoch,   (* the execution epoch published last                           *)
  source   (* "ordinary" or "SAFETY": who published it                     *)

takeoverVars == <<gen, phase, epoch, source>>

TakeoverInit ==
  gen = 1 /\ phase = "ordinary" /\ epoch = 1 /\ source = "ordinary"

(* Ordinary owners come and go. *)
ChangeOwner ==
  /\ phase = "ordinary"
  /\ gen' = gen + 1
  /\ UNCHANGED <<phase, epoch, source>>

TakeOver ==
  /\ phase = "ordinary"
  /\ phase' = "open"
  /\ gen' = gen + 1
  /\ UNCHANGED <<epoch, source>>

PublishOrdinary ==
  /\ phase \in {"ordinary", "open"}
  /\ epoch' = epoch + 1
  /\ source' = "ordinary"
  /\ UNCHANGED <<gen, phase>>

(* The one SAFETY successor of the takeover. *)
Fence ==
  /\ phase = "open"
  /\ phase' = "fenced"
  /\ epoch' = epoch + 1
  /\ source' = "SAFETY"
  /\ UNCHANGED gen

Complete ==
  /\ phase = "fenced"
  /\ phase' = "closed"
  /\ UNCHANGED <<gen, epoch, source>>

(* The SAFETY owner itself may publish further epochs. *)
PublishSafety ==
  /\ phase = "closed"
  /\ epoch' = epoch + 1
  /\ source' = "SAFETY"
  /\ UNCHANGED <<gen, phase>>

Release ==
  /\ phase = "closed"
  /\ phase' = "ordinary"
  /\ gen' = gen + 1
  /\ UNCHANGED <<epoch, source>>

TakeoverNext ==
  \/ ChangeOwner \/ TakeOver \/ PublishOrdinary \/ Fence \/ Complete
  \/ PublishSafety \/ Release

TakeoverSpec == TakeoverInit /\ [][TakeoverNext]_takeoverVars
=============================================================================
