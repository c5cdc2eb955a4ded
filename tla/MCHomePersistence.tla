-------------------------- MODULE MCHomePersistence --------------------------
(* Two axes, no failing call, and the Core ends once anywhere. *)
EXTENDS HomePersistence
=============================================================================
