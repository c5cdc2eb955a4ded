----------------------------- MODULE MCHomeAxis -----------------------------
(* One HOME request with a feed hold and a search, a command ring of two   *)
(* and a ledger of four.                                                   *)
EXTENDS HomeAxis
=============================================================================
