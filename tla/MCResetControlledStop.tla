---------------------- MODULE MCResetControlledStop -----------------------
(* Two presses, no other request, and one alarm or lost mapping.           *)
EXTENDS ResetControlledStop
=============================================================================
