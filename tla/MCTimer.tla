------------------------------ MODULE MCTimer -------------------------------
(* TLC instances of Timer; the configurations give all constants.          *)
EXTENDS Timer
=============================================================================
