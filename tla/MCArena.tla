------------------------------- MODULE MCArena -------------------------------
(* Model values for checking Arena.                                          *)
EXTENDS Arena
=============================================================================
