---------------------------- MODULE MCConnection ----------------------------
(* Model values for checking Connection.                                     *)
EXTENDS Connection
=============================================================================
