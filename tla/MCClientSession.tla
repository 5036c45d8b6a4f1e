--------------------------- MODULE MCClientSession ---------------------------
(* Model values for checking ClientSession: accounts are interchangeable.    *)
EXTENDS ClientSession, TLC

Symmetry == Permutations(Users)
=============================================================================
