----------------------------- MODULE MCAccounts -----------------------------
(* Model values for checking Accounts: connections and passwords are         *)
(* interchangeable.                                                          *)
EXTENDS Accounts, TLC

Symmetry == Permutations(Fds) \cup Permutations(Passwords) \cup Permutations(Users)
=============================================================================
