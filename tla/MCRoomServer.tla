---------------------------- MODULE MCRoomServer ----------------------------
(* Model values for checking RoomServer: descriptors are interchangeable.    *)
(* The paragraph has one word, and clients send two indices it does not      *)
(* have: one before the first and one past the last, which finishes like the *)
(* word itself.                                                              *)
EXTENDS RoomServer, TLC

Symmetry == Permutations(Fds)
SentWords == {-3, 1}
=============================================================================
