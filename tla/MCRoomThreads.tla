--------------------------- MODULE MCRoomThreads ---------------------------
(* Model values and a bound for checking RoomThreads: descriptors are        *)
(* interchangeable.                                                          *)
EXTENDS RoomThreads, TLC

Symmetry == Permutations(Fds)

\* A contended room, of which little is said, is followed on only while two
\* connections and one room are all there has been.
Explored == contended = {} \/ (nextClientId <= 3 /\ roomCounter <= 2)
=============================================================================
