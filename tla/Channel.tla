------------------------------ MODULE Channel ------------------------------
(***************************************************************************)
(* What one direction of a connection promises: what was put in is taken   *)
(* in order, each once.  When the sender goes, a suffix of what is pending *)
(* may be lost; when the receiver goes, all of it is.                      *)
(***************************************************************************)
EXTENDS Integers, SequencesExt

CONSTANTS Messages, MaxTaken

VARIABLES
    pending,   \* put in and not yet taken
    taken,     \* history: what the receiver has taken
    status     \* "ended": the sender is gone; "cut": the receiver is

vars == <<pending, taken, status>>

Status == {"open", "ended", "cut"}

Init ==
    /\ pending = <<>>
    /\ taken = <<>>
    /\ status \in Status

Put ==
    /\ status = "open"
    /\ \E m \in Messages : pending' = Append(pending, m)
    /\ UNCHANGED <<taken, status>>

Take ==
    /\ pending # <<>>
    /\ taken' = Append(taken, Head(pending))
    /\ pending' = Tail(pending)
    /\ UNCHANGED status

End ==
    /\ status = "open"
    /\ status' = "ended"
    /\ IsPrefix(pending', pending)
    /\ UNCHANGED taken

Cut ==
    /\ status' = "cut"
    /\ pending' = <<>>
    /\ UNCHANGED taken

Next == Put \/ Take \/ End \/ Cut

\* What is pending when the sender goes, or while it stays, is taken as long
\* as there is a receiver.
Delivery ==
    \A n \in 1 .. MaxTaken :
        Len(taken) + Len(pending) >= n ~> Len(taken) >= n \/ status # "open"

Drained == status = "ended" ~> pending = <<>>

Delivers == Delivery /\ Drained

Spec == Init /\ [][Next]_vars
=============================================================================
