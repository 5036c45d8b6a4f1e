------------------------------ MODULE MCTyping ------------------------------
(* Model values for checking Typing: two words, one of them of two letters.  *)
EXTENDS Typing, TLC

CONSTANTS x, y

Alphabet == {x, y}
Paragraph == <<<<x>>, <<x, y>>>>
Symmetry == Permutations(Players)
=============================================================================
