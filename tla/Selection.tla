------------------------------ MODULE Selection ------------------------------
(* Picking elements of a sequence by their positions.                      *)
EXTENDS Integers, Sequences, FiniteSets

(* The elements of s at the positions in I, in order.                      *)
At(s, I) ==
    LET J == I \cap 1..Len(s)
        Rank(i) == Cardinality({k \in J : k <= i})
    IN  [j \in 1..Cardinality(J) |-> s[CHOOSE i \in J : Rank(i) = j]]
=============================================================================
