-------------------------------- MODULE Lists --------------------------------
(***************************************************************************)
(* Sorting by a key of four numbers and filtering, as the daemon's ranking *)
(* of addresses and the lists of the terminal client do it.                *)
(***************************************************************************)
EXTENDS Integers, Sequences, FiniteSets, SequencesExt

\* The key x is higher than y: by the first of its numbers that differs.
Above(x, y) == \E i \in 1 .. 4 : x[i] > y[i] /\ \A j \in 1 .. (i - 1) : x[j] = y[j]

\* The elements of S in the order R: the i-th is the one that i - 1 others come before.
Sorted(S, R) ==
    LET place == [a \in S |-> Cardinality({b \in S : <<b, a>> \in R}) + 1]
    IN  [i \in 1 .. Cardinality(S) |-> CHOOSE a \in S : place[a] = i]

\* The elements of the sequence s that are in S, in their order.
Kept(s, S) == FlattenSeq([i \in DOMAIN s |-> IF s[i] \in S THEN <<s[i]>> ELSE <<>>])

=============================================================================
