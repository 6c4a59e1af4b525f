---------------------------- MODULE Subsequences ----------------------------
(* Parts of a sequence, in its order, by the set of their positions: what a  *)
(* list comprehension with a condition keeps of a list.  (No recursion, so   *)
(* that it can be reasoned about.)                                           *)
EXTENDS Integers, Sequences, FiniteSets

\* The n-th lowest of a set of positions.
Rank(positions, i) == Cardinality({j \in positions : j <= i})
Ranked(positions, n) == {i \in positions : Rank(positions, i) = n}
Nth(positions, n) == CHOOSE i \in Ranked(positions, n) : TRUE

\* The elements of seq at the given positions.
Subsequence(seq, positions) ==
    [n \in 1..Cardinality(positions) |-> seq[Nth(positions, n)]]

\* Those of the elements that are wanted.
PositionsOf(seq, wanted) == {i \in 1..Len(seq) : seq[i] \in wanted}
Those(seq, wanted) == Subsequence(seq, PositionsOf(seq, wanted))
=============================================================================
