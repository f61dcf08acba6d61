------------------------------- MODULE Orders -------------------------------
(* What both kinds of search do with an ordered result. *)
EXTENDS Integers, FiniteSets, Sequences

\* The elements of a set in a strict total order, given by its pairs: ahead of
\* the k-th there are k - 1 others.
Sorted(S, order) ==
  [k \in 1..Cardinality(S) |->
     CHOOSE i \in S : Cardinality({j \in S : <<j, i>> \in order}) = k - 1]

\* No more than a limit.
FirstOf(s, limit) == SubSeq(s, 1, IF Len(s) < limit THEN Len(s) ELSE limit)

=============================================================================
