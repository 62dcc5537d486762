----------------------------- MODULE Selections -----------------------------
(***************************************************************************)
(* What several components do with a list: keep the entries that qualify,  *)
(* in their order, and put distinct values in ascending order.             *)
(***************************************************************************)
EXTENDS Integers, FiniteSets, Sequences

\* What a sequence holds at these of its positions, in its order.
KthOf(at, k) == CHOOSE i \in at : Cardinality({j \in at : j <= i}) = k
Subsequence(s, at) == [k \in 1..Cardinality(at) |-> s[KthOf(at, k)]]

Ascending(S) ==
    [i \in 1..Cardinality(S) |-> CHOOSE v \in S : Cardinality({w \in S : w <= v}) = i]
=============================================================================
