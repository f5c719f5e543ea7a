---------------------------- MODULE Subsequences ----------------------------
(***************************************************************************)
(* The members of a list at given positions: what is left of a linked list *)
(* or an array when a loop unlinks or overwrites the others.               *)
(***************************************************************************)
EXTENDS Integers, Sequences, FiniteSets

(* How many members of a set of positions come before i. *)
Rank(I, i) == Cardinality({j \in I : j < i})

(* The k-th of a set of positions. *)
Nth(I, k) == CHOOSE i \in I : Rank(I, i) = k - 1

(* The members of s at the positions I, in their order. *)
At(s, I) == [k \in 1 .. Cardinality(I) |-> s[Nth(I, k)]]
=============================================================================
