----------------------------- MODULE Subsequence -----------------------------
(***************************************************************************)
(* The elements of a sequence at given places, in their order.  SelectSeq  *)
(* has the same from a condition; here the places are a set, which can be  *)
(* reasoned about.                                                         *)
(***************************************************************************)
EXTENDS Integers, Sequences, FiniteSets

(* The n-th number of a set, counted in ascending order.                   *)
Nth(I, n) == CHOOSE i \in I : Cardinality({j \in I : j <= i}) = n

Selected(s, I) == [n \in 1 .. Cardinality(I) |-> s[Nth(I, n)]]
=============================================================================
