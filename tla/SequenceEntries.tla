---------------------------- MODULE SequenceEntries ----------------------------
(***************************************************************************)
(* Parts of a sequence: its entries at a set of indices, in their order.   *)
(***************************************************************************)
EXTENDS Naturals, Sequences, FiniteSets

\* The k-th of a set of indices.
Nth(I, k) == CHOOSE i \in I : Cardinality({j \in I : j <= i}) = k

Entries(s, I) == [k \in 1 .. Cardinality(I) |-> s[Nth(I, k)]]
===============================================================================
