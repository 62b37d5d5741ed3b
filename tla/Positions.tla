------------------------------ MODULE Positions -------------------------------
(***************************************************************************)
(* The elements of a list that pass a test, and their positions, in their  *)
(* order: what loops such as                                               *)
(*     for (i, x) in xs.iter().enumerate() { if .. { indices.push(i) } }   *)
(* collect.                                                                *)
(***************************************************************************)
EXTENDS Naturals, Sequences, FiniteSets

\* The numbers in S, in increasing order.
Positions(S) ==
    [k \in 1..Cardinality(S) |->
        CHOOSE i \in S : Cardinality({j \in S : j <= i}) = k]

\* What the list s has at these positions.
Selected(s, S) == [k \in 1..Cardinality(S) |-> s[Positions(S)[k]]]
===============================================================================
