------------------------------- MODULE Retain -------------------------------
(***************************************************************************)
(* Vec::retain, by which the agent's tables lose the entries of a peer or  *)
(* of a session: the elements at the given positions, in their order.      *)
(***************************************************************************)
EXTENDS Naturals, Sequences, FiniteSets

Rank(i, positions) == Cardinality({j \in positions : j <= i})

Retain(s, positions) ==
    [k \in 1..Cardinality(positions) |-> s[CHOOSE i \in positions : Rank(i, positions) = k]]
=============================================================================
