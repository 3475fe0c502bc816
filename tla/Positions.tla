----------------------------- MODULE Positions -----------------------------
(***************************************************************************)
(* Sets of positions in a sequence: the first, the last and the k-th of    *)
(* them, and what stands at them in order.                                 *)
(***************************************************************************)
EXTENDS Naturals, FiniteSets

\* The least position of a set, as a set of at most one element.
First(positions) == {p \in positions : \A q \in positions : p <= q}

\* The greatest position, and the one with k - 1 lesser ones, likewise.
Latest(positions) == {p \in positions : \A q \in positions : q <= p}

Nth(positions, k) == {p \in positions : Cardinality({q \in positions : q <= p}) = k}

\* The element of a set that has one.
The(S) == CHOOSE x \in S : TRUE

\* The values of a function on positions, in the order of the positions.
ValuesInOrder(at) == [k \in 1..Cardinality(DOMAIN at) |-> at[The(Nth(DOMAIN at, k))]]

=============================================================================
