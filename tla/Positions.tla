----------------------------- MODULE Positions -----------------------------
(***************************************************************************)
(* Positions in an order.  The registry numbers the children of a key and  *)
(* its values densely from 0 in a fixed order, and layers::list sorts: both *)
(* are the element of a finite set that so many others come before.  An    *)
(* order is a set of pairs, the lesser first.                              *)
(***************************************************************************)
EXTENDS Integers, FiniteSets

Below(S) == {p \in S \X S : p[1] < p[2]}

Preceding(S, less, x) == {y \in S : <<y, x>> \in less}

Position(S, less, x) == Cardinality(Preceding(S, less, x))

Nth(S, less, i) == CHOOSE x \in S : Position(S, less, x) = i

Orders(less, S) ==
    /\ \A x \in S : <<x, x>> \notin less
    /\ \A x, y \in S : x = y \/ <<x, y>> \in less \/ <<y, x>> \in less
    /\ \A x, y, z \in S : <<x, y>> \in less /\ <<y, z>> \in less => <<x, z>> \in less
=============================================================================
