----------------------------- MODULE MCCheckout -----------------------------
(* A small instance of Checkout for TLC: two events that overlap, one with a *)
(* single seat and one with two.                                            *)
EXTENDS Checkout, TLC

CONSTANTS o1, o2, u1, u2, e1, e2, p1, w

Symmetry == {f @@ g : f \in Permutations(Ushers), g \in Permutations(Orders)}
OneAndTwo == (e1 :> 1) @@ (e2 :> 2)
=============================================================================
