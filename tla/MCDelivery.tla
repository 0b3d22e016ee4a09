----------------------------- MODULE MCDelivery -----------------------------
(* Delivery on small instances. *)
EXTENDS Delivery, TLC

CONSTANTS a, b, c

Symmetry == Permutations(Subs)
=============================================================================
