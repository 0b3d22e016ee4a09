----------------------------- MODULE MCDispatch -----------------------------
(* Dispatch on small instances. *)
EXTENDS Dispatch, TLC

CONSTANTS d1, d2

Symmetry == Permutations(Slots)
=============================================================================
