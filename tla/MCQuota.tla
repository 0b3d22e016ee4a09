------------------------------ MODULE MCQuota ------------------------------
(* Quota on two workers: behaviours with a swap, with a limit lifted early, and
   with a swap that outlives the hold it began under. *)
EXTENDS Quota

CONSTANTS a1, a2

ByName == <<a1, a2>>
Swap == [turns |-> 1, swaps |-> 1, hits |-> 1, faults |-> 1]
Hits == [turns |-> 1, swaps |-> 0, hits |-> 2, faults |-> 1]
Two  == [turns |-> 2, swaps |-> 0, hits |-> 1, faults |-> 1]
Late == [turns |-> 1, swaps |-> 1, hits |-> 2, faults |-> 0]
Small == {Swap, Hits, Two, Late}
=============================================================================
