------------------------------ MODULE MCClear ------------------------------
(* Clear on small instances: behaviours with a second turn around the clear, *)
(* with a swap, and with a lease lost while /clear is being typed.           *)
EXTENDS Clear

CONSTANTS d1, d2

Turns == [statuses |-> 2, turns |-> 2, swaps |-> 0, losses |-> 0, faults |-> 1]
Swap  == [statuses |-> 2, turns |-> 1, swaps |-> 1, losses |-> 0, faults |-> 1]
Loss  == [statuses |-> 2, turns |-> 1, swaps |-> 0, losses |-> 1, faults |-> 1]
Small == {Turns, Swap, Loss}
=============================================================================
