---------------------------- MODULE MCConductor ----------------------------
(* Conductor on small instances. *)
EXTENDS Conductor

\* Each mission waits for the one before it.
Chain == [m \in 1 .. N |-> {m - 1} \ {0}]
=============================================================================
