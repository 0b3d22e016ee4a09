----------------------------- MODULE MCSuspend -----------------------------
(* Suspend on small budgets: around a wake, around what the agent declares in *)
(* its turns, around a pause, and again.                                      *)
EXTENDS Suspend

B(s, p, w, t, d, f, r, h) ==
    [suspends |-> s, pauses |-> p, wakes |-> w, turns |-> t, declares |-> d, faults |-> f, reboots |-> r, hooks |-> h]
Small == {B(1, 0, 1, 1, 0, 1, 0, 1), B(1, 0, 1, 1, 0, 1, 0, 0), B(1, 0, 1, 1, 1, 0, 0, 1), B(1, 0, 1, 1, 1, 0, 0, 0),
          B(1, 1, 0, 0, 0, 1, 1, 1), B(3, 0, 0, 0, 0, 2, 0, 0)}
=============================================================================
