---------------------------- MODULE MissionState ----------------------------
(***************************************************************************)
(* The life of a change's missions: the transition table of                *)
(* mission/state.go, and what the conductor promises on top of it.  A      *)
(* mission is requested after the missions it depends on are integrated,   *)
(* at most one merge is under way, and a round of attempts is bounded.     *)
(* Conductor is shown to implement Spec.                                   *)
(***************************************************************************)
EXTENDS Naturals

CONSTANTS
    Missions,     \* the missions of the change
    DependsOn,    \* mission -> the missions it depends on
    MaxAttempts   \* max_attempts: rejections of a round that block a mission

VARIABLES st, rejections

vars == <<st, rejections>>

States == {"pending", "ready", "requested", "accepted", "delivered", "checking",
           "in_review", "approved", "integrating", "integrated", "blocked", "aborted"}
Final == {"integrated", "aborted"}

(***************************************************************************)
(* The table of Next.  From: the states an event is allowed in; To: where  *)
(* it leads, left saying whether the round has attempts left; Acts: the    *)
(* effects that follow (closing a review needs none: see effects).         *)
(***************************************************************************)
From == [deps_integrated |-> {"pending"}, request_sent |-> {"ready"},
         accepted |-> {"requested"}, agent_blocked |-> {"requested", "accepted"},
         delivered |-> {"accepted"}, check_started |-> {"delivered"},
         check_failed |-> {"checking"}, check_passed |-> {"checking"},
         approved |-> {"in_review"}, review_rejected |-> {"in_review"},
         integrate_started |-> {"approved"}, integrated |-> {"integrating"},
         integrate_failed |-> {"integrating"}, retry |-> {"blocked"},
         reassign |-> {"accepted", "blocked"}, timed_out |-> {"accepted"},
         skip |-> States \ {"approved", "integrating", "integrated", "aborted"},
         abort |-> States \ Final]

Rejecting == {"check_failed", "review_rejected"}
Retrying == {"retry", "reassign"}

To(ev, left) ==
    IF ev \in Rejecting THEN IF left THEN "requested" ELSE "blocked"
    ELSE [deps_integrated |-> "ready", request_sent |-> "requested", accepted |-> "accepted",
          agent_blocked |-> "blocked", delivered |-> "delivered", check_started |-> "checking",
          check_passed |-> "in_review", approved |-> "approved",
          integrate_started |-> "integrating", integrated |-> "integrated",
          integrate_failed |-> "blocked", retry |-> "requested", reassign |-> "requested",
          timed_out |-> "blocked", skip |-> "integrated", abort |-> "aborted"][ev]

\* What a round of n rejections is after ev, and whether it has attempts left.
Count(n, ev) == IF ev \in Rejecting THEN n + 1 ELSE n
Left(n, ev) == Count(n, ev) < MaxAttempts

Sends(ev, left) == ev \in Retrying \/ (ev \in Rejecting /\ left)

Acts(s, ev, left) ==
    {a \in {"supersede", "send_request", "open_review", "escalate"} :
        CASE a = "send_request" -> Sends(ev, left)
          [] a = "supersede" -> \/ Sends(ev, left)
                                \/ ev = "abort" /\ s # "pending"
                                \/ ev = "skip" /\ s \notin {"pending", "ready"}
          [] a = "open_review" -> ev = "check_passed"
          [] a = "escalate" -> To(ev, left) = "blocked"}

-----------------------------------------------------------------------------
\* Next and the bookkeeping transition does around it; the guards on
\* deps_integrated and integrate_started are the conductor's.
Event(m, ev) ==
    /\ st[m] \in From[ev]
    /\ ev = "deps_integrated" => \A d \in DependsOn[m] : st[d] = "integrated"
    /\ ev = "integrate_started" => \A n \in Missions : st[n] # "integrating"
    /\ st' = [st EXCEPT ![m] = To(ev, Left(rejections[m], ev))]
    /\ rejections' = [rejections EXCEPT ![m] = IF ev \in Retrying THEN 0 ELSE Count(rejections[m], ev)]

\* What is not in the table: an interrupted check is redone, and a merge that
\* never landed is merged again.
Redo(m) ==
    /\ \/ st[m] = "checking" /\ st' = [st EXCEPT ![m] = "delivered"]
       \/ st[m] = "integrating" /\ st' = [st EXCEPT ![m] = "approved"]
    /\ UNCHANGED rejections

Init ==
    /\ st = [m \in Missions |-> "pending"]
    /\ rejections = [m \in Missions |-> 0]

Next == \E m \in Missions : Redo(m) \/ \E ev \in DOMAIN From : Event(m, ev)

Spec == Init /\ [][Next]_vars

-----------------------------------------------------------------------------
\* What load validates of a change.
MissionAssumption ==
    /\ DependsOn \in [Missions -> SUBSET Missions]
    /\ MaxAttempts \in Nat \ {0}

\* Types.
TypeOK == st \in [Missions -> States] /\ rejections \in [Missions -> Nat]

\* A mission is worked on only with all it depends on integrated, whatever is
\* skipped, retried or aborted meanwhile (depsIntegrated).
DependenciesFirst ==
    \A m \in Missions : st[m] \notin {"pending"} \cup Final =>
        \A d \in DependsOn[m] : st[d] = "integrated"

\* Two missions are never merged at a time (advance: one integration per pass).
OneMerge == \A m, n \in Missions : st[m] = "integrating" /\ st[n] = "integrating" => m = n

\* A round has at most MaxAttempts rejections, and the last of them ends it:
\* with it the mission is blocked until an operator decides (Ctx).
RoundsBounded ==
    \A m \in Missions : \/ rejections[m] < MaxAttempts
                        \/ rejections[m] = MaxAttempts /\ st[m] \in {"blocked"} \cup Final
=============================================================================
