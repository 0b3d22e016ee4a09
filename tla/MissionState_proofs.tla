------------------------ MODULE MissionState_proofs ------------------------
(* What follows from the table of MissionState, for every change.            *)
EXTENDS MissionState, TLAPS

\* The events of the table.
Events == {"deps_integrated", "request_sent", "accepted", "agent_blocked", "delivered",
           "check_started", "check_failed", "check_passed", "approved",
           "review_rejected", "integrate_started", "integrated", "integrate_failed",
           "retry", "reassign", "timed_out", "skip", "abort"}

\* The table leads from states to states, and none of its events leaves a
\* mission that is integrated.
LEMMA TableTypes ==
    ASSUME NEW ev \in DOMAIN From, NEW left \in BOOLEAN
    PROVE  /\ To(ev, left) \in States
           /\ From[ev] \subseteq States \ Final
           /\ To(ev, left) = "integrating" <=> ev = "integrate_started"
           /\ "pending" \in From[ev] => ev = "deps_integrated" \/ To(ev, left) \in Final
           /\ To(ev, left) # "pending"
<1>1. ev \in Events
  BY DEF From, Events
<1>2. To(ev, left) \in States
  BY <1>1 DEF Events, To, States, Rejecting
<1>3. From[ev] \subseteq States \ Final
  <2>1. CASE ev \in {"skip", "abort"}
    <3>1. From["skip"] \subseteq States \ Final
      BY DEF From, States, Final
    <3>2. From["abort"] = States \ Final
      BY DEF From
    <3> QED BY <2>1, <3>1, <3>2
  <2>2. CASE ev \notin {"skip", "abort"}
    <3>1. From[ev] \subseteq States
      BY <1>1, <2>2 DEF Events, From, States
    <3>2. From[ev] \cap Final = {}
      BY <1>1, <2>2 DEF Events, From, Final
    <3> QED BY <3>1, <3>2
  <2> QED BY <2>1, <2>2
<1>4. To(ev, left) = "integrating" <=> ev = "integrate_started"
  BY <1>1 DEF Events, To, Rejecting
<1>5. "pending" \in From[ev] => ev \in {"deps_integrated", "skip", "abort"}
  <2>1. CASE ev \in {"skip", "abort"}
    BY <2>1
  <2>2. CASE ev \notin {"skip", "abort"}
    BY <1>1, <2>2 DEF Events, From
  <2> QED BY <2>1, <2>2
<1>6. ev \in {"skip", "abort"} => To(ev, left) \in Final
  BY DEF To, Rejecting, Final
<1>7. To(ev, left) # "pending"
  BY <1>1 DEF Events, To, Rejecting
<1> QED BY <1>2, <1>3, <1>4, <1>5, <1>6, <1>7

\* Types: every reachable state of a change has them.
THEOREM TypeCorrect == Spec => []TypeOK
<1>1. Init => TypeOK
  BY DEF Init, TypeOK, States
<1>2. TypeOK /\ [Next]_vars => TypeOK'
  <2> SUFFICES ASSUME TypeOK, [Next]_vars PROVE TypeOK'
    OBVIOUS
  <2>1. ASSUME NEW m \in Missions, Redo(m) PROVE TypeOK'
    BY <2>1 DEF Redo, TypeOK, States
  <2>2. ASSUME NEW m \in Missions, NEW ev \in DOMAIN From, Event(m, ev) PROVE TypeOK'
    <3>1. Left(rejections[m], ev) \in BOOLEAN /\ Count(rejections[m], ev) \in Nat
      BY DEF Left, Count, TypeOK
    <3>2. To(ev, Left(rejections[m], ev)) \in States
      BY <3>1, TableTypes
    <3> QED BY <2>2, <3>1, <3>2 DEF Event, TypeOK
  <2> QED BY <2>1, <2>2 DEF Next, vars, TypeOK
<1> QED BY <1>1, <1>2, PTL DEF Spec

\* A mission is worked on only after those it depends on were integrated.
THEOREM DependenciesFirstCorrect == MissionAssumption => (Spec => []DependenciesFirst)
<1> SUFFICES ASSUME MissionAssumption PROVE Spec => []DependenciesFirst
  OBVIOUS
<1>1. Init => DependenciesFirst
  BY DEF Init, DependenciesFirst
<1>2. TypeOK /\ DependenciesFirst /\ [Next]_vars => DependenciesFirst'
  <2> SUFFICES ASSUME TypeOK, DependenciesFirst, [Next]_vars PROVE DependenciesFirst'
    OBVIOUS
  <2>1. ASSUME NEW m \in Missions, Redo(m) PROVE DependenciesFirst'
    BY <2>1 DEF Redo, TypeOK, DependenciesFirst, Final, MissionAssumption
  <2>2. ASSUME NEW m \in Missions, NEW ev \in DOMAIN From, Event(m, ev) PROVE DependenciesFirst'
    <3> DEFINE to == To(ev, Left(rejections[m], ev))
    <3>1. Left(rejections[m], ev) \in BOOLEAN
      BY DEF Left, Count, TypeOK
    <3>2. /\ st[m] \notin Final /\ st' = [st EXCEPT ![m] = to]
          /\ st[m] = "pending" => ev = "deps_integrated" \/ to \in Final
      BY <2>2, <3>1, TableTypes DEF Event
    <3>3. \A d \in Missions : st[d] = "integrated" => st'[d] = "integrated"
      BY <3>2 DEF Final, TypeOK
    <3>4. st'[m] \in Final \/ \A d \in DependsOn[m] : st[d] = "integrated"
      BY <2>2, <3>2 DEF Event, DependenciesFirst, TypeOK
    <3> HIDE DEF to
    <3> QED BY <3>2, <3>3, <3>4 DEF DependenciesFirst, TypeOK, MissionAssumption
  <2> QED BY <2>1, <2>2 DEF Next, vars, DependenciesFirst
<1> QED BY <1>1, <1>2, TypeCorrect, PTL DEF Spec

\* At most one merge of a change is under way.
THEOREM OneMergeCorrect == Spec => []OneMerge
<1>1. Init => OneMerge
  BY DEF Init, OneMerge
<1>2. TypeOK /\ OneMerge /\ [Next]_vars => OneMerge'
  <2> SUFFICES ASSUME TypeOK, OneMerge, [Next]_vars PROVE OneMerge'
    OBVIOUS
  <2>1. ASSUME NEW m \in Missions, Redo(m) PROVE OneMerge'
    BY <2>1 DEF Redo, TypeOK, OneMerge
  <2>2. ASSUME NEW m \in Missions, NEW ev \in DOMAIN From, Event(m, ev) PROVE OneMerge'
    <3> DEFINE to == To(ev, Left(rejections[m], ev))
    <3>1. Left(rejections[m], ev) \in BOOLEAN
      BY DEF Left, Count, TypeOK
    <3>2. to = "integrating" <=> ev = "integrate_started"
      BY <3>1, TableTypes
    <3>3. /\ st' = [st EXCEPT ![m] = to]
          /\ ev = "integrate_started" => \A n \in Missions : st[n] # "integrating"
      BY <2>2 DEF Event
    <3> HIDE DEF to
    <3> QED BY <3>2, <3>3 DEF OneMerge, TypeOK
  <2> QED BY <2>1, <2>2 DEF Next, vars, OneMerge
<1> QED BY <1>1, <1>2, TypeCorrect, PTL DEF Spec

\* What an event does to a round: it is counted, opened anew, or left; the last
\* rejection blocks, and a full round is left only by the operator.
LEMMA Rounds ==
    ASSUME NEW n \in Nat, MaxAttempts \in Nat \ {0}, NEW ev \in DOMAIN From
    PROVE  /\ ev \in Rejecting => \/ n + 1 < MaxAttempts
                                  \/ n + 1 >= MaxAttempts /\ To(ev, Left(n, ev)) = "blocked"
           /\ "blocked" \in From[ev] => ev \in Retrying \/ To(ev, Left(n, ev)) \in Final
           /\ ev \in Rejecting => "blocked" \notin From[ev] /\ ev \notin Retrying
<1>1. ev \in Rejecting => (Left(n, ev) <=> n + 1 < MaxAttempts)
  BY DEF Left, Count
<1>2. ev \in Rejecting /\ ~Left(n, ev) => To(ev, Left(n, ev)) = "blocked"
  BY DEF To
<1>3. ev \in Events
  BY DEF From, Events
<1>4. "blocked" \in From[ev] => ev \in Retrying \cup {"skip", "abort"}
  BY <1>3 DEF Events, From, States, Final, Retrying
<1>5. ev \in {"skip", "abort"} => To(ev, Left(n, ev)) \in Final
  BY DEF To, Rejecting, Final
<1>6. ev \in Rejecting => "blocked" \notin From[ev] /\ ev \notin Retrying
  BY DEF Rejecting, Retrying, From
<1> QED BY <1>1, <1>2, <1>4, <1>5, <1>6

\* A round of attempts is bounded, and its last rejection blocks the mission.
THEOREM RoundsBoundedCorrect == MissionAssumption => (Spec => []RoundsBounded)
<1> SUFFICES ASSUME MissionAssumption PROVE Spec => []RoundsBounded
  OBVIOUS
<1>0. MaxAttempts \in Nat /\ 0 < MaxAttempts
  <2>1. MaxAttempts \in Nat /\ MaxAttempts # 0
    BY DEF MissionAssumption
  <2> QED BY <2>1
<1>1. Init => RoundsBounded
  BY <1>0 DEF Init, RoundsBounded
<1>2. TypeOK /\ RoundsBounded /\ [Next]_vars => RoundsBounded'
  <2> SUFFICES ASSUME TypeOK, RoundsBounded, [Next]_vars PROVE RoundsBounded'
    OBVIOUS
  <2>1. ASSUME NEW m \in Missions, Redo(m) PROVE RoundsBounded'
    BY <2>1 DEF Redo, TypeOK, RoundsBounded, Final
  <2>2. ASSUME NEW m \in Missions, NEW ev \in DOMAIN From, Event(m, ev) PROVE RoundsBounded'
    <3> DEFINE n == rejections[m]
               to == To(ev, Left(n, ev))
    <3>1. n \in Nat
      BY DEF TypeOK
    <3>2. /\ st[m] \in From[ev] /\ st' = [st EXCEPT ![m] = to]
          /\ rejections' = [rejections EXCEPT ![m] = IF ev \in Retrying THEN 0 ELSE Count(n, ev)]
      BY <2>2 DEF Event
    <3>3. /\ ev \in Rejecting => n + 1 < MaxAttempts \/ (n + 1 >= MaxAttempts /\ to = "blocked")
          /\ "blocked" \in From[ev] => ev \in Retrying \/ to \in Final
          /\ ev \in Rejecting => "blocked" \notin From[ev] /\ ev \notin Retrying
          /\ From[ev] \subseteq States \ Final
      <4>1. MaxAttempts \in Nat \ {0}
        BY <1>0
      <4>2. Left(n, ev) \in BOOLEAN
        BY DEF Left
      <4>3. From[ev] \subseteq States \ Final
        BY <4>2, TableTypes
      <4> QED BY <3>1, <4>1, <4>3, Rounds
    <3>4. rejections'[m] < MaxAttempts \/ (rejections'[m] = MaxAttempts /\ st'[m] \in {"blocked"} \cup Final)
      <4> HIDE DEF to, n
      <4> QED BY <1>0, <3>1, <3>2, <3>3 DEF Count, RoundsBounded, TypeOK, n
    <3> HIDE DEF to, n
    <3> QED BY <3>2, <3>4 DEF RoundsBounded, TypeOK
  <2> QED BY <2>1, <2>2 DEF Next, vars, RoundsBounded
<1> QED BY <1>1, <1>2, TypeCorrect, PTL DEF Spec
=============================================================================
