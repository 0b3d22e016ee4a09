-------------------------- MODULE Delivery_proofs --------------------------
(***************************************************************************)
(* Theorems about Delivery, for any set of runs, any kinds of entries, any *)
(* modes and any bounds.                                                   *)
(***************************************************************************)
EXTENDS Delivery, TLAPS, FiniteSetTheorems, WellFoundedInduction

(***************************************************************************)
(* The helpers.                                                            *)
(***************************************************************************)

\* A set of positions that is not empty has an oldest member.
LEMMA OldestIsLeast ==
    ASSUME NEW S, S \subseteq Nat, S # {}
    PROVE  Oldest(S) \in S /\ \A q \in S : Oldest(S) <= q
<1> DEFINE R == OpToRel(<, Nat)
<1>1. IsWellFoundedOn(R, Nat)
  BY NatLessThanWellFounded
<1>2. PICK p \in S : \A q \in S : <<q, p>> \notin R
  <2> HIDE DEF R
  <2> QED BY <1>1, WFMin
<1>3. \A q \in S : p <= q
  <2> SUFFICES ASSUME NEW q \in S, ~(p <= q) PROVE FALSE
    OBVIOUS
  <2>1. <<q, p>> \in Nat \X Nat /\ q < p
    OBVIOUS
  <2>2. <<q, p>> \in R
    BY <2>1 DEF OpToRel
  <2> QED BY <1>2, <2>2
<1> QED BY <1>3 DEF Oldest

\* The cursor of a new group is a position of the stream.
LEMMA CursorAtType ==
    ASSUME TypeOK, NEW id
    PROVE  CursorAt(id) \in 0 .. len
<1>1. len \in Nat
  BY DeliveryAssumption DEF TypeOK
<1>2. IsFiniteSet(Published) /\ Cardinality(Published) = len
  BY <1>1, FS_Interval DEF Published
<1> DEFINE T == {p \in Published : ~idLess(id, cmd[p].id)}
<1>3. IsFiniteSet(T) /\ Cardinality(T) <= len
  BY <1>2, FS_Subset
<1>4. Cardinality(T) \in Nat
  BY <1>3, FS_CardinalityType
<1> QED BY <1>1, <1>3, <1>4 DEF CursorAt

\* Creating the group keeps its cursor a position of the stream.
LEMMA CreateGroupType ==
    ASSUME TypeOK, NEW c \in 0 .. len, CreateGroup(c)
    PROVE  group' \in [exists : BOOLEAN, cursor : 0 .. len, base : 0 .. len]
BY DEF TypeOK, CreateGroup

\* A floor a horizon back is a stream id no later than the clock (subscribe --drain,
\* delivery.go:212-221).
LEMMA BackType ==
    ASSUME NEW ms \in 0 .. MaxClock
    PROVE  Back(ms) \in 0 .. MaxClock
BY DeliveryAssumption DEF Back

(***************************************************************************)
(* Type correctness.                                                       *)
(***************************************************************************)

\* A step of one run keeps the runs' types if what it becomes has one.
LEMMA StepType ==
    ASSUME run \in [Subs -> RunState], NEW s \in Subs, NEW r \in RunState, Step(s, r)
    PROVE  run' \in [Subs -> RunState]
BY DEF Step

\* A run keeps its type as its entry's delivery state is decided.
LEMMA EventType ==
    ASSUME NEW r \in RunState, NEW d \in {"none", "uncertain", "missing", "expired"},
           NEW pc \in {"judge", "output"}
    PROVE  [r EXCEPT !.pc = pc, !.ev.delivery = d] \in RunState
<1> DEFINE e == [r.ev EXCEPT !.delivery = d]
<1>1. e \in Event
  BY DEF RunState, Event
<1>2. [r EXCEPT !.pc = pc, !.ev.delivery = d] = [r EXCEPT !.pc = pc, !.ev = e]
  BY DEF RunState
<1> HIDE DEF e
<1> QED BY <1>1, <1>2 DEF RunState

\* A run that returns, releasing the lease if it is still its own, keeps the types.
LEMMA LeaveType ==
    ASSUME run \in [Subs -> RunState], lease \in Subs \cup {None},
           NEW s \in Subs, NEW r \in RunState, Leave(s, r)
    PROVE  run' \in [Subs -> RunState] /\ lease' \in Subs \cup {None}
BY DEF Step, Leave

\* A run that has not started is a run.
LEMMA IdleType == Idle \in RunState
BY DeliveryAssumption DEF Idle, RunState, Event, StreamId, NoFloor, NoEvent

\* What is remembered of a run that is over is a run.
LEMMA OverType ==
    ASSUME TypeOK, NEW s \in Subs
    PROVE  /\ Over(s) \in RunState
           /\ \A d \in BOOLEAN : [Over(s) EXCEPT !.drained = d, !.mark = run[s].mark] \in RunState
<1>1. run[s] \in RunState
  BY DEF TypeOK
<1>2. Entry(s) \in Ids \cup {0} /\ run[s].mark \in 0 .. MaxEntries
  BY <1>1 DEF Entry, RunState, Event
<1>3. Over(s) \in RunState
  <2> DEFINE e == [Idle.ev EXCEPT !.p = Entry(s)]
  <2>1. e \in Event
    BY <1>2, IdleType DEF RunState, Event
  <2>2. Over(s) = [Idle EXCEPT !.pc = "ended", !.ev = e]
    BY IdleType DEF Over, RunState
  <2> HIDE DEF e
  <2> QED BY <2>1, <2>2, IdleType DEF RunState
<1>4. \A d \in BOOLEAN : [Over(s) EXCEPT !.drained = d, !.mark = run[s].mark] \in RunState
  BY <1>2, <1>3 DEF RunState
<1> QED BY <1>3, <1>4

\* Moving a run to another of its steps keeps the types.
LEMMA GoToType ==
    ASSUME TypeOK, NEW s \in Subs, 
           NEW pc \in {"off", "acquire", "enter", "poll", "claim", "read", "judge", "output",
                       "settle", "ended"},
           GoTo(s, pc)
    PROVE  run' \in [Subs -> RunState]
<1>1. run[s] \in RunState /\ run \in [Subs -> RunState]
  BY DEF TypeOK
<1>2. [run[s] EXCEPT !.pc = pc] \in RunState
  BY <1>1 DEF RunState
<1> QED BY <1>1, <1>2, StepType DEF GoTo

\* The variables hold values of their types in every reachable state.
THEOREM TypeCorrect == Spec => []TypeOK
<1>1. Init => TypeOK
  <2> SUFFICES ASSUME Init PROVE TypeOK
    OBVIOUS
  <2>1. run \in [Subs -> RunState]
    BY IdleType DEF Init
  <2>2. \A p \in Ids : Unwritten \in [kind : Kinds \cup {"none"}, id : StreamId]
    BY DeliveryAssumption DEF Unwritten, StreamId
  <2> QED BY <2>1, <2>2, DeliveryAssumption DEF Init, TypeOK, NotTracked, BoardEntry, NoAck,
             NoFloor, StreamId, Ids
<1>2. TypeOK /\ [Next]_vars => TypeOK'
  <2> SUFFICES ASSUME TypeOK, [Next]_vars PROVE TypeOK'
    OBVIOUS
  <2> USE DEF broker, history
  <2>a. len \in Nat /\ MaxEntries \in Nat /\ len <= MaxEntries
    BY DeliveryAssumption DEF TypeOK
  <2>1. ASSUME NEW k \in Kinds, Publish(k) PROVE TypeOK'
    <3> DEFINE sameMs == {p \in Published : cmd[p].id[1] = clock}
    <3>1. Cardinality(sameMs) \in 0 .. MaxEntries
      <4>1. IsFiniteSet(Published) /\ Cardinality(Published) = len
        BY <2>a, FS_Interval DEF Published
      <4>2. IsFiniteSet(sameMs) /\ Cardinality(sameMs) <= len
        BY <4>1, FS_Subset
      <4> QED BY <4>2, FS_CardinalityType, <2>a
    <3>2. len' \in 1 .. MaxEntries /\ len' = len + 1
      BY <2>1, <2>a DEF Publish
    <3>3. cmd' \in [Ids -> [kind : Kinds \cup {"none"}, id : StreamId]]
      <4>1. cmd' = [cmd EXCEPT ![len'] = [kind |-> k, id |-> <<clock, Cardinality(sameMs)>>]]
        BY <2>1 DEF Publish
      <4> HIDE DEF sameMs
      <4> QED BY <4>1, <3>1, <3>2 DEF TypeOK, StreamId, Ids
    <3>4. trimmed' \in 0 .. len'
      BY <2>1, <2>a, <3>2, DeliveryAssumption DEF Publish, TypeOK
    <3>5. board' \in [Ids -> BoardEntry]
      BY <2>1, <3>2, SMTT(30) DEF Publish, TypeOK, BoardEntry, Ids
    <3>6. group' \in [exists : BOOLEAN, cursor : 0 .. len', base : 0 .. len']
      BY <2>1, <3>2, <2>a DEF Publish, TypeOK
    <3> QED BY <2>1, <2>a, <3>2, <3>3, <3>4, <3>5, <3>6 DEF Publish, TypeOK
  <2>2. CASE Purge
    BY <2>2, <2>a DEF Purge, TypeOK
  <2>3. CASE Tick
    BY <2>3, DeliveryAssumption DEF Tick, TypeOK
  <2>4. CASE Expire
    BY <2>4 DEF Expire, TypeOK
  <2>5. ASSUME NEW s \in Subs, NEW m \in Modes, Start(s, m) PROVE TypeOK'
    <3>1. PICK floor \in CASE m = "once" -> {<<clock, 0>>}
                           [] m = "since" -> {cmd[p].id : p \in Published}
                           [] OTHER -> {NoFloor} :
            Step(s, [Idle EXCEPT !.pc = "acquire", !.mode = m, !.floor = floor, !.mark = len])
      BY <2>5 DEF Start
    <3>2. floor \in StreamId
      <4>1. CASE m = "once"
        BY <3>1, <4>1, <2>a DEF StreamId, TypeOK
      <4>2. CASE m = "since"
        <5>1. PICK p \in Published : floor = cmd[p].id
          BY <3>1, <4>2
        <5> QED BY <5>1, <2>a DEF TypeOK, Published, Ids
      <4>3. CASE m # "once" /\ m # "since"
        BY <3>1, <4>3, <2>a, DeliveryAssumption DEF StreamId, NoFloor
      <4> QED BY <4>1, <4>2, <4>3
    <3>3. [Idle EXCEPT !.pc = "acquire", !.mode = m, !.floor = floor, !.mark = len] \in RunState
      <4>1. m \in Modes \cup {"none"} /\ len \in 0 .. MaxEntries
        BY <2>a
      <4> QED BY <3>2, <4>1, IdleType DEF RunState
    <3>4. run' \in [Subs -> RunState]
      BY <3>1, <3>3, StepType DEF TypeOK
    <3>5. group' \in [exists : BOOLEAN, cursor : 0 .. len, base : 0 .. len]
      <4>1. CASE m \in {"drain", "peer"}
        BY <4>1, <2>5, CursorAtType, CreateGroupType DEF Start
      <4>2. CASE m \notin {"drain", "peer"}
        BY <4>2, <2>5 DEF Start, TypeOK
      <4> QED BY <4>1, <4>2
    <3> QED BY <2>5, <3>4, <3>5 DEF Start, TypeOK
  <2>6. ASSUME NEW s \in Subs, Acquire(s) PROVE TypeOK'
    <3>1. run' \in [Subs -> RunState]
      BY <2>6, GoToType DEF Acquire
    <3> QED BY <2>6, <3>1 DEF Acquire, TypeOK
  <2>7. ASSUME NEW s \in Subs, Busy(s) PROVE TypeOK'
    <3>1. run' \in [Subs -> RunState] /\ lease' \in Subs \cup {None}
      BY <2>7, LeaveType, OverType DEF Busy, TypeOK
    <3> QED BY <2>7, <3>1 DEF Busy, TypeOK
  <2>8. ASSUME NEW s \in Subs, Enter(s) PROVE TypeOK'
    <3>1. run' \in [Subs -> RunState]
      BY <2>8, GoToType DEF Enter
    <3>2. group' \in [exists : BOOLEAN, cursor : 0 .. len, base : 0 .. len]
      BY <2>8, <2>a, CursorAtType, CreateGroupType DEF Enter
    <3> QED BY <2>8, <3>1, <3>2 DEF Enter, TypeOK
  <2>9. ASSUME NEW s \in Subs, Poll(s) PROVE TypeOK'
    <3>1. run' \in [Subs -> RunState]
      <4>1. CASE Pending = {}
        BY <2>9, <4>1, GoToType DEF Poll
      <4>2. CASE Pending # {}
        <5> DEFINE p == Oldest(Pending)
                   ev == [NoEvent EXCEPT !.p = p, !.recovered = TRUE, !.attempt = pel[p] + 1]
        <5>1. p \in Ids
          <6>1. Pending \subseteq Nat
            BY DEF Pending, Ids
          <6> HIDE DEF Pending
          <6>2. Oldest(Pending) \in Pending
            BY <6>1, <4>2, OldestIsLeast
          <6> QED BY <6>2 DEF Pending
        <5>2. ev \in Event
          <6>1. pel[p] + 1 \in Nat
            BY <5>1 DEF TypeOK
          <6> HIDE DEF p
          <6> QED BY <5>1, <6>1 DEF NoEvent, Event
        <5>3. Step(s, [run[s] EXCEPT !.pc = "claim", !.ev = ev])
          BY <2>9, <4>2 DEF Poll
        <5> HIDE DEF ev
        <5>4. run[s] \in RunState /\ run \in [Subs -> RunState]
          BY DEF TypeOK
        <5>5. [run[s] EXCEPT !.pc = "claim", !.ev = ev] \in RunState
          BY <5>2, <5>4 DEF RunState
        <5> QED BY <5>3, <5>4, <5>5, StepType
      <4> QED BY <4>1, <4>2
    <3> QED BY <2>9, <3>1 DEF Poll, TypeOK
  <2>10. ASSUME NEW s \in Subs, Claim(s) PROVE TypeOK'
    <3>1. run' \in [Subs -> RunState]
      <4> DEFINE d == IF Retained(run[s].ev.p) THEN "uncertain" ELSE "missing"
                 r == [run[s] EXCEPT !.pc = "judge", !.ev.delivery = d]
      <4>1. Step(s, r)
        BY <2>10 DEF Claim
      <4>2. run[s] \in RunState /\ d \in {"uncertain", "missing"}
        BY DEF TypeOK
      <4> HIDE DEF d
      <4>3. r \in RunState
        BY <4>2, EventType
      <4> HIDE DEF r
      <4> QED BY <4>1, <4>3, StepType DEF TypeOK
    <3>2. pel' \in [Ids -> Nat]
      <4> DEFINE p == run[s].ev.p
      <4>1. pel \in [Ids -> Nat]
        BY DEF TypeOK
      <4>2. pel' = [pel EXCEPT ![p] = @ + 1] \/ pel' = pel
        BY <2>10 DEF Claim
      <4> HIDE DEF p
      <4> QED BY <4>1, <4>2
    <3> QED BY <2>10, <3>1, <3>2 DEF Claim, TypeOK
  <2>11. ASSUME NEW s \in Subs, Read(s) PROVE TypeOK'
    <3>1. Oldest(Fetchable) \in Fetchable
      <4>1. Fetchable \subseteq Nat
        BY DEF Fetchable, Published
      <4> HIDE DEF Fetchable
      <4> QED BY <4>1, <2>11, OldestIsLeast DEF Read
    <3> DEFINE p == Oldest(Fetchable)
               ev == [NoEvent EXCEPT !.p = p, !.attempt = 1, !.delivery = "uncertain"]
    <3>2. p \in 1 .. len /\ p \in Ids
      BY <3>1, <2>a DEF Fetchable, Published, Ids
    <3>3. ev \in Event
      BY <3>2 DEF NoEvent, Event
    <3>4. Step(s, [run[s] EXCEPT !.pc = "judge", !.ev = ev])
      BY <2>11 DEF Read
    <3>5. run' \in [Subs -> RunState]
      <4> HIDE DEF ev
      <4>1. run[s] \in RunState /\ run \in [Subs -> RunState]
        BY DEF TypeOK
      <4>2. [run[s] EXCEPT !.pc = "judge", !.ev = ev] \in RunState
        BY <3>3, <4>1 DEF RunState
      <4> QED BY <3>4, <4>1, <4>2, StepType
    <3>6. group' = [group EXCEPT !.cursor = p] /\ pel' = [pel EXCEPT ![p] = 1]
      BY <2>11 DEF Read
    <3> HIDE DEF p
    <3> QED BY <2>11, <2>a, <3>2, <3>5, <3>6 DEF Read, TypeOK
  <2>12. ASSUME NEW s \in Subs, NothingToRead(s) PROVE TypeOK'
    <3>1. run' \in [Subs -> RunState] /\ lease' \in Subs \cup {None}
      <4>1. CASE run[s].mode = "drain"
        BY <4>1, <2>12, OverType, LeaveType DEF NothingToRead, TypeOK
      <4>2. CASE run[s].mode # "drain"
        BY <4>2, <2>12, GoToType DEF NothingToRead, TypeOK
      <4> QED BY <4>1, <4>2
    <3> QED BY <2>12, <3>1 DEF NothingToRead, TypeOK
  <2>b. \A s \in Subs : run[s].ev \in Event /\ Delivered(s) \in {"none", "uncertain", "missing", "expired"}
    BY DEF TypeOK, RunState, Event, Delivered
  <2>13. ASSUME NEW s \in Subs, Record(s) PROVE TypeOK'
    <3>1. run' \in [Subs -> RunState]
      <4> DEFINE r == [run[s] EXCEPT !.pc = "output", !.ev.delivery = Delivered(s)]
      <4>1. Step(s, r)
        BY <2>13 DEF Record
      <4>2. run[s] \in RunState
        BY DEF TypeOK
      <4>3. r \in RunState
        BY <4>2, <2>b, EventType
      <4> HIDE DEF r
      <4> QED BY <4>1, <4>3, StepType DEF TypeOK
    <3>2. board' \in [Ids -> BoardEntry]
      <4> DEFINE p == run[s].ev.p
                 b == [delivery |-> Delivered(s), attempts |-> board[p].attempts + 1,
                       duplicate |-> board[p].duplicate \/ run[s].ev.recovered]
      <4>1. board \in [Ids -> BoardEntry] /\ run[s].ev \in Event
        BY <2>b DEF TypeOK
      <4>2. p \in Ids => b \in BoardEntry
        BY <4>1, <2>b DEF BoardEntry, Event
      <4>3. board' = [board EXCEPT ![p] = b] \/ board' = board
        BY <2>13 DEF Record
      <4> HIDE DEF p, b
      <4> QED BY <4>1, <4>2, <4>3
    <3> QED BY <2>13, <3>1, <3>2 DEF Record, TypeOK
  <2>c. ASSUME NEW s \in Subs, NEW how \in {"skip", "finish"}, Ack(s, how)
        PROVE  /\ pel' \in [Ids -> Nat]
               /\ acked' \in [Ids -> [how : {"no", "skip", "finish"}, mode : Modes \cup {"none"},
                                      floor : StreamId]]
    <3>1. run[s].mode \in Modes \cup {"none"} /\ run[s].floor \in StreamId
      BY DEF TypeOK, RunState
    <3> QED BY <2>c, <3>1 DEF Ack, TypeOK
  <2>14. ASSUME NEW s \in Subs, Skip(s) PROVE TypeOK'
    <3>1. run' \in [Subs -> RunState]
      BY <2>14, GoToType DEF Skip
    <3> QED BY <2>14, <2>c, <3>1 DEF Skip, TypeOK
  <2>d. \A s \in Subs : Written(s) \in [Ids -> SUBSET Write]
    <3> SUFFICES ASSUME NEW s \in Subs PROVE Written(s) \in [Ids -> SUBSET Write]
      OBVIOUS
    <3>1. [by |-> s, recovered |-> run[s].ev.recovered, delivery |-> run[s].ev.delivery] \in Write
      BY <2>b DEF Event, Write
    <3> QED BY <3>1 DEF Written, TypeOK
  <2>15. ASSUME NEW s \in Subs, Output(s) PROVE TypeOK'
    <3>1. run' \in [Subs -> RunState]
      BY <2>15, GoToType DEF Output
    <3> QED BY <2>15, <2>d, <3>1 DEF Output, TypeOK
  <2>16. ASSUME NEW s \in Subs, OutputFails(s) PROVE TypeOK'
    <3>1. outputs' \in [Ids -> SUBSET Write]
      BY <2>16, <2>d DEF OutputFails, TypeOK
    <3>2. run' \in [Subs -> RunState] /\ lease' \in Subs \cup {None}
      <4>1. CASE Leave(s, Over(s))
        BY <4>1, OverType, LeaveType DEF TypeOK
      <4>2. CASE GoTo(s, "poll") /\ UNCHANGED lease
        BY <4>2, GoToType DEF TypeOK
      <4> QED BY <4>1, <4>2, <2>16 DEF OutputFails, EndsOrRetries
    <3> QED BY <2>16, <3>1, <3>2 DEF OutputFails, TypeOK
  <2>17. ASSUME NEW s \in Subs, Finish(s) PROVE TypeOK'
    <3>1. run' \in [Subs -> RunState] /\ lease' \in Subs \cup {None}
      <4>1. CASE Leave(s, Over(s))
        BY <4>1, OverType, LeaveType DEF TypeOK
      <4>2. CASE GoTo(s, "poll") /\ UNCHANGED lease
        BY <4>2, GoToType DEF TypeOK
      <4> QED BY <4>1, <4>2, <2>17 DEF Finish
    <3>2. board' \in [Ids -> BoardEntry]
      <4> DEFINE p == run[s].ev.p
                 d == IF run[s].ev.delivery = "uncertain" THEN "output_written"
                                                          ELSE run[s].ev.delivery
      <4>1. board \in [Ids -> BoardEntry]
        BY DEF TypeOK
      <4>2. d \in {"none", "queued", "uncertain", "output_written", "missing", "expired"}
        BY <2>b DEF Event
      <4>3. board' = [board EXCEPT ![p].delivery = d] \/ board' = board
        BY <2>17 DEF Finish
      <4> HIDE DEF p, d
      <4> QED BY <4>1, <4>2, <4>3 DEF BoardEntry
    <3> QED BY <2>17, <2>c, <3>1, <3>2 DEF Finish, TypeOK
  <2>18. ASSUME NEW s \in Subs, Fail(s) PROVE TypeOK'
    <3>1. run' \in [Subs -> RunState] /\ lease' \in Subs \cup {None}
      <4>1. CASE Leave(s, Over(s))
        BY <4>1, OverType, LeaveType DEF TypeOK
      <4>2. CASE GoTo(s, "poll") /\ UNCHANGED lease
        BY <4>2, GoToType DEF TypeOK
      <4> QED BY <4>1, <4>2, <2>18 DEF Fail, EndsOrRetries
    <3> QED BY <2>18, <3>1 DEF Fail, TypeOK
  <2>19. ASSUME NEW s \in Subs, Crash(s) PROVE TypeOK'
    <3>1. run' \in [Subs -> RunState]
      BY <2>19, OverType, StepType DEF Crash, TypeOK
    <3> QED BY <2>19, <3>1 DEF Crash, TypeOK
  <2>20. CASE UNCHANGED vars
    BY <2>20 DEF vars, TypeOK
  <2> QED BY <2>1, <2>2, <2>3, <2>4, <2>5, <2>6, <2>7, <2>8, <2>9, <2>10, <2>11, <2>12, <2>13,
             <2>14, <2>15, <2>16, <2>17, <2>18, <2>19, <2>20 DEF Next, SubStep
<1> QED BY <1>1, <1>2, PTL DEF Spec


(***************************************************************************)
(* The safety of delivery.                                                 *)
(***************************************************************************)

Working == {"claim", "judge", "output", "settle"}

RunInv ==
    /\ Located /\ GroupReady /\ ClaimIsRecovery /\ SettledIsWritten
    /\ OneFresh /\ FreshIsRead /\ FreshIsUnwritten /\ FirstWriteOnce

\* What a run does that leaves it holding no entry keeps what the invariant says
\* of the runs: it may create the group, and go anywhere an entry is not held.
LEMMA AsideKeepsRunInv ==
    ASSUME TypeOK, DeliveryInv, NEW s \in Subs, NEW r, Step(s, r),
           r.pc \notin Working,
           r.pc \in {"poll", "read"} \/ (r.pc = "acquire" /\ r.mode \in {"drain", "peer"})
             => group'.exists,
           UNCHANGED group \/ \E c \in 0 .. len : CreateGroup(c),
           UNCHANGED <<len, cmd, trimmed, outputs>>
    PROVE  RunInv' /\ (UNCHANGED <<pel, acked>> => Accounted')
<1> USE DEF Working
<1>0. run \in [Subs -> RunState] /\ run' = [run EXCEPT ![s] = r]
  BY DEF TypeOK, Step
<1>1. \A t \in Subs : t # s => run'[t] = run[t]
  BY <1>0
<1>2. run'[s].pc \notin Working
  BY <1>0
<1>3. \/ group' = group
      \/ /\ ~group.exists /\ group.cursor = 0
         /\ group'.exists /\ group'.cursor \in Nat /\ group'.base = group'.cursor
  <2>1. len \in Nat
    BY DeliveryAssumption DEF TypeOK
  <2> QED BY <2>1 DEF CreateGroup, DeliveryInv, GroupReady
<1>4. Located' /\ ClaimIsRecovery' /\ SettledIsWritten'
  BY <1>1, <1>2 DEF DeliveryInv, Located, ClaimIsRecovery, SettledIsWritten, Entry, Published
<1>5. FirstWriteOnce'
  BY DEF DeliveryInv, FirstWriteOnce
<1>6. GroupReady'
  <2>1. ~group'.exists => group'.cursor = 0
    BY <1>3 DEF DeliveryInv, GroupReady
  <2>2. \A t \in Subs : t # s =>
          (\/ run'[t].pc \in {"poll", "claim", "read", "judge", "output", "settle"}
           \/ run'[t].pc = "acquire" /\ run'[t].mode \in {"drain", "peer"}
           => group'.exists)
    BY <1>1, <1>3 DEF DeliveryInv, GroupReady
  <2>3. run'[s] = r
    BY <1>0
  <2> QED BY <2>1, <2>2, <2>3 DEF GroupReady
<1>7. \A t \in Subs : Fresh(t)' => t # s /\ Fresh(t) /\ Entry(t)' = Entry(t)
  BY <1>1, <1>2 DEF Fresh, Entry
<1>8. OneFresh' /\ FreshIsUnwritten'
  BY <1>7 DEF DeliveryInv, OneFresh, FreshIsUnwritten
<1>9. FreshIsRead'
  <2>1. \A t \in Subs : Fresh(t) => group.exists
    BY DEF Fresh, DeliveryInv, GroupReady
  <2>2. CASE group' = group
    BY <1>7, <2>2 DEF DeliveryInv, FreshIsRead
  <2>3. CASE ~group.exists /\ group.cursor = 0
    BY <1>7, <2>1, <2>3 DEF DeliveryInv, FreshIsRead, Ids
  <2> QED BY <1>3, <2>2, <2>3
<1>10. ASSUME UNCHANGED <<pel, acked>> PROVE Accounted'
  <2>1. CASE group' = group
    BY <1>10, <2>1 DEF DeliveryInv, Accounted, Published, Retained
  <2>2. CASE group'.base = group'.cursor /\ group'.cursor \in Nat
    BY <2>2 DEF Accounted, Published
  <2> QED BY <1>3, <2>1, <2>2
<1> QED BY <1>4, <1>5, <1>6, <1>8, <1>9, <1>10 DEF RunInv

\* If it touches no pending entry and writes nothing, it keeps the invariant.
LEMMA AsideKeepsInv ==
    ASSUME TypeOK, DeliveryInv, NEW s \in Subs, NEW r, Step(s, r),
           r.pc \notin Working,
           r.pc \in {"poll", "read"} \/ (r.pc = "acquire" /\ r.mode \in {"drain", "peer"})
             => group'.exists,
           UNCHANGED group \/ \E c \in 0 .. len : CreateGroup(c),
           UNCHANGED <<clock, len, cmd, trimmed, pel, board, outputs, acked>>
    PROVE  DeliveryInv'
<1>1. RunInv' /\ Accounted'
  BY AsideKeepsRunInv
<1>2. Placed' /\ AckedWasWritten'
  BY DEF DeliveryInv, Placed, AckedWasWritten, Published
<1> QED BY <1>1, <1>2 DEF DeliveryInv, RunInv

\* An acknowledgement keeps the entry accounted for; it is of an entry that was
\* written, or at or below the run's floor, or addressed elsewhere.
LEMMA AckKeepsInv ==
    ASSUME TypeOK, DeliveryInv, NEW s \in Subs, NEW how \in {"skip", "finish"}, Ack(s, how),
           Entry(s) \in Published,
           how = "finish" => outputs[Entry(s)] # {},
           how = "skip" /\ Mine(cmd[Entry(s)].kind) => ~aboveFloor(run[s].floor, cmd[Entry(s)].id),
           UNCHANGED <<len, cmd, trimmed, group, outputs>>
    PROVE  Placed' /\ AckedWasWritten' /\ Accounted'
<1> DEFINE p == Entry(s)
           a == [how |-> how, mode |-> run[s].mode, floor |-> run[s].floor]
<1>1. p \in Ids /\ pel \in [Ids -> Nat] /\ DOMAIN acked = Ids
  BY DeliveryAssumption DEF TypeOK, Published, Ids
<1>2. pel' = [pel EXCEPT ![p] = 0]
  BY DEF Ack
<1>3. (acked' = [acked EXCEPT ![p] = a] /\ pel[p] > 0) \/ (acked' = acked /\ ~(pel[p] > 0))
  BY DEF Ack
<1>4. a.how = how /\ a.floor = run[s].floor /\ how # "no"
  OBVIOUS
<1> HIDE DEF a
<1>5. \A q \in Ids : q # p => pel'[q] = pel[q] /\ acked'[q] = acked[q]
  BY <1>1, <1>2, <1>3
<1>6. pel'[p] = 0 /\ (acked'[p] = a \/ acked'[p] = acked[p])
  BY <1>1, <1>2, <1>3
<1>7. Placed'
  BY <1>5, <1>6 DEF DeliveryInv, Placed, Published
<1>8. AckedWasWritten'
  <2> SUFFICES ASSUME NEW q \in Ids, acked'[q].how # "no", Mine(cmd[q].kind)
               PROVE  \/ outputs[q] # {}
                      \/ acked'[q].how = "skip" /\ ~aboveFloor(acked'[q].floor, cmd[q].id)
    BY DEF AckedWasWritten
  <2>1. CASE q = p /\ acked'[p] = a
    BY <2>1, <1>4
  <2>2. CASE acked'[q] = acked[q]
    BY <2>2 DEF DeliveryInv, AckedWasWritten
  <2> QED BY <2>1, <2>2, <1>5, <1>6
<1>9. Accounted'
  <2> SUFFICES ASSUME NEW q \in Published, group.base < q, q <= group.cursor
               PROVE  pel'[q] > 0 \/ acked'[q].how # "no" \/ ~Retained(q)
    BY DEF Accounted, Published, Retained
  <2>1. q \in Ids
    BY DeliveryAssumption DEF TypeOK, Published, Ids
  <2>2. pel[q] > 0 \/ acked[q].how # "no" \/ ~Retained(q)
    BY DEF DeliveryInv, Accounted
  <2>3. CASE q = p
    BY <2>2, <2>3, <1>1, <1>3, <1>4
  <2>4. CASE q # p
    BY <2>1, <2>2, <2>4, <1>5
  <2> QED BY <2>3, <2>4
<1> QED BY <1>7, <1>8, <1>9

\* A step of the bus that touches no run, group, pending entry or history keeps
\* the invariant, as long as the stream only grows and loses its oldest bodies.
LEMMA BusKeepsInv ==
    ASSUME TypeOK, DeliveryInv,
           len' \in Nat, len <= len', trimmed' \in Nat, trimmed <= trimmed',
           \A p \in Published : cmd'[p] = cmd[p],
           UNCHANGED <<group, pel, run, outputs, acked>>
    PROVE  DeliveryInv'
<1>0. len \in Nat /\ trimmed \in Nat /\ Published \subseteq Published' /\ group.cursor <= len
  BY DeliveryAssumption DEF TypeOK, Published
<1>1. Located' /\ Placed' /\ GroupReady' /\ ClaimIsRecovery' /\ SettledIsWritten'
  BY <1>0 DEF DeliveryInv, Located, Placed, GroupReady, ClaimIsRecovery, SettledIsWritten, Entry
<1>2. OneFresh' /\ FreshIsRead' /\ FreshIsUnwritten' /\ FirstWriteOnce'
  BY DEF DeliveryInv, OneFresh, FreshIsRead, FreshIsUnwritten, FirstWriteOnce, Fresh, Entry
<1>3. AckedWasWritten'
  BY DEF DeliveryInv, Placed, AckedWasWritten
<1>4. Accounted'
  BY <1>0 DEF DeliveryInv, Accounted, Published, Retained, TypeOK
<1> QED BY <1>1, <1>2, <1>3, <1>4 DEF DeliveryInv

\* What a run holds is one event: the entry, and how it came by it.
LEMMA FetchKeepsOthers ==
    ASSUME TypeOK, NEW s \in Subs, NEW r, Step(s, r)
    PROVE  run'[s] = r /\ \A t \in Subs : t # s => run'[t] = run[t]
BY DEF TypeOK, Step

\* A write of the entry a run holds keeps the invariant, wherever the run goes
\* next without going back to write it again.
LEMMA WriteKeepsInv ==
    ASSUME TypeOK, DeliveryInv, NEW s \in Subs, NEW r, Step(s, r),
           At(s, "output"), outputs' = Written(s),
           r.pc \in {"settle", "poll", "ended"}, r.ev.p = Entry(s),
           UNCHANGED <<clock, len, cmd, trimmed, group, pel, board, acked>>
    PROVE  DeliveryInv'
<1> DEFINE p == Entry(s)
           w == [by |-> s, recovered |-> run[s].ev.recovered, delivery |-> run[s].ev.delivery]
<1>1. p \in Published /\ p \in Ids /\ group.exists /\ run[s].pc = "output"
  BY DeliveryAssumption DEF At, DeliveryInv, Located, GroupReady, TypeOK, Published, Ids
<1>2. run'[s] = r /\ \A t \in Subs : t # s => run'[t] = run[t]
  BY FetchKeepsOthers
<1>3. outputs \in [Ids -> SUBSET Write] /\ outputs' = [outputs EXCEPT ![p] = @ \cup {w}]
  BY DEF TypeOK, Written, Entry
<1>4. w.recovered = run[s].ev.recovered
  OBVIOUS
<1> HIDE DEF w
<1>5. outputs'[p] = outputs[p] \cup {w} /\ \A q \in Ids : q # p => outputs'[q] = outputs[q]
  BY <1>1, <1>3
<1>6. \A t \in Subs : Fresh(t)' => t # s /\ Fresh(t) /\ Entry(t)' = Entry(t)
  BY <1>2 DEF Fresh, Entry
<1>7. ~w.recovered => Fresh(s)
  BY <1>1, <1>4 DEF Fresh
<1>8. \A t \in Subs : Fresh(t) => Entry(t) \in Ids
  BY DeliveryAssumption DEF Fresh, DeliveryInv, Located, TypeOK, Published, Ids
<1>9. Located' /\ ClaimIsRecovery' /\ GroupReady'
  BY <1>1, <1>2 DEF DeliveryInv, Located, ClaimIsRecovery, GroupReady, Entry, Published
<1>10. SettledIsWritten'
  <2> SUFFICES ASSUME NEW t \in Subs, run'[t].pc = "settle" PROVE outputs'[Entry(t)'] # {}
    BY DEF SettledIsWritten
  <2>1. CASE t = s
    BY <2>1, <1>2, <1>5 DEF Entry
  <2>2. CASE t # s
    <3>1. Entry(t)' = Entry(t) /\ Entry(t) \in Ids /\ outputs[Entry(t)] # {}
      BY <2>2, <1>2, DeliveryAssumption
      DEF Entry, DeliveryInv, SettledIsWritten, Located, TypeOK, Published, Ids
    <3> QED BY <3>1, <1>5
  <2> QED BY <2>1, <2>2
<1>11. Placed'
  BY <1>1, <1>5 DEF DeliveryInv, Placed, Published
<1>12. AckedWasWritten'
  <2>1. \A q \in Ids : outputs[q] # {} => outputs'[q] # {}
    BY <1>5
  <2> QED BY <2>1 DEF DeliveryInv, AckedWasWritten
<1>13. Accounted'
  BY DEF DeliveryInv, Accounted, Published, Retained
<1>14. OneFresh'
  BY <1>6 DEF DeliveryInv, OneFresh
<1>15. FreshIsRead'
  <2>1. ~w.recovered => p <= group.cursor
    BY <1>7 DEF DeliveryInv, FreshIsRead
  <2> QED BY <1>5, <1>6, <2>1 DEF DeliveryInv, FreshIsRead
<1>16. FreshIsUnwritten'
  <2> SUFFICES ASSUME NEW t \in Subs, Fresh(t)', NEW x \in outputs'[Entry(t)'] PROVE x.recovered
    BY DEF FreshIsUnwritten
  <2>1. t # s /\ Fresh(t) /\ Entry(t)' = Entry(t) /\ Entry(t) \in Ids
    BY <1>6, <1>8
  <2>2. CASE x \in outputs[Entry(t)]
    BY <2>1, <2>2 DEF DeliveryInv, FreshIsUnwritten
  <2>3. CASE Entry(t) = p /\ x = w
    BY <1>7, <2>1, <2>3 DEF DeliveryInv, OneFresh
  <2> QED BY <1>5, <2>1, <2>2, <2>3
<1>17. FirstWriteOnce'
  <2>1. ~w.recovered => \A x \in outputs[p] : x.recovered
    BY <1>7 DEF DeliveryInv, FreshIsUnwritten
  <2> QED BY <1>5, <2>1 DEF DeliveryInv, FirstWriteOnce
<1> QED BY <1>9, <1>10, <1>11, <1>12, <1>13, <1>14, <1>15, <1>16, <1>17 DEF DeliveryInv

\* Every step keeps the invariant.
LEMMA NextKeepsInv ==
    ASSUME TypeOK, TypeOK', DeliveryInv, [Next]_vars
    PROVE  DeliveryInv'
<1> USE DEF broker, history
<1>a. len \in Nat /\ trimmed \in Nat /\ group.cursor \in 0 .. len /\ MaxEntries \in Nat /\ len <= MaxEntries
  BY DeliveryAssumption DEF TypeOK
<1>1. ASSUME NEW k \in Kinds, Publish(k) PROVE DeliveryInv'
  <2>1. len' = len + 1 /\ trimmed <= trimmed' /\ trimmed' \in Nat
    BY <1>1, <1>a, DeliveryAssumption DEF Publish
  <2>2. \A p \in Published : cmd'[p] = cmd[p]
    BY <1>1, <1>a, <2>1 DEF Publish, Published, TypeOK
  <2> QED BY <1>1, <1>a, <2>1, <2>2, BusKeepsInv DEF Publish
<1>2. CASE Purge
  BY <1>2, <1>a, BusKeepsInv DEF Purge
<1>3. CASE Tick
  BY <1>3, <1>a, BusKeepsInv DEF Tick
<1>4. CASE Expire
  BY <1>4, <1>a, BusKeepsInv DEF Expire
<1>5. ASSUME NEW s \in Subs, NEW m \in Modes, Start(s, m) PROVE DeliveryInv'
  <2>1. PICK floor :
          Step(s, [Idle EXCEPT !.pc = "acquire", !.mode = m, !.floor = floor, !.mark = len])
    BY <1>5 DEF Start
  <2> DEFINE r == [Idle EXCEPT !.pc = "acquire", !.mode = m, !.floor = floor, !.mark = len]
  <2>2. r.pc = "acquire" /\ r.mode = m
    BY DEF Idle
  <2>3. CursorAt(<<Back(clock), 0>>) \in 0 .. len
    BY CursorAtType
  <2>4. UNCHANGED group \/ \E c \in 0 .. len : CreateGroup(c)
    BY <1>5, <2>3 DEF Start
  <2>5. m \in {"drain", "peer"} => group'.exists
    BY <1>5 DEF Start, CreateGroup
  <2> HIDE DEF r
  <2>6. Step(s, r)
    BY <2>1 DEF r
  <2> QED BY <1>5, <2>2, <2>4, <2>5, <2>6, AsideKeepsInv DEF Start, Working
<1>6. ASSUME NEW s \in Subs, Acquire(s) PROVE DeliveryInv'
  <2> DEFINE next == IF run[s].mode \in {"drain", "peer"} THEN "poll" ELSE "enter"
             r == [run[s] EXCEPT !.pc = next]
  <2>1. r.pc = next
    BY DEF TypeOK, RunState
  <2>2. Step(s, r)
    BY <1>6 DEF Acquire, GoTo
  <2>3. r.pc = "poll" => group.exists
    BY <1>6, <2>1 DEF Acquire, At, DeliveryInv, GroupReady
  <2> HIDE DEF r
  <2> QED BY <1>6, <2>1, <2>2, <2>3, AsideKeepsInv DEF Acquire, Working
<1>b. \A s \in Subs : Over(s).pc = "ended"
  BY DEF Over, Idle
<1>c. ASSUME NEW s \in Subs, Step(s, Over(s)), UNCHANGED <<broker, group, pel, board, history>>
      PROVE DeliveryInv'
  BY <1>b, <1>c, AsideKeepsInv DEF Working
<1>d. ASSUME NEW s \in Subs, NEW pc \in {"poll", "read"}, GoTo(s, pc), group'.exists,
             UNCHANGED group \/ \E c \in 0 .. len : CreateGroup(c),
             UNCHANGED <<broker, pel, board, history>>
      PROVE DeliveryInv'
  <2>1. [run[s] EXCEPT !.pc = pc].pc = pc
    BY DEF TypeOK, RunState
  <2> QED BY <1>d, <2>1, AsideKeepsInv DEF GoTo, Working
<1>7. ASSUME NEW s \in Subs, Busy(s) PROVE DeliveryInv'
  BY <1>7, <1>c DEF Busy, Leave
<1>8. ASSUME NEW s \in Subs, Enter(s) PROVE DeliveryInv'
  <2>1. \E c \in 0 .. len : CreateGroup(c)
    BY <1>8, <1>a, CursorAtType DEF Enter
  <2>2. group'.exists
    BY <2>1 DEF CreateGroup
  <2> QED BY <1>8, <2>1, <2>2, <1>d DEF Enter
<1>9. ASSUME NEW s \in Subs, Poll(s) PROVE DeliveryInv'
  <2>1. CASE Pending = {}
    BY <1>9, <2>1, <1>d DEF Poll, At, DeliveryInv, GroupReady
  <2>2. CASE Pending # {}
    <3> DEFINE p == Oldest(Pending)
               ev == [NoEvent EXCEPT !.p = p, !.recovered = TRUE, !.attempt = pel[p] + 1]
               r == [run[s] EXCEPT !.pc = "claim", !.ev = ev]
    <3>1. p \in Pending
      <4>1. Pending \subseteq Nat
        BY DEF Pending, Ids
      <4> HIDE DEF Pending
      <4> QED BY <2>2, <4>1, OldestIsLeast
    <3>2. p \in Published
      BY <3>1 DEF Pending, DeliveryInv, Placed
    <3>3. ev.p = p /\ ev.recovered
      BY DEF NoEvent
    <3> HIDE DEF ev, p
    <3>4. r.pc = "claim" /\ r.ev = ev
      BY DEF TypeOK, RunState
    <3> HIDE DEF r
    <3>5. Step(s, r)
      BY <1>9, <2>2 DEF Poll, p, ev, r
    <3>6. run'[s] = r /\ \A t \in Subs : t # s => run'[t] = run[t]
      BY <3>5, FetchKeepsOthers
    <3>7. UNCHANGED <<broker, group, pel, board, history>>
      BY <1>9 DEF Poll
    <3>8. \A t \in Subs : Fresh(t)' => t # s /\ Fresh(t) /\ Entry(t)' = Entry(t)
      BY <3>4, <3>6 DEF Fresh, Entry
    <3>9. Located' /\ ClaimIsRecovery' /\ SettledIsWritten'
      BY <3>2, <3>3, <3>4, <3>6, <3>7
      DEF DeliveryInv, Located, ClaimIsRecovery, SettledIsWritten, Entry, Published
    <3>10. GroupReady'
      BY <1>9, <3>4, <3>6, <3>7 DEF Poll, At, DeliveryInv, GroupReady
    <3>11. OneFresh' /\ FreshIsRead' /\ FreshIsUnwritten'
      BY <3>7, <3>8 DEF DeliveryInv, OneFresh, FreshIsRead, FreshIsUnwritten
    <3>12. Placed' /\ AckedWasWritten' /\ FirstWriteOnce' /\ Accounted'
      BY <3>7 DEF DeliveryInv, Placed, AckedWasWritten, FirstWriteOnce, Accounted, Published, Retained
    <3> QED BY <3>9, <3>10, <3>11, <3>12 DEF DeliveryInv
  <2> QED BY <2>1, <2>2
<1>10. ASSUME NEW s \in Subs, Claim(s) PROVE DeliveryInv'
  <2> DEFINE d == IF Retained(run[s].ev.p) THEN "uncertain" ELSE "missing"
             r == [run[s] EXCEPT !.pc = "judge", !.ev.delivery = d]
  <2>1. run[s].pc = "claim" /\ Entry(s) \in Published /\ run[s].ev.recovered /\ group.exists
    BY <1>10 DEF Claim, At, DeliveryInv, Located, ClaimIsRecovery, GroupReady
  <2> HIDE DEF d
  <2>2. r.pc = "judge" /\ r.ev.p = Entry(s) /\ r.ev.recovered = run[s].ev.recovered
    <3>1. run[s] \in RunState
      BY DEF TypeOK
    <3> QED BY <3>1 DEF RunState, Event, Entry
  <2> HIDE DEF r
  <2>3. Step(s, r)
    BY <1>10 DEF Claim, d, r
  <2>4. run'[s] = r /\ \A t \in Subs : t # s => run'[t] = run[t]
    BY <2>3, FetchKeepsOthers
  <2>5. UNCHANGED <<broker, group, board, history>>
    BY <1>10 DEF Claim
  <2>6. \A p \in Ids : pel'[p] > 0 <=> pel[p] > 0
    <3> DEFINE q == run[s].ev.p
    <3>1. pel \in [Ids -> Nat]
      BY DEF TypeOK
    <3>2. (pel' = [pel EXCEPT ![q] = @ + 1] /\ pel[q] > 0) \/ pel' = pel
      BY <1>10 DEF Claim
    <3> HIDE DEF q
    <3> QED BY <3>1, <3>2
  <2>7. \A t \in Subs : Fresh(t)' => t # s /\ Fresh(t) /\ Entry(t)' = Entry(t)
    BY <2>1, <2>2, <2>4 DEF Fresh, Entry
  <2>8. Located' /\ ClaimIsRecovery' /\ SettledIsWritten'
    BY <2>1, <2>2, <2>4, <2>5 DEF DeliveryInv, Located, ClaimIsRecovery, SettledIsWritten, Entry, Published
  <2>9. GroupReady'
    BY <2>1, <2>2, <2>4, <2>5 DEF DeliveryInv, GroupReady
  <2>10. OneFresh' /\ FreshIsRead' /\ FreshIsUnwritten'
    BY <2>5, <2>7 DEF DeliveryInv, OneFresh, FreshIsRead, FreshIsUnwritten
  <2>11. Placed' /\ AckedWasWritten' /\ FirstWriteOnce'
    BY <2>5, <2>6 DEF DeliveryInv, Placed, AckedWasWritten, FirstWriteOnce, Published
  <2>12. Accounted'
    BY <2>5, <2>6, <1>a DEF DeliveryInv, Accounted, Published, Retained, Ids
  <2> QED BY <2>8, <2>9, <2>10, <2>11, <2>12 DEF DeliveryInv
<1>11. ASSUME NEW s \in Subs, Read(s) PROVE DeliveryInv'
  <2> DEFINE p == Oldest(Fetchable)
             ev == [NoEvent EXCEPT !.p = p, !.attempt = 1, !.delivery = "uncertain"]
             r == [run[s] EXCEPT !.pc = "judge", !.ev = ev]
  <2>1. p \in Fetchable /\ \A q \in Fetchable : p <= q
    <3>1. Fetchable \subseteq Nat
      BY DEF Fetchable, Published
    <3> HIDE DEF Fetchable
    <3> QED BY <1>11, <3>1, OldestIsLeast DEF Read
  <2>2. p \in Published /\ p \in Ids /\ p > group.cursor
    BY <2>1, <1>a DEF Fetchable, Published, Ids
  <2>3. ev.p = p /\ ~ev.recovered
    BY DEF NoEvent
  <2> HIDE DEF p, ev
  <2>4. r.pc = "judge" /\ r.ev = ev
    BY DEF TypeOK, RunState
  <2> HIDE DEF r
  <2>5. Step(s, r) /\ group' = [group EXCEPT !.cursor = p] /\ pel' = [pel EXCEPT ![p] = 1]
    BY <1>11 DEF Read, p, ev, r
  <2>6. run'[s] = r /\ \A t \in Subs : t # s => run'[t] = run[t]
    BY <2>5, FetchKeepsOthers
  <2>7. UNCHANGED <<broker, board, history>>
    BY <1>11 DEF Read
  <2>8. group'.cursor = p /\ group'.base = group.base /\ group'.exists = group.exists /\ group.exists
    BY <1>11, <2>5 DEF Read, At, DeliveryInv, GroupReady, TypeOK
  <2>9. \A t \in Subs : Fresh(t)' => t = s \/ (Fresh(t) /\ Entry(t)' = Entry(t))
    BY <2>6 DEF Fresh, Entry
  <2>10. Fresh(s)' /\ Entry(s)' = p
    BY <2>3, <2>4, <2>6 DEF Fresh, Entry
  <2>11. \A t \in Subs : Fresh(t) => Entry(t) <= group.cursor
    BY DEF DeliveryInv, FreshIsRead
  <2>12. \A w \in outputs[p] : w.recovered
    <3> SUFFICES ASSUME NEW w \in outputs[p], ~w.recovered PROVE FALSE
      OBVIOUS
    <3> QED BY <2>2, <1>a DEF DeliveryInv, FreshIsRead, Published
  <2>13. pel \in [Ids -> Nat] /\ \A q \in Ids : q # p => pel'[q] = pel[q]
    BY <2>5 DEF TypeOK
  <2>14. Located' /\ ClaimIsRecovery' /\ SettledIsWritten'
    BY <2>2, <2>3, <2>4, <2>6, <2>7
    DEF DeliveryInv, Located, ClaimIsRecovery, SettledIsWritten, Entry, Published
  <2>15. GroupReady'
    BY <2>6, <2>8 DEF DeliveryInv, GroupReady
  <2>16. Placed' /\ AckedWasWritten' /\ FirstWriteOnce'
    BY <2>2, <2>7, <2>13 DEF DeliveryInv, Placed, AckedWasWritten, FirstWriteOnce, Published
  <2>17. \A t \in Subs : Fresh(t) => Entry(t) # p
    BY <2>2, <2>11, <1>a DEF Published, Fresh, DeliveryInv, Located, Entry
  <2>18. OneFresh'
    BY <2>9, <2>10, <2>17 DEF DeliveryInv, OneFresh
  <2>19. FreshIsUnwritten'
    BY <2>7, <2>9, <2>10, <2>12 DEF DeliveryInv, FreshIsUnwritten
  <2>20. FreshIsRead'
    <3>1. \A t \in Subs : Fresh(t)' => Entry(t)' <= group'.cursor
      <4> SUFFICES ASSUME NEW t \in Subs, Fresh(t)' PROVE Entry(t)' <= group'.cursor
        OBVIOUS
      <4>1. CASE t = s
        BY <4>1, <2>2, <2>8, <2>10 DEF Ids
      <4>2. CASE t # s
        <5>1. Fresh(t) /\ Entry(t)' = Entry(t)
          BY <4>2, <2>9
        <5>2. Entry(t) \in Published /\ Entry(t) <= group.cursor
          BY <5>1, <2>11 DEF Fresh, DeliveryInv, Located
        <5> QED BY <5>1, <5>2, <2>2, <2>8, <1>a DEF Published, Ids
      <4> QED BY <4>1, <4>2
    <3>2. \A q \in Ids : \A w \in outputs[q] : ~w.recovered => q <= p
      BY <2>2, <1>a DEF DeliveryInv, FreshIsRead, Ids
    <3> QED BY <3>1, <3>2, <2>7, <2>8 DEF FreshIsRead
  <2>21. Accounted'
    <3> SUFFICES ASSUME NEW q \in Published, group.base < q, q <= p
                 PROVE  pel'[q] > 0 \/ acked[q].how # "no" \/ ~Retained(q)
      BY <2>7, <2>8 DEF Accounted, Published, Retained
    <3>1. q \in Ids
      BY <1>a DEF Published, Ids
    <3>2. CASE q = p
      BY <3>2, <2>2, <2>5, <2>13
    <3>3. CASE q # p /\ q <= group.cursor
      BY <3>1, <3>3, <2>13 DEF DeliveryInv, Accounted
    <3>4. CASE q # p /\ q > group.cursor
      <4>1. q \notin Fetchable
        BY <3>4, <2>1, <2>2 DEF Published
      <4> QED BY <3>4, <4>1 DEF Fetchable
    <3> QED BY <3>2, <3>3, <3>4, <1>a DEF Published
  <2> QED BY <2>14, <2>15, <2>16, <2>18, <2>19, <2>20, <2>21 DEF DeliveryInv
<1>12. ASSUME NEW s \in Subs, NothingToRead(s) PROVE DeliveryInv'
  <2>1. run[s].pc = "read" /\ group.exists
    BY <1>12 DEF NothingToRead, At, DeliveryInv, GroupReady
  <2>2. CASE run[s].mode = "drain"
    <3> DEFINE r == [Over(s) EXCEPT !.drained = (lease = s), !.mark = run[s].mark]
    <3>1. r.pc = "ended"
      <4>1. Over(s) \in RunState
        BY OverType
      <4> QED BY <1>b, <4>1 DEF RunState
    <3>2. Step(s, r)
      BY <1>12, <2>2 DEF NothingToRead, Leave
    <3> HIDE DEF r
    <3> QED BY <1>12, <3>1, <3>2, AsideKeepsInv DEF NothingToRead, Working
  <2>3. CASE run[s].mode # "drain"
    BY <1>12, <2>1, <2>3, <1>d DEF NothingToRead
  <2> QED BY <2>2, <2>3
<1>13. ASSUME NEW s \in Subs, Record(s) PROVE DeliveryInv'
  <2> DEFINE r == [run[s] EXCEPT !.pc = "output", !.ev.delivery = Delivered(s)]
  <2>1. run[s].pc = "judge" /\ Entry(s) \in Published /\ group.exists
    BY <1>13 DEF Record, At, DeliveryInv, Located, GroupReady
  <2>2. r.pc = "output" /\ r.ev.p = Entry(s) /\ r.ev.recovered = run[s].ev.recovered
    <3>1. run[s] \in RunState
      BY DEF TypeOK
    <3> QED BY <3>1 DEF RunState, Event, Entry
  <2> HIDE DEF r
  <2>3. Step(s, r)
    BY <1>13 DEF Record, r
  <2>4. run'[s] = r /\ \A t \in Subs : t # s => run'[t] = run[t]
    BY <2>3, FetchKeepsOthers
  <2>5. UNCHANGED <<broker, group, pel, history>>
    BY <1>13 DEF Record
  <2>6. \A t \in Subs : (Fresh(t)' <=> Fresh(t)) /\ Entry(t)' = Entry(t)
    BY <2>1, <2>2, <2>4 DEF Fresh, Entry
  <2>7. Located' /\ ClaimIsRecovery' /\ SettledIsWritten'
    BY <2>1, <2>2, <2>4, <2>5 DEF DeliveryInv, Located, ClaimIsRecovery, SettledIsWritten, Entry, Published
  <2>8. GroupReady'
    BY <2>1, <2>2, <2>4, <2>5 DEF DeliveryInv, GroupReady
  <2>9. OneFresh' /\ FreshIsRead' /\ FreshIsUnwritten'
    BY <2>5, <2>6 DEF DeliveryInv, OneFresh, FreshIsRead, FreshIsUnwritten
  <2>10. Placed' /\ AckedWasWritten' /\ FirstWriteOnce' /\ Accounted'
    BY <2>5 DEF DeliveryInv, Placed, AckedWasWritten, FirstWriteOnce, Accounted, Published, Retained
  <2> QED BY <2>7, <2>8, <2>9, <2>10 DEF DeliveryInv
<1>e. \A s \in Subs : At(s, "judge") \/ At(s, "settle") \/ At(s, "output") =>
        Entry(s) \in Published /\ group.exists
  BY DEF At, DeliveryInv, Located, GroupReady
<1>f. ASSUME NEW s \in Subs, GoTo(s, "poll") \/ Step(s, Over(s)), group.exists,
             UNCHANGED <<broker, group, outputs>>
      PROVE RunInv'
  <2>1. [run[s] EXCEPT !.pc = "poll"].pc = "poll"
    BY DEF TypeOK, RunState
  <2> QED BY <1>f, <1>b, <2>1, AsideKeepsRunInv DEF GoTo, Working
<1>14. ASSUME NEW s \in Subs, Skip(s) PROVE DeliveryInv'
  <2>1. Entry(s) \in Published /\ group.exists
    BY <1>14, <1>e DEF Skip
  <2>2. RunInv'
    BY <1>14, <1>f, <2>1 DEF Skip
  <2>3. Mine(cmd[Entry(s)].kind) => ~aboveFloor(run[s].floor, cmd[Entry(s)].id)
    BY <1>14 DEF Skip, Below, Elsewhere
  <2>4. Placed' /\ AckedWasWritten' /\ Accounted'
    BY <1>14, <2>1, <2>3, AckKeepsInv DEF Skip
  <2> QED BY <2>2, <2>4 DEF RunInv, DeliveryInv
<1>g. \A s \in Subs : Over(s).ev.p = Entry(s)
  BY IdleType DEF Over, RunState, Event
<1>15. ASSUME NEW s \in Subs, Output(s) PROVE DeliveryInv'
  <2> DEFINE r == [run[s] EXCEPT !.pc = "settle"]
  <2>1. r.pc = "settle" /\ r.ev.p = Entry(s)
    BY DEF TypeOK, RunState, Entry
  <2>2. Step(s, r)
    BY <1>15 DEF Output, GoTo
  <2> HIDE DEF r
  <2> QED BY <1>15, <2>1, <2>2, WriteKeepsInv DEF Output
<1>16. ASSUME NEW s \in Subs, OutputFails(s) PROVE DeliveryInv'
  <2>1. At(s, "output") /\ group.exists /\ UNCHANGED <<broker, group, pel, board, acked>>
    BY <1>16, <1>e DEF OutputFails
  <2>2. Step(s, Over(s)) \/ GoTo(s, "poll")
    BY <1>16 DEF OutputFails, EndsOrRetries, Leave
  <2>3. CASE outputs' = outputs
    BY <2>1, <2>2, <2>3, <1>c, <1>d
  <2>4. CASE outputs' = Written(s) /\ Step(s, Over(s))
    BY <2>1, <2>4, <1>b, <1>g, WriteKeepsInv
  <2>5. CASE outputs' = Written(s) /\ GoTo(s, "poll")
    <3> DEFINE r == [run[s] EXCEPT !.pc = "poll"]
    <3>1. r.pc = "poll" /\ r.ev.p = Entry(s)
      BY DEF TypeOK, RunState, Entry
    <3>2. Step(s, r)
      BY <2>5 DEF GoTo
    <3> HIDE DEF r
    <3> QED BY <2>1, <2>5, <3>1, <3>2, WriteKeepsInv
  <2> QED BY <1>16, <2>2, <2>3, <2>4, <2>5 DEF OutputFails
<1>17. ASSUME NEW s \in Subs, Finish(s) PROVE DeliveryInv'
  <2>1. Entry(s) \in Published /\ group.exists
    BY <1>17, <1>e DEF Finish
  <2>2. outputs[Entry(s)] # {}
    BY <1>17 DEF Finish, At, DeliveryInv, SettledIsWritten
  <2>3. GoTo(s, "poll") \/ Step(s, Over(s))
    BY <1>17 DEF Finish, Leave
  <2>4. RunInv'
    BY <1>17, <1>f, <2>1, <2>3 DEF Finish
  <2>5. Placed' /\ AckedWasWritten' /\ Accounted'
    BY <1>17, <2>1, <2>2, AckKeepsInv DEF Finish
  <2> QED BY <2>4, <2>5 DEF RunInv, DeliveryInv
<1>18. ASSUME NEW s \in Subs, Fail(s) PROVE DeliveryInv'
  <2>1. UNCHANGED <<broker, group, pel, board, history>>
    BY <1>18 DEF Fail
  <2>2. Step(s, Over(s)) \/ (GoTo(s, "poll") /\ run[s].pc \in {"judge", "output", "settle"})
    BY <1>18 DEF Fail, EndsOrRetries, Leave
  <2>3. CASE Step(s, Over(s))
    BY <2>1, <2>3, <1>c
  <2>4. CASE GoTo(s, "poll") /\ run[s].pc \in {"judge", "output", "settle"}
    <3>1. group'.exists
      BY <2>1, <2>4, <1>e DEF At
    <3> QED BY <2>1, <2>4, <3>1, <1>d
  <2> QED BY <2>2, <2>3, <2>4
<1>19. ASSUME NEW s \in Subs, Crash(s) PROVE DeliveryInv'
  BY <1>19, <1>c DEF Crash
<1>20. CASE UNCHANGED vars
  BY <1>20, <1>a, BusKeepsInv DEF vars
<1> QED BY <1>1, <1>2, <1>3, <1>4, <1>5, <1>6, <1>7, <1>8, <1>9, <1>10, <1>11, <1>12, <1>13,
           <1>14, <1>15, <1>16, <1>17, <1>18, <1>19, <1>20 DEF Next, SubStep

\* The inductive invariant holds in every reachable state.
THEOREM InvCorrect == Spec => []DeliveryInv
<1>1. Init => DeliveryInv
  <2> SUFFICES ASSUME Init PROVE DeliveryInv
    OBVIOUS
  <2>1. \A s \in Subs : run[s].pc = "off"
    BY DEF Init, Idle
  <2>2. \A p \in Ids : pel[p] = 0 /\ acked[p].how = "no" /\ outputs[p] = {}
    BY DEF Init, NoAck
  <2>3. ~group.exists /\ group.cursor = 0 /\ Published = {}
    BY DEF Init, Published
  <2>4. Located /\ GroupReady /\ ClaimIsRecovery /\ SettledIsWritten /\ OneFresh /\ FreshIsUnwritten
    BY <2>1, <2>3 DEF Located, GroupReady, ClaimIsRecovery, SettledIsWritten, OneFresh,
                      FreshIsUnwritten, Fresh
  <2>5. Placed /\ FreshIsRead /\ AckedWasWritten /\ FirstWriteOnce /\ Accounted
    BY <2>1, <2>2, <2>3 DEF Placed, FreshIsRead, AckedWasWritten, FirstWriteOnce, Accounted, Fresh
  <2> QED BY <2>4, <2>5 DEF DeliveryInv
<1>2. TypeOK /\ TypeOK' /\ DeliveryInv /\ [Next]_vars => DeliveryInv'
  BY NextKeepsInv
<1> QED BY <1>1, <1>2, TypeCorrect, PTL DEF Spec

\* At-least-once: what is acknowledged was written, or is at or below the floor
\* its run was told to start from (bus/delivery.go:424-441).
THEOREM AckedWasWrittenCorrect == Spec => []AckedWasWritten
<1>1. DeliveryInv => AckedWasWritten
  BY DEF DeliveryInv
<1> QED BY <1>1, InvCorrect, PTL

\* At most one write of an entry looks first-time (bus/delivery.go:349-352).
THEOREM FirstWriteOnceCorrect == Spec => []FirstWriteOnce
<1>1. DeliveryInv => FirstWriteOnce
  BY DEF DeliveryInv
<1> QED BY <1>1, InvCorrect, PTL

\* The cursor and the pending list lose no retained entry (bus/delivery.go:344-389).
THEOREM AccountedCorrect == Spec => []Accounted
<1>1. DeliveryInv => Accounted
  BY DEF DeliveryInv
<1> QED BY <1>1, InvCorrect, PTL

\* Only a step of the lease's holder settles an entry or rewrites its metadata.
THEOREM OnlyHolderSettlesCorrect == Spec => OnlyHolderSettles
<1> DEFINE A == \A p \in Published : (pel[p] > 0 /\ pel'[p] = 0) \/ board'[p] # board[p] =>
                  lease # None /\ run'[lease] # run[lease]
<1>1. TypeOK /\ DeliveryInv /\ [Next]_vars => [A]_vars
  <2> SUFFICES ASSUME TypeOK, DeliveryInv, Next PROVE A
    BY DEF vars
  <2> USE DEF broker, history
  <2>a. len \in Nat /\ len <= MaxEntries /\ MaxEntries \in Nat /\ pel \in [Ids -> Nat]
        /\ Published \subseteq Ids /\ None \notin Subs
    BY DeliveryAssumption DEF TypeOK, Published, Ids
  <2>b. UNCHANGED <<pel, board>> => A
    BY <2>a
  <2>1. ASSUME NEW k \in Kinds, Publish(k) PROVE A
    <3> SUFFICES ASSUME NEW p \in Published PROVE pel'[p] = pel[p] /\ board'[p] = board[p]
      BY <2>a
    <3>1. p # len' /\ p \in Ids
      BY <2>1, <2>a DEF Publish, Published
    <3> QED BY <2>1, <3>1 DEF Publish, TypeOK
  <2>2. ASSUME Purge \/ Tick \/ Expire PROVE A
    BY <2>2, <2>b DEF Purge, Tick, Expire
  <2>c. ASSUME NEW s \in Subs, lease = s, NEW pc, run[s].pc # pc, run'[s].pc = pc PROVE A
    BY <2>c, <2>a
  <2>d. ASSUME NEW s \in Subs, NEW pc, GoTo(s, pc) PROVE run'[s].pc = pc
    BY <2>d DEF GoTo, Step, TypeOK, RunState
  <2>e. ASSUME NEW s \in Subs, Step(s, Over(s)) PROVE run'[s].pc = "ended"
    BY <2>e DEF Step, Over, Idle, TypeOK
  <2>3. ASSUME NEW s \in Subs PROVE (\E m \in Modes : Start(s, m)) \/ Acquire(s) \/ Busy(s) \/ Enter(s)
                  \/ Poll(s) \/ NothingToRead(s) \/ Output(s) \/ OutputFails(s) \/ Fail(s) \/ Crash(s) => A
    BY <2>b DEF Start, Acquire, Busy, Enter, Poll, NothingToRead, Output, OutputFails, Fail, Crash
  <2>4. ASSUME NEW s \in Subs, Claim(s) PROVE A
    <3> DEFINE q == run[s].ev.p
    <3>1. (pel' = [pel EXCEPT ![q] = @ + 1] \/ pel' = pel) /\ board' = board
      BY <2>4 DEF Claim
    <3> HIDE DEF q
    <3>2. \A p \in Published : pel[p] > 0 => pel'[p] # 0
      BY <2>a, <3>1
    <3> QED BY <3>1, <3>2
  <2>5. ASSUME NEW s \in Subs, Read(s) PROVE A
    <3> DEFINE q == Oldest(Fetchable)
    <3>1. pel' = [pel EXCEPT ![q] = 1] /\ board' = board
      BY <2>5 DEF Read
    <3> HIDE DEF q
    <3> QED BY <2>a, <3>1
  <2>6. ASSUME NEW s \in Subs, Record(s) PROVE A
    <3>1. run[s].pc = "judge" /\ run'[s].pc = "output" /\ lease = s
      BY <2>6 DEF Record, At, Step, TypeOK, RunState
    <3> QED BY <3>1, <2>c
  <2>7. ASSUME NEW s \in Subs, Skip(s) PROVE A
    <3>1. run[s].pc = "judge" /\ run'[s].pc = "poll" /\ lease = s
      BY <2>7, <2>d DEF Skip, At
    <3> QED BY <3>1, <2>c
  <2>8. ASSUME NEW s \in Subs, Finish(s) PROVE A
    <3>1. run[s].pc = "settle" /\ run'[s].pc \in {"poll", "ended"} /\ lease = s
      BY <2>8, <2>d, <2>e DEF Finish, At, Leave
    <3> QED BY <3>1, <2>c
  <2> QED BY <2>1, <2>2, <2>3, <2>4, <2>5, <2>6, <2>7, <2>8 DEF Next, SubStep
<1> QED BY <1>1, TypeCorrect, InvCorrect, PTL DEF Spec, OnlyHolderSettles

(***************************************************************************)
(* What a person wrote, and what the board says of a request.              *)
(***************************************************************************)

\* Only a one-shot subscribe has a floor (subscribe.go: the others pass none).
Floored(r) == r.floor # NoFloor => r.mode \in {"once", "since"}
\* An entry is taken for missing only once its body is gone.
Judged(r, gone) ==
    r.pc = "judge" => /\ r.ev.delivery \in {"uncertain", "missing"}
                      /\ r.ev.delivery = "missing" => r.ev.p <= gone
PersonInv == PersonKept /\ \A s \in Subs : Floored(run[s]) /\ Judged(run[s], trimmed)

\* What a run at its output is about to write, and what it wrote once it settles.
Mark(s) == [by |-> s, recovered |-> run[s].ev.recovered, delivery |-> run[s].ev.delivery]
Writers(p) == {s \in Subs : At(s, "output") /\ Entry(s) = p}
Promised(p) == outputs[p] \cup {Mark(s) : s \in Writers(p)}

\* The board counts a write before it is made, as what it will be; two writes that
\* it does not know to be one and the same are flagged.
Counted(p) ==
    /\ IsFiniteSet(Promised(p)) /\ Cardinality(Promised(p)) <= board[p].attempts
    /\ \A w \in Promised(p) : w.recovered => board[p].duplicate
    /\ board[p].delivery = "output_written" => \E w \in outputs[p] : w.delivery = "uncertain"
    /\ board[p].delivery \in {"missing", "expired"} /\ ~board[p].duplicate =>
         \A w \in Promised(p) : w.delivery = board[p].delivery
SettledWrote == \A s \in Subs : At(s, "settle") => Mark(s) \in outputs[Entry(s)]
BoardInv == SettledWrote /\ \A p \in Ids : OnBoard(p) => Counted(p)

\* The steps by which a run comes to hold no entry that it judges, writes or
\* settles.
Aside(s) ==
    \/ \E m \in Modes : Start(s, m)
    \/ Acquire(s) \/ Busy(s) \/ Enter(s) \/ Poll(s) \/ NothingToRead(s) \/ Skip(s) \/ Fail(s) \/ Crash(s)

\* A run that is over has no floor, and holds nothing.
LEMMA OverFloored ==
    ASSUME NEW s \in Subs
    PROVE  /\ Over(s).pc = "ended" /\ Floored(Over(s))
           /\ \A d, m : LET r == [Over(s) EXCEPT !.drained = d, !.mark = m] IN r.pc = "ended" /\ Floored(r)
BY DEF Over, Idle, Floored

\* Moving on keeps a run's floor, its mode and its entry.
LEMMA GoToKeeps ==
    ASSUME TypeOK, NEW s \in Subs, NEW pc, GoTo(s, pc)
    PROVE  \E r : /\ Step(s, r) /\ r.pc = pc /\ r.floor = run[s].floor /\ r.mode = run[s].mode
                  /\ r.ev = run[s].ev
<1>1. run[s] \in RunState
  BY DEF TypeOK
<1> DEFINE r == [run[s] EXCEPT !.pc = pc]
<1>2. r.pc = pc /\ r.floor = run[s].floor /\ r.mode = run[s].mode /\ r.ev = run[s].ev
  BY <1>1 DEF RunState
<1>3. Step(s, r)
  BY DEF GoTo
<1> QED BY <1>2, <1>3

\* A step aside leaves the stream, the board and the outputs alone.
LEMMA AsideStep ==
    ASSUME TypeOK, NEW s \in Subs, Aside(s), Floored(run[s])
    PROVE  /\ \E r : Step(s, r) /\ r.pc \notin {"judge", "output", "settle"} /\ Floored(r)
           /\ UNCHANGED <<clock, len, cmd, trimmed, board, outputs>>
           /\ Skip(s) \/ UNCHANGED acked
<1> USE DEF broker, history
<1>1. UNCHANGED <<clock, len, cmd, trimmed, board, outputs>> /\ (Skip(s) \/ UNCHANGED acked)
  BY DEF Aside, Start, Acquire, Busy, Enter, Poll, NothingToRead, Skip, Fail, Crash
<1>g. ASSUME NEW pc \in {"poll", "enter", "read"}, GoTo(s, pc)
      PROVE  \E r : Step(s, r) /\ r.pc \notin {"judge", "output", "settle"} /\ Floored(r)
  <2>1. PICK r : Step(s, r) /\ r.pc = pc /\ r.floor = run[s].floor /\ r.mode = run[s].mode
    BY <1>g, GoToKeeps
  <2>2. Floored(r)
    BY <2>1 DEF Floored
  <2> QED BY <2>1, <2>2
<1>o. ASSUME NEW d, NEW m, Step(s, Over(s)) \/ Step(s, [Over(s) EXCEPT !.drained = d, !.mark = m])
      PROVE  \E r : Step(s, r) /\ r.pc \notin {"judge", "output", "settle"} /\ Floored(r)
  <2>1. Over(s).pc = "ended" /\ Floored(Over(s))
    BY OverFloored
  <2>2. [Over(s) EXCEPT !.drained = d, !.mark = m].pc = "ended" /\ Floored([Over(s) EXCEPT !.drained = d, !.mark = m])
    BY OverFloored
  <2> QED BY <1>o, <2>1, <2>2
<1>2. \E r : Step(s, r) /\ r.pc \notin {"judge", "output", "settle"} /\ Floored(r)
  <2>1. ASSUME NEW m \in Modes, Start(s, m)
        PROVE  \E r : Step(s, r) /\ r.pc \notin {"judge", "output", "settle"} /\ Floored(r)
    <3>1. PICK f : /\ f \in CASE m = "once" -> {<<clock, 0>>}
                              [] m = "since" -> {cmd[p].id : p \in Published}
                              [] OTHER -> {NoFloor}
                   /\ Step(s, [Idle EXCEPT !.pc = "acquire", !.mode = m, !.floor = f, !.mark = len])
      BY <2>1 DEF Start
    <3> DEFINE r == [Idle EXCEPT !.pc = "acquire", !.mode = m, !.floor = f, !.mark = len]
    <3>2. r.pc = "acquire" /\ r.mode = m /\ r.floor = f
      BY DEF Idle
    <3>3. f # NoFloor => m \in {"once", "since"}
      BY <3>1
    <3> HIDE DEF r
    <3>4. Floored(r)
      BY <3>2, <3>3 DEF Floored
    <3>5. Step(s, r)
      BY <3>1 DEF r
    <3> QED BY <3>2, <3>4, <3>5
  <2>2. CASE Acquire(s)
    BY <2>2, <1>g DEF Acquire
  <2>3. CASE Busy(s) \/ Fail(s) \/ Crash(s)
    BY <2>3, <1>g, <1>o DEF Busy, Fail, Crash, EndsOrRetries, Leave
  <2>4. CASE Enter(s) \/ Skip(s)
    BY <2>4, <1>g DEF Enter, Skip
  <2>5. CASE Poll(s)
    <3>1. CASE Pending = {}
      BY <2>5, <3>1, <1>g DEF Poll
    <3>2. CASE Pending # {}
      <4> DEFINE e == [NoEvent EXCEPT !.p = Oldest(Pending), !.recovered = TRUE,
                                      !.attempt = pel[Oldest(Pending)] + 1]
                 r == [run[s] EXCEPT !.pc = "claim", !.ev = e]
      <4>1. Step(s, r)
        BY <2>5, <3>2 DEF Poll
      <4> HIDE DEF e
      <4>2. r.pc = "claim" /\ r.floor = run[s].floor /\ r.mode = run[s].mode
        BY DEF TypeOK, RunState
      <4> HIDE DEF r
      <4> QED BY <4>1, <4>2 DEF Floored
    <3> QED BY <3>1, <3>2
  <2>6. CASE NothingToRead(s)
    BY <2>6, <1>g, <1>o DEF NothingToRead, Leave
  <2> QED BY <2>1, <2>2, <2>3, <2>4, <2>5, <2>6 DEF Aside
<1> QED BY <1>1, <1>2

\* A run that takes an entry up knows whether its body is there.
LEMMA TakeStep ==
    ASSUME TypeOK, DeliveryInv, NEW s \in Subs, Claim(s) \/ Read(s), Floored(run[s])
    PROVE  /\ \E r : /\ Step(s, r) /\ r.pc = "judge" /\ Floored(r) /\ Judged(r, trimmed)
           /\ UNCHANGED <<clock, len, cmd, trimmed, board, outputs, acked>>
<1> USE DEF broker, history
<1>1. UNCHANGED <<clock, len, cmd, trimmed, board, outputs, acked>>
  BY DEF Claim, Read
<1>2. run[s] \in RunState /\ trimmed \in Nat /\ len \in Nat
  BY DeliveryAssumption DEF TypeOK
<1>3. CASE Claim(s)
  <2> DEFINE d == IF Retained(Entry(s)) THEN "uncertain" ELSE "missing"
             r == [run[s] EXCEPT !.pc = "judge", !.ev.delivery = d]
  <2>1. Step(s, r)
    BY <1>3 DEF Claim, Entry
  <2>2. Entry(s) \in Published
    BY <1>3 DEF Claim, At, DeliveryInv, Located
  <2>3. d \in {"uncertain", "missing"} /\ (d = "missing" => Entry(s) <= trimmed)
    BY <1>2, <2>2 DEF Retained, Published
  <2> HIDE DEF d
  <2>4. r.pc = "judge" /\ r.floor = run[s].floor /\ r.mode = run[s].mode
        /\ r.ev.delivery = d /\ r.ev.p = Entry(s)
    BY <1>2 DEF RunState, Event, Entry
  <2> HIDE DEF r
  <2>5. Floored(r) /\ Judged(r, trimmed)
    BY <2>3, <2>4 DEF Floored, Judged
  <2> QED BY <1>1, <2>1, <2>4, <2>5
<1>4. CASE Read(s)
  <2> DEFINE e == [NoEvent EXCEPT !.p = Oldest(Fetchable), !.attempt = 1, !.delivery = "uncertain"]
             r == [run[s] EXCEPT !.pc = "judge", !.ev = e]
  <2>1. Step(s, r)
    BY <1>4 DEF Read
  <2>2. e.delivery = "uncertain"
    BY DEF NoEvent
  <2> HIDE DEF e
  <2>3. r.pc = "judge" /\ r.floor = run[s].floor /\ r.mode = run[s].mode /\ r.ev = e
    BY <1>2 DEF RunState
  <2> HIDE DEF r
  <2>4. Floored(r) /\ Judged(r, trimmed)
    BY <2>2, <2>3 DEF Floored, Judged
  <2> QED BY <1>1, <2>1, <2>3, <2>4
<1> QED BY <1>3, <1>4

\* A recorded entry goes to output as what the board has it for.
LEMMA RecordStep ==
    ASSUME TypeOK, NEW s \in Subs, Record(s), Floored(run[s])
    PROVE  /\ \E r : /\ Step(s, r) /\ r.pc = "output" /\ Floored(r) /\ r.ev.p = Entry(s)
                     /\ r.ev.recovered = run[s].ev.recovered /\ r.ev.delivery = Delivered(s)
           /\ UNCHANGED <<clock, len, cmd, trimmed, outputs, acked>>
<1> USE DEF broker, history
<1> DEFINE d == Delivered(s)
           r == [run[s] EXCEPT !.pc = "output", !.ev.delivery = d]
<1>1. Step(s, r) /\ UNCHANGED <<clock, len, cmd, trimmed, outputs, acked>>
  BY DEF Record
<1> HIDE DEF d
<1>2. run[s] \in RunState
  BY DEF TypeOK
<1>3. r.pc = "output" /\ r.floor = run[s].floor /\ r.mode = run[s].mode
      /\ r.ev.delivery = d /\ r.ev.p = Entry(s) /\ r.ev.recovered = run[s].ev.recovered
  BY <1>2 DEF RunState, Event, Entry
<1> HIDE DEF r
<1>4. Floored(r)
  BY <1>3 DEF Floored
<1> QED BY <1>1, <1>3, <1>4 DEF d

\* The output is the promised write, or, failing, perhaps none; only a write goes on
\* to be settled.
LEMMA OutputStep ==
    ASSUME TypeOK, NEW s \in Subs, Output(s) \/ OutputFails(s), Floored(run[s])
    PROVE  /\ \E r : /\ Step(s, r) /\ Floored(r)
                     /\ \/ r.pc = "settle" /\ r.ev = run[s].ev /\ outputs' = Written(s)
                        \/ r.pc \in {"poll", "ended"} /\ outputs' \in {outputs, Written(s)}
           /\ At(s, "output")
           /\ UNCHANGED <<clock, len, cmd, trimmed, board, acked>>
<1> USE DEF broker, history
<1>1. At(s, "output") /\ UNCHANGED <<clock, len, cmd, trimmed, board, acked>>
      /\ outputs' \in {outputs, Written(s)}
  BY DEF Output, OutputFails
<1>2. CASE GoTo(s, "settle") /\ outputs' = Written(s)
  <2>1. PICK r : Step(s, r) /\ r.pc = "settle" /\ r.floor = run[s].floor /\ r.mode = run[s].mode
                 /\ r.ev = run[s].ev
    BY <1>2, GoToKeeps
  <2>2. Floored(r)
    BY <2>1 DEF Floored
  <2> QED BY <1>1, <1>2, <2>1, <2>2
<1>3. CASE GoTo(s, "poll")
  <2>1. PICK r : Step(s, r) /\ r.pc = "poll" /\ r.floor = run[s].floor /\ r.mode = run[s].mode
    BY <1>3, GoToKeeps
  <2>2. Floored(r)
    BY <2>1 DEF Floored
  <2> QED BY <1>1, <2>1, <2>2
<1>4. CASE Step(s, Over(s))
  BY <1>1, <1>4, OverFloored
<1> QED BY <1>2, <1>3, <1>4 DEF Output, OutputFails, EndsOrRetries, Leave

\* What is settled is over for the run, or it polls again.
LEMMA FinishStep ==
    ASSUME TypeOK, NEW s \in Subs, Finish(s), Floored(run[s])
    PROVE  /\ \E r : Step(s, r) /\ r.pc \in {"poll", "ended"} /\ Floored(r)
           /\ UNCHANGED <<clock, len, cmd, trimmed, outputs>>
<1> USE DEF broker, history
<1>1. UNCHANGED <<clock, len, cmd, trimmed, outputs>>
  BY DEF Finish
<1>2. CASE GoTo(s, "poll")
  <2>1. PICK r : Step(s, r) /\ r.pc = "poll" /\ r.floor = run[s].floor /\ r.mode = run[s].mode
    BY <1>2, GoToKeeps
  <2>2. Floored(r)
    BY <2>1 DEF Floored
  <2> QED BY <1>1, <2>1, <2>2
<1>3. CASE Step(s, Over(s))
  BY <1>1, <1>3, OverFloored
<1> QED BY <1>2, <1>3 DEF Finish, Leave

\* What the publishers, the retention and the clock do: the stream grows and loses
\* its oldest bodies, and a request that is new has no attempts.
Bus == (\E k \in Kinds : Publish(k)) \/ Purge \/ Tick \/ Expire
LEMMA BusStep ==
    ASSUME TypeOK, Bus
    PROVE  /\ UNCHANGED <<run, outputs, acked>>
           /\ len' \in Nat /\ len <= len' /\ trimmed' \in Nat /\ trimmed <= trimmed' /\ trimmed' <= len'
           /\ \A p \in Published : cmd'[p] = cmd[p] /\ board'[p] = board[p]
           /\ \A p \in Ids : board'[p].attempts = board[p].attempts /\ board'[p].duplicate = board[p].duplicate
           /\ \A p \in Ids \ Published : \/ cmd'[p] = cmd[p] /\ board'[p] = board[p]
                                         \/ board'[p].delivery \in {"none", "queued"}
<1> USE DEF broker, history
<1>a. len \in Nat /\ trimmed \in Nat /\ trimmed <= len /\ MaxEntries \in Nat
      /\ board \in [Ids -> BoardEntry] /\ cmd \in [Ids -> [kind : Kinds \cup {"none"}, id : StreamId]]
  BY DeliveryAssumption DEF TypeOK
<1>1. ASSUME NEW k \in Kinds, Publish(k)
      PROVE  /\ len' = len + 1 /\ trimmed' \in Nat /\ trimmed <= trimmed' /\ trimmed' <= len'
             /\ UNCHANGED <<run, outputs, acked>>
             /\ \A p \in Ids : p # len' => cmd'[p] = cmd[p] /\ board'[p] = board[p]
             /\ \A p \in Ids : board'[p].attempts = board[p].attempts /\ board'[p].duplicate = board[p].duplicate
             /\ \A p \in Ids : p = len' => board'[p].delivery \in {"none", "queued"}
  <2>1. len' = len + 1 /\ UNCHANGED <<run, outputs, acked>>
    BY <1>1 DEF Publish
  <2>2. trimmed' \in Nat /\ trimmed <= trimmed' /\ trimmed' <= len'
    BY <1>1, <1>a, <2>1, DeliveryAssumption DEF Publish
  <2>3. \A p \in Ids : p # len' => cmd'[p] = cmd[p]
    BY <1>1, <1>a DEF Publish
  <2> DEFINE d == IF Tracked(k) THEN "queued" ELSE "none"
  <2>4. board' = [board EXCEPT ![len'].delivery = d] /\ d \in {"none", "queued"}
    BY <1>1 DEF Publish
  <2> HIDE DEF d
  <2>5. \A p \in Ids : board[p] \in BoardEntry
    BY <1>a
  <2>6. \A p \in Ids : /\ p # len' => board'[p] = board[p]
                       /\ p = len' => board'[p] = [board[p] EXCEPT !.delivery = d]
    BY <1>a, <2>4
  <2>7. \A p \in Ids : board'[p].attempts = board[p].attempts /\ board'[p].duplicate = board[p].duplicate
    BY <2>5, <2>6 DEF BoardEntry
  <2>8. \A p \in Ids : p = len' => board'[p].delivery = d
    BY <2>5, <2>6 DEF BoardEntry
  <2> QED BY <2>1, <2>2, <2>3, <2>4, <2>6, <2>7, <2>8
<1>2. CASE \E k \in Kinds : Publish(k)
  <2>1. len' = len + 1
    BY <1>1, <1>2
  <2>2. \A p \in Published : p \in Ids /\ p # len'
    BY <1>1, <1>2, <1>a DEF Published, Ids, TypeOK
  <2>3. len' \in Nat /\ len <= len'
    BY <1>a, <2>1
  <2> QED BY <1>1, <1>2, <2>2, <2>3
<1>3. CASE Purge \/ Tick \/ Expire
  <2>1. UNCHANGED <<run, outputs, acked, len, cmd, board>> /\ trimmed' \in {trimmed, len}
    BY <1>3 DEF Purge, Tick, Expire
  <2>2. len' \in Nat /\ len <= len' /\ trimmed' \in Nat /\ trimmed <= trimmed' /\ trimmed' <= len'
    BY <1>a, <2>1
  <2> QED BY <2>1, <2>2
<1> QED BY <1>2, <1>3 DEF Bus

\* The kinds of step there are.
LEMMA NextShape ==
    ASSUME [Next]_vars
    PROVE  \/ Bus \/ UNCHANGED vars
           \/ \E s \in Subs : \/ Aside(s) \/ Claim(s) \/ Read(s) \/ Record(s)
                              \/ Output(s) \/ OutputFails(s) \/ Finish(s)
BY DEF Next, SubStep, Bus, Aside

\* A skip of what a person wrote is of an entry below the floor of a run told
\* --since, without a body, or older than the horizon at the floor
\* (delivery.go:212-217).
LEMMA SkipKeepsPerson ==
    ASSUME TypeOK, DeliveryInv, PersonInv, NEW s \in Subs, Skip(s)
    PROVE  PersonKept'
<1> DEFINE p == Entry(s)
           r == run[s]
           a == [how |-> "skip", mode |-> r.mode, floor |-> r.floor]
<1>1. /\ UNCHANGED <<clock, len, cmd, trimmed>> /\ r.pc = "judge" /\ (Below(s) \/ Elsewhere(s))
      /\ p \in Published
  BY DEF Skip, At, broker, DeliveryInv, Located
<1>2. p \in Ids /\ len \in Nat /\ trimmed \in Nat /\ r \in RunState
      /\ acked \in [Ids -> [how : {"no", "skip", "finish"}, mode : Modes \cup {"none"},
                            floor : StreamId]]
  BY <1>1, DeliveryAssumption DEF TypeOK, Published, Ids
<1>3. acked' = [acked EXCEPT ![p] = a] \/ acked' = acked
  BY DEF Skip, Ack
<1>4. a.how = "skip" /\ a.mode = r.mode /\ a.floor = r.floor
  OBVIOUS
<1> HIDE DEF a
<1>5. ASSUME cmd[p].kind = "person"
      PROVE  \/ r.mode = "since" \/ ~Retained(p) \/ r.floor[1] > cmd[p].id[1] + Horizon
  <2>1. Below(s)
    BY <1>1, <1>5 DEF Elsewhere, Mine
  <2>2. r.mode \in {"once", "since"}
    <3>1. r.floor # NoFloor
      BY <2>1 DEF Below, aboveFloor
    <3> QED BY <3>1 DEF PersonInv, Floored
  <2>3. ASSUME r.mode = "once", Retained(p) PROVE r.floor[1] > cmd[p].id[1] + Horizon
    <3>1. r.ev.delivery = "uncertain"
      <4>1. /\ r.ev.delivery \in {"uncertain", "missing"}
            /\ r.ev.delivery = "missing" => p <= trimmed
        BY <1>1 DEF PersonInv, Judged, Entry
      <4>2. p > trimmed
        BY <2>3 DEF Retained
      <4>3. p \in Nat
        BY <1>2 DEF Ids
      <4> HIDE DEF p, r
      <4> QED BY <1>2, <4>1, <4>2, <4>3
    <3>2. ~Expired(p)
      BY <1>5 DEF Expired
    <3>3. Delivered(s) = "uncertain"
      BY <3>1, <3>2 DEF Delivered, Entry
    <3> DEFINE e == [r.ev EXCEPT !.delivery = Delivered(s)]
    <3>4. e.p = p /\ e.delivery = "uncertain"
      BY <1>2, <3>3 DEF RunState, Event, Entry
    <3>5. ~keptForPerson(s, e)
      BY <2>1 DEF Below
    <3> HIDE DEF e
    <3>6. ~(r.floor[1] <= cmd[p].id[1] + Horizon)
      BY <1>5, <2>3, <3>4, <3>5 DEF keptForPerson
    <3>7. r.floor[1] \in Nat /\ cmd[p].id[1] \in Nat /\ Horizon \in Nat
      <4>1. r.floor \in StreamId /\ cmd[p].id \in StreamId
        BY <1>2 DEF TypeOK, RunState
      <4> QED BY <4>1, DeliveryAssumption DEF StreamId
    <3> QED BY <3>6, <3>7
  <2> QED BY <2>2, <2>3
<1>6. ASSUME NEW q \in Ids, acked'[q].how = "skip", cmd[q].kind = "person"
      PROVE  \/ acked'[q].mode = "since" \/ ~Retained(q)
             \/ acked'[q].floor[1] > cmd[q].id[1] + Horizon
  <2>1. CASE acked'[q] = acked[q]
    BY <1>6, <2>1 DEF PersonInv, PersonKept
  <2>2. CASE q = p /\ acked'[q] = a
    BY <1>4, <1>5, <1>6, <2>2
  <2> QED BY <1>2, <1>3, <2>1, <2>2
<1> QED BY <1>1, <1>6 DEF PersonKept, Retained

\* Every step keeps it, and what the runs know of floors and bodies.
LEMMA PersonStep ==
    ASSUME TypeOK, DeliveryInv, PersonInv, [Next]_vars
    PROVE  PersonInv'
<1>a. /\ len \in Nat /\ trimmed \in Nat /\ trimmed <= len /\ run \in [Subs -> RunState]
      /\ \A s \in Subs : run[s].ev.p \in Nat
  BY DeliveryAssumption DEF TypeOK, RunState, Event, Ids
<1>b. ASSUME NEW s \in Subs, NEW r, Step(s, r), Floored(r), Judged(r, trimmed), trimmed' = trimmed
      PROVE  \A t \in Subs : Floored(run'[t]) /\ Judged(run'[t], trimmed')
  <2>1. run'[s] = r /\ \A t \in Subs : t # s => run'[t] = run[t]
    BY <1>b, FetchKeepsOthers
  <2> QED BY <1>b, <2>1 DEF PersonInv
<1>c. ASSUME UNCHANGED <<cmd, acked, trimmed, len>> PROVE PersonKept'
  BY <1>c DEF PersonInv, PersonKept, Retained
<1>1. CASE Bus
  <2>1. /\ UNCHANGED <<run, acked>> /\ len' \in Nat /\ len <= len' /\ trimmed' \in Nat
        /\ trimmed <= trimmed' /\ \A p \in Published : cmd'[p] = cmd[p]
    BY <1>1, BusStep
  <2>2. \A s \in Subs : Floored(run'[s]) /\ Judged(run'[s], trimmed')
    BY <1>a, <2>1 DEF PersonInv, Judged
  <2>3. PersonKept'
    <3> SUFFICES ASSUME NEW p \in Ids, acked[p].how = "skip", cmd'[p].kind = "person"
                 PROVE  \/ acked[p].mode = "since" \/ ~Retained(p)'
                        \/ acked[p].floor[1] > cmd'[p].id[1] + Horizon
      BY <2>1 DEF PersonKept
    <3>1. p \in Published
      BY DEF DeliveryInv, Placed
    <3>2. ~Retained(p) => ~Retained(p)'
      BY <1>a, <2>1, <3>1 DEF Retained, Published
    <3> QED BY <2>1, <3>1, <3>2 DEF PersonInv, PersonKept
  <2> QED BY <2>2, <2>3 DEF PersonInv
<1>2. CASE UNCHANGED vars
  BY <1>2 DEF vars, PersonInv, PersonKept, Retained
<1>3. ASSUME NEW s \in Subs, Aside(s) PROVE PersonInv'
  <2>1. /\ \E r : Step(s, r) /\ r.pc \notin {"judge", "output", "settle"} /\ Floored(r)
        /\ UNCHANGED <<clock, len, cmd, trimmed, board, outputs>>
        /\ Skip(s) \/ UNCHANGED acked
    BY <1>3, AsideStep DEF PersonInv
  <2>2. \A t \in Subs : Floored(run'[t]) /\ Judged(run'[t], trimmed')
    BY <1>b, <2>1 DEF Judged
  <2>3. PersonKept'
    BY <1>c, <2>1, SkipKeepsPerson
  <2> QED BY <2>2, <2>3 DEF PersonInv
<1>4. ASSUME NEW s \in Subs, Claim(s) \/ Read(s) PROVE PersonInv'
  BY <1>4, <1>b, <1>c, TakeStep DEF PersonInv
<1>5. ASSUME NEW s \in Subs, Record(s) PROVE PersonInv'
  <2>1. /\ \E r : Step(s, r) /\ r.pc = "output" /\ Floored(r)
        /\ UNCHANGED <<clock, len, cmd, trimmed, outputs, acked>>
    BY <1>5, RecordStep DEF PersonInv
  <2> QED BY <1>b, <1>c, <2>1 DEF PersonInv, Judged
<1>6. ASSUME NEW s \in Subs, Output(s) \/ OutputFails(s) PROVE PersonInv'
  <2>1. /\ \E r : Step(s, r) /\ r.pc # "judge" /\ Floored(r)
        /\ UNCHANGED <<clock, len, cmd, trimmed, board, acked>>
    BY <1>6, OutputStep DEF PersonInv
  <2> QED BY <1>b, <1>c, <2>1 DEF PersonInv, Judged
<1>7. ASSUME NEW s \in Subs, Finish(s) PROVE PersonInv'
  <2>1. /\ \E r : Step(s, r) /\ r.pc \in {"poll", "ended"} /\ Floored(r)
        /\ UNCHANGED <<clock, len, cmd, trimmed, outputs>>
    BY <1>7, FinishStep DEF PersonInv
  <2>2. \A t \in Subs : Floored(run'[t]) /\ Judged(run'[t], trimmed')
    BY <1>b, <2>1 DEF Judged
  <2>3. PersonKept'
    <3> SUFFICES ASSUME NEW p \in Ids, acked'[p].how = "skip", cmd[p].kind = "person"
                 PROVE  \/ acked'[p].mode = "since" \/ ~Retained(p)
                        \/ acked'[p].floor[1] > cmd[p].id[1] + Horizon
      BY <2>1 DEF PersonKept, Retained
    <3>1. acked'[p] = acked[p]
      <4> DEFINE a == [how |-> "finish", mode |-> run[s].mode, floor |-> run[s].floor]
      <4>1. acked' = [acked EXCEPT ![Entry(s)] = a] \/ acked' = acked
        BY <1>7 DEF Finish, Ack
      <4>2. a.how = "finish"
        OBVIOUS
      <4>3. DOMAIN acked = Ids
        BY DEF TypeOK
      <4> HIDE DEF a
      <4> QED BY <4>1, <4>2, <4>3
    <3> QED BY <3>1 DEF PersonInv, PersonKept
  <2> QED BY <2>2, <2>3 DEF PersonInv
<1> QED BY <1>1, <1>2, <1>3, <1>4, <1>5, <1>6, <1>7, NextShape

\* What a person wrote to the agent is acknowledged unseen only by a run told
\* --since, once its body is gone, or when older than the horizon at the floor:
\* whatever runs come, overlap, lose the lease or die (delivery.go:212-217).
THEOREM PersonKeptCorrect == Spec => []PersonKept
<1>1. Init => PersonInv
  BY DEF Init, PersonInv, PersonKept, Floored, Judged, Idle, NoAck
<1>2. TypeOK /\ DeliveryInv /\ PersonInv /\ [Next]_vars => PersonInv'
  BY PersonStep
<1>3. PersonInv => PersonKept
  BY DEF PersonInv
<1> QED BY <1>1, <1>2, <1>3, TypeCorrect, InvCorrect, PTL DEF Spec

\* The mark of a run is that of the event it holds.
LEMMA MarkIs ==
    ASSUME TypeOK, NEW s \in Subs, NEW r, Step(s, r)
    PROVE  /\ r.ev = run[s].ev => Mark(s)' = Mark(s) /\ Entry(s)' = Entry(s)
           /\ Mark(s)' = [by |-> s, recovered |-> r.ev.recovered, delivery |-> r.ev.delivery]
           /\ Entry(s)' = r.ev.p
           /\ \A pc : At(s, pc)' <=> r.pc = pc
           /\ \A t \in Subs : t # s => /\ Mark(t)' = Mark(t) /\ Entry(t)' = Entry(t)
                                       /\ \A pc : At(t, pc)' <=> At(t, pc)
BY FetchKeepsOthers DEF Mark, Entry, At

\* A run that leaves its output, having written what it promised or not, promises
\* nothing more; the others promise what they did.
LEMMA PromisedLess ==
    ASSUME TypeOK, NEW s \in Subs, NEW r, Step(s, r), r.pc # "output", NEW p,
           \/ outputs'[p] = outputs[p]
           \/ At(s, "output") /\ Entry(s) = p /\ outputs'[p] = outputs[p] \cup {Mark(s)}
    PROVE  Promised(p)' \subseteq Promised(p) /\ outputs[p] \subseteq outputs'[p]
<1>1. \A t \in Subs : At(t, "output")' /\ Entry(t)' = p => t # s /\ t \in Writers(p) /\ Mark(t)' = Mark(t)
  BY MarkIs DEF Writers
<1>2. At(s, "output") /\ Entry(s) = p => Mark(s) \in Promised(p)
  BY DEF Promised, Writers
<1>3. outputs'[p] \subseteq Promised(p) /\ outputs[p] \subseteq outputs'[p]
  BY <1>2 DEF Promised
<1>4. ASSUME NEW w \in Promised(p)' PROVE w \in Promised(p)
  <2>1. CASE w \in outputs'[p]
    BY <1>3, <2>1
  <2>2. CASE w \in {Mark(t)' : t \in {x \in Subs : At(x, "output")' /\ Entry(x)' = p}}
    BY <1>1, <2>2 DEF Promised
  <2> QED BY <2>1, <2>2 DEF Promised, Writers
<1> QED BY <1>3, <1>4

\* Where fewer writes are promised and the board is as it was, it still counts them.
LEMMA CountedLess ==
    ASSUME NEW p, Counted(p), Promised(p)' \subseteq Promised(p), outputs[p] \subseteq outputs'[p],
           board'[p] = board[p], board[p].attempts \in Nat
    PROVE  Counted(p)'
<1>1. IsFiniteSet(Promised(p)') /\ Cardinality(Promised(p)') <= Cardinality(Promised(p))
  BY FS_Subset DEF Counted
<1>2. Cardinality(Promised(p)) \in Nat /\ Cardinality(Promised(p)') \in Nat
  BY <1>1, FS_CardinalityType DEF Counted
<1>3. Cardinality(Promised(p)') <= board'[p].attempts
  BY <1>1, <1>2 DEF Counted
<1>4. IsFiniteSet(Promised(p))'
  BY <1>1
<1> QED BY <1>3, <1>4 DEF Counted

\* At most one promised write of an entry is not marked recovered: a request that
\* is not flagged has one write, or none.
LEMMA OnePromised ==
    ASSUME TypeOK, DeliveryInv, NEW p \in Ids, NEW w \in Promised(p), NEW x \in Promised(p),
           ~w.recovered, ~x.recovered
    PROVE  w = x
<1>1. \A s \in Writers(p) : ~Mark(s).recovered => Fresh(s) /\ Entry(s) = p
  BY DEF Writers, Mark, Fresh, At
<1>2. \A s \in Writers(p), t \in Writers(p) : ~Mark(s).recovered /\ ~Mark(t).recovered => s = t
  BY <1>1 DEF DeliveryInv, OneFresh, Writers
<1>3. \A s \in Writers(p) : ~Mark(s).recovered => \A y \in outputs[p] : y.recovered
  BY <1>1 DEF DeliveryInv, FreshIsUnwritten, Writers
<1> QED BY <1>2, <1>3 DEF Promised, DeliveryInv, FirstWriteOnce

\* The record of an attempt, made before its output, counts and flags it
\* (deliveryRecord "attempt").
LEMMA RecordKeepsBoard ==
    ASSUME TypeOK, DeliveryInv, BoardInv, \A s \in Subs : Floored(run[s]), NEW s \in Subs, Record(s)
    PROVE  BoardInv'
<1> DEFINE p == Entry(s)
           d == Delivered(s)
           m == [by |-> s, recovered |-> run[s].ev.recovered, delivery |-> d]
<1>1. PICK r : /\ Step(s, r) /\ r.pc = "output" /\ r.ev.p = p
               /\ r.ev.recovered = run[s].ev.recovered /\ r.ev.delivery = d
  BY RecordStep
<1>2. UNCHANGED <<clock, len, cmd, trimmed, outputs, acked>> /\ At(s, "judge")
  BY RecordStep DEF Record
<1>3. p \in Ids /\ run[s].ev.recovered \in BOOLEAN /\ board \in [Ids -> BoardEntry]
  BY <1>2, DeliveryAssumption DEF At, DeliveryInv, Located, TypeOK, Published, Ids, RunState, Event
<1>4. /\ Mark(s)' = m /\ At(s, "output")' /\ Entry(s)' = p /\ ~At(s, "settle")'
      /\ \A t \in Subs : t # s => /\ Mark(t)' = Mark(t) /\ Entry(t)' = Entry(t)
                                  /\ \A pc : At(t, pc)' <=> At(t, pc)
  BY <1>1, MarkIs
<1>5. \A q : Promised(q)' = IF q = p THEN Promised(q) \cup {m} ELSE Promised(q)
  <2> SUFFICES ASSUME NEW q
               PROVE  Promised(q)' = IF q = p THEN Promised(q) \cup {m} ELSE Promised(q)
    OBVIOUS
  <2>1. s \notin Writers(q)
    BY <1>2 DEF Writers, At
  <2>2. Writers(q)' = IF q = p THEN Writers(q) \cup {s} ELSE Writers(q)
    BY <1>4, <2>1 DEF Writers
  <2>3. \A t \in Writers(q) : Mark(t)' = Mark(t)
    BY <1>4, <2>1 DEF Writers
  <2> HIDE DEF m
  <2>4. {Mark(t)' : t \in Writers(q)'} =
          IF q = p THEN {Mark(t) : t \in Writers(q)} \cup {m} ELSE {Mark(t) : t \in Writers(q)}
    BY <1>4, <2>2, <2>3
  <2>5. Promised(q)' = outputs'[q] \cup {Mark(t)' : t \in Writers(q)'}
    BY DEF Promised
  <2> QED BY <1>2, <2>4, <2>5 DEF Promised
<1>6. SettledWrote'
  BY <1>2, <1>4 DEF BoardInv, SettledWrote
<1>7. ASSUME NEW q \in Ids, OnBoard(q)' PROVE Counted(q)'
  <2>0. OnBoard(q) /\ Counted(q) /\ board[q] \in BoardEntry
    BY <1>2, <1>3, <1>7 DEF OnBoard, BoardInv
  <2>1. CASE q # p
    <3>1. board'[q] = board[q] /\ Promised(q)' = Promised(q)
      BY <1>3, <1>5, <2>1 DEF Record, Entry
    <3> QED BY <1>2, <2>0, <3>1, CountedLess DEF BoardEntry
  <2>2. CASE q = p
    <3> DEFINE b == [delivery |-> d, attempts |-> board[q].attempts + 1,
                     duplicate |-> board[q].duplicate \/ run[s].ev.recovered]
    <3>1. board'[q] = b
      BY <1>3, <2>0, <2>2 DEF Record, Entry
    <3>2. b.delivery = d /\ b.attempts = board[q].attempts + 1
          /\ b.duplicate = (board[q].duplicate \/ run[s].ev.recovered)
      OBVIOUS
    <3> HIDE DEF b
    <3>3. m.recovered = run[s].ev.recovered /\ m.delivery = d
      OBVIOUS
    <3> HIDE DEF m
    <3>4. Promised(q)' = Promised(q) \cup {m} /\ outputs'[q] = outputs[q]
      <4>1. outputs'[q] = outputs[q]
        BY <1>2
      <4> QED BY <1>5, <2>2, <4>1
    <3>5. IsFiniteSet(Promised(q)') /\ Cardinality(Promised(q)') <= board'[q].attempts
      <4>1. /\ IsFiniteSet(Promised(q) \cup {m})
            /\ Cardinality(Promised(q) \cup {m}) =
                 IF m \in Promised(q) THEN Cardinality(Promised(q)) ELSE Cardinality(Promised(q)) + 1
        BY <2>0, <2>2, FS_AddElement DEF Counted
      <4>2. Cardinality(Promised(q)) \in Nat
        BY <2>0, <2>2, FS_CardinalityType DEF Counted
      <4>3. Cardinality(Promised(q)) <= board[q].attempts /\ board[q].attempts \in Nat
        BY <2>0, <2>2 DEF Counted, BoardEntry
      <4> QED BY <3>1, <3>2, <3>4, <4>1, <4>2, <4>3
    <3>6. \A w \in Promised(q)' : w.recovered => board'[q].duplicate
      BY <2>0, <2>2, <3>1, <3>2, <3>3, <3>4 DEF Counted
    <3>7. d # "output_written"
      BY DEF Delivered, TypeOK, RunState, Event
    <3>8. ASSUME ~board'[q].duplicate PROVE Promised(q)' = {m}
      <4>1. Fresh(s) /\ ~board[q].duplicate
        BY <1>2, <3>1, <3>2, <3>8 DEF Fresh, At
      <4>2. \A w \in Promised(q) : ~w.recovered
        BY <2>0, <2>2, <4>1 DEF Counted
      <4>3. outputs[q] = {}
        BY <2>2, <4>1, <4>2 DEF DeliveryInv, FreshIsUnwritten, Promised
      <4>4. \A t \in Writers(q) : Fresh(t) /\ Entry(t) = q /\ t # s
        <5> SUFFICES ASSUME NEW t \in Writers(q) PROVE Fresh(t) /\ Entry(t) = q /\ t # s
          OBVIOUS
        <5>1. Mark(t) \in Promised(q)
          BY DEF Promised
        <5>2. ~run[t].ev.recovered
          BY <4>2, <5>1 DEF Mark
        <5> QED BY <1>2, <5>2 DEF Writers, Fresh, At
      <4>5. Writers(q) = {}
        BY <2>2, <4>1, <4>4 DEF DeliveryInv, OneFresh, Writers
      <4>6. Promised(q) = {}
        BY <4>3, <4>5 DEF Promised
      <4> QED BY <3>4, <4>6
    <3>9. board'[q].delivery \in {"missing", "expired"} /\ ~board'[q].duplicate =>
            \A w \in Promised(q)' : w.delivery = board'[q].delivery
      BY <3>1, <3>2, <3>3, <3>8
    <3>a. IsFiniteSet(Promised(q))' /\ (Cardinality(Promised(q)) <= board[q].attempts)'
      BY <3>5
    <3>b. board'[q].delivery # "output_written"
      BY <3>1, <3>2, <3>7
    <3> QED BY <3>6, <3>9, <3>a, <3>b DEF Counted
  <2> QED BY <2>1, <2>2
<1> QED BY <1>6, <1>7 DEF BoardInv

\* The settlement writes the outcome of a write that was made (deliveryRecord
\* "finish").
LEMMA FinishKeepsBoard ==
    ASSUME TypeOK, DeliveryInv, BoardInv, \A s \in Subs : Floored(run[s]), NEW s \in Subs, Finish(s)
    PROVE  BoardInv'
<1> DEFINE p == Entry(s)
           e == run[s].ev.delivery
           d == IF e = "uncertain" THEN "output_written" ELSE e
<1>1. PICK r : Step(s, r) /\ r.pc \in {"poll", "ended"}
  BY FinishStep
<1>2. UNCHANGED <<clock, len, cmd, trimmed, outputs>> /\ At(s, "settle")
  BY FinishStep DEF Finish
<1>3. p \in Ids /\ board \in [Ids -> BoardEntry]
  BY <1>2, DeliveryAssumption DEF At, DeliveryInv, Located, TypeOK, Published, Ids
<1>4. Mark(s) \in outputs[p] /\ Mark(s).delivery = e
  BY <1>2 DEF BoardInv, SettledWrote, Mark
<1>5. \A q : Promised(q)' \subseteq Promised(q)
  BY <1>1, <1>2, PromisedLess
<1>6. SettledWrote'
  <2>1. ~At(s, "settle")'
    BY <1>1, MarkIs
  <2>2. \A t \in Subs : t # s => /\ Mark(t)' = Mark(t) /\ Entry(t)' = Entry(t)
                                 /\ \A pc : At(t, pc)' <=> At(t, pc)
    BY <1>1, MarkIs
  <2> QED BY <1>2, <2>1, <2>2 DEF BoardInv, SettledWrote
<1>7. ASSUME NEW q \in Ids, OnBoard(q)' PROVE Counted(q)'
  <2>0. OnBoard(q) /\ Counted(q) /\ board[q] \in BoardEntry
    BY <1>2, <1>3, <1>7 DEF OnBoard, BoardInv
  <2>1. CASE board'[q] = board[q]
    BY <1>2, <1>5, <2>0, <2>1, CountedLess DEF BoardEntry
  <2>2. CASE board'[q] # board[q]
    <3> HIDE DEF d
    <3>1. q = p /\ board'[q] = [board[q] EXCEPT !.delivery = d]
      BY <1>3, <2>2 DEF Finish, Entry, d
    <3>2. board'[q].delivery = d /\ board'[q].attempts = board[q].attempts
          /\ board'[q].duplicate = board[q].duplicate
      BY <2>0, <3>1 DEF BoardEntry
    <3>3. IsFiniteSet(Promised(q)') /\ Cardinality(Promised(q)') <= board'[q].attempts
      <4>a. Promised(q)' \subseteq Promised(q) /\ IsFiniteSet(Promised(q))
        BY <1>5, <2>0 DEF Counted
      <4>1. IsFiniteSet(Promised(q)') /\ Cardinality(Promised(q)') <= Cardinality(Promised(q))
        BY <4>a, FS_Subset
      <4>2. Cardinality(Promised(q)) \in Nat /\ Cardinality(Promised(q)') \in Nat
        BY <2>0, <3>1, <4>1, FS_CardinalityType DEF Counted
      <4> QED BY <2>0, <3>1, <3>2, <4>1, <4>2 DEF Counted, BoardEntry
    <3>4. \A w \in Promised(q)' : w.recovered => board'[q].duplicate
      <4>1. \A w \in Promised(q) : w.recovered => board[q].duplicate
        BY <2>0 DEF Counted
      <4>2. Promised(q)' \subseteq Promised(q)
        BY <1>5
      <4> QED BY <3>2, <4>1, <4>2
    <3>5. d = "output_written" => \E w \in outputs[q] : w.delivery = "uncertain"
      <4>1. e # "output_written"
        BY DEF TypeOK, RunState, Event
      <4> QED BY <1>4, <3>1, <4>1 DEF d
    <3>6. ASSUME d \in {"missing", "expired"}, ~board'[q].duplicate
          PROVE  \A w \in Promised(q)' : w.delivery = d
      <4>1. \A w \in Promised(q) : ~w.recovered
        BY <2>0, <3>1, <3>2, <3>6 DEF Counted
      <4>2. Mark(s) \in Promised(q)
        BY <1>4, <3>1 DEF Promised
      <4>3. \A w \in Promised(q) : w = Mark(s)
        BY <1>3, <4>1, <4>2, OnePromised
      <4>4. d = e
        BY <3>6 DEF d
      <4>5. Promised(q)' \subseteq Promised(q)
        BY <1>5
      <4>6. Mark(s).delivery = d
        BY <1>4, <4>4
      <4> QED BY <4>3, <4>5, <4>6
    <3>7. IsFiniteSet(Promised(q))' /\ (Cardinality(Promised(q)) <= board[q].attempts)'
      BY <3>3
    <3>8. outputs'[q] = outputs[q]
      BY <1>2
    <3> QED BY <3>2, <3>4, <3>5, <3>6, <3>7, <3>8 DEF Counted
  <2> QED BY <2>1, <2>2
<1> QED BY <1>6, <1>7 DEF BoardInv

\* Every step keeps the board honest.
LEMMA BoardStep ==
    ASSUME TypeOK, DeliveryInv, BoardInv, \A s \in Subs : Floored(run[s]), [Next]_vars
    PROVE  BoardInv'
<1>a. board \in [Ids -> BoardEntry] /\ outputs \in [Ids -> SUBSET Write]
      /\ \A p \in Ids : board[p].attempts \in Nat
  BY DEF TypeOK, BoardEntry
<1>b. ASSUME NEW s \in Subs, NEW r, Step(s, r), r.pc # "output", UNCHANGED <<cmd, board>>,
             \A p \in Ids : \/ outputs'[p] = outputs[p]
                            \/ /\ At(s, "output") /\ Entry(s) = p
                               /\ outputs'[p] = outputs[p] \cup {Mark(s)},
             r.pc = "settle" => r.ev = run[s].ev /\ Mark(s) \in outputs'[Entry(s)]
      PROVE  BoardInv'
  <2>1. \A p \in Ids : Promised(p)' \subseteq Promised(p) /\ outputs[p] \subseteq outputs'[p]
    BY <1>b, PromisedLess
  <2>2. \A p \in Ids : OnBoard(p)' => Counted(p)'
    BY <1>a, <1>b, <2>1, CountedLess DEF BoardInv, OnBoard
  <2>3. SettledWrote'
    <3> SUFFICES ASSUME NEW t \in Subs, At(t, "settle")' PROVE Mark(t)' \in outputs'[Entry(t)']
      BY DEF SettledWrote
    <3>1. CASE t = s
      <4>1. r.pc = "settle"
        BY <1>b, <3>1, MarkIs
      <4>2. Mark(s)' = Mark(s) /\ Entry(s)' = Entry(s)
        BY <1>b, <4>1, MarkIs
      <4> QED BY <1>b, <3>1, <4>1, <4>2
    <3>2. CASE t # s
      <4>1. Mark(t)' = Mark(t) /\ Entry(t)' = Entry(t) /\ At(t, "settle")
        BY <1>b, <3>2, MarkIs
      <4>2. Entry(t) \in Ids /\ Mark(t) \in outputs[Entry(t)]
        BY <4>1, DeliveryAssumption
        DEF BoardInv, SettledWrote, DeliveryInv, Located, At, TypeOK, Published, Ids
      <4> QED BY <2>1, <4>1, <4>2
    <3> QED BY <3>1, <3>2
  <2> QED BY <2>2, <2>3 DEF BoardInv
<1>1. CASE Bus
  <2>1. UNCHANGED <<run, outputs>>
    BY <1>1, BusStep
  <2>2. /\ \A p \in Published : cmd'[p] = cmd[p] /\ board'[p] = board[p]
        /\ \A p \in Ids : board'[p].attempts = board[p].attempts /\ board'[p].duplicate = board[p].duplicate
        /\ \A p \in Ids \ Published : \/ cmd'[p] = cmd[p] /\ board'[p] = board[p]
                                      \/ board'[p].delivery \in {"none", "queued"}
    BY <1>1, BusStep
  <2>3. SettledWrote'
    BY <2>1 DEF BoardInv, SettledWrote, At, Mark, Entry
  <2>4. \A p : Promised(p)' = Promised(p)
    BY <2>1 DEF Promised, Writers, Mark, At, Entry
  <2>5. ASSUME NEW p \in Ids, OnBoard(p)' PROVE Counted(p)'
    <3>1. CASE cmd'[p] = cmd[p] /\ board'[p] = board[p]
      <4>1. Counted(p)
        BY <2>5, <3>1 DEF BoardInv, OnBoard
      <4>2. Promised(p)' \subseteq Promised(p) /\ outputs[p] \subseteq outputs'[p]
        BY <2>1, <2>4
      <4> QED BY <1>a, <3>1, <4>1, <4>2, CountedLess
    <3>2. CASE p \notin Published /\ board'[p].delivery \in {"none", "queued"}
      <4>1. outputs[p] = {} /\ Writers(p) = {}
        BY <3>2 DEF DeliveryInv, Placed, Located, Writers, At
      <4>2. Promised(p)' = {}
        BY <2>4, <4>1 DEF Promised
      <4>3. IsFiniteSet(Promised(p)') /\ Cardinality(Promised(p)') = 0
        BY <4>2, FS_EmptySet
      <4> QED BY <1>a, <2>2, <3>2, <4>2, <4>3 DEF Counted
    <3> QED BY <2>2, <3>1, <3>2
  <2> QED BY <2>3, <2>5 DEF BoardInv
<1>2. CASE UNCHANGED vars
  <2>1. UNCHANGED <<run, outputs, board, cmd>>
    BY <1>2 DEF vars
  <2>2. \A p : Promised(p)' = Promised(p) /\ OnBoard(p)' = OnBoard(p)
    BY <2>1 DEF Promised, Writers, Mark, At, Entry, OnBoard
  <2>3. SettledWrote'
    BY <2>1 DEF BoardInv, SettledWrote, At, Mark, Entry
  <2>4. \A p \in Ids : OnBoard(p)' => Counted(p)'
    BY <2>1, <2>2 DEF BoardInv, Counted
  <2> QED BY <2>3, <2>4 DEF BoardInv
<1>3. ASSUME NEW s \in Subs, Aside(s) PROVE BoardInv'
  <2>1. /\ \E r : Step(s, r) /\ r.pc \notin {"judge", "output", "settle"}
        /\ UNCHANGED <<cmd, board, outputs>>
    BY <1>3, AsideStep
  <2> QED BY <1>b, <2>1
<1>4. ASSUME NEW s \in Subs, Claim(s) \/ Read(s) PROVE BoardInv'
  <2>1. (\E r : Step(s, r) /\ r.pc = "judge") /\ UNCHANGED <<cmd, board, outputs>>
    BY <1>4, TakeStep
  <2> QED BY <1>b, <2>1
<1>5. ASSUME NEW s \in Subs, Record(s) PROVE BoardInv'
  BY <1>5, RecordKeepsBoard
<1>6. ASSUME NEW s \in Subs, Output(s) \/ OutputFails(s) PROVE BoardInv'
  <2>1. /\ \E r : /\ Step(s, r)
                  /\ \/ r.pc = "settle" /\ r.ev = run[s].ev /\ outputs' = Written(s)
                     \/ r.pc \in {"poll", "ended"} /\ outputs' \in {outputs, Written(s)}
        /\ At(s, "output") /\ UNCHANGED <<cmd, board>>
    BY <1>6, OutputStep
  <2>2. Entry(s) \in Ids
    BY <2>1, DeliveryAssumption DEF At, DeliveryInv, Located, TypeOK, Published, Ids
  <2>3. Written(s) = [outputs EXCEPT ![Entry(s)] = @ \cup {Mark(s)}]
    BY DEF Written, Entry, Mark
  <2>4. /\ outputs' = Written(s) => outputs'[Entry(s)] = outputs[Entry(s)] \cup {Mark(s)}
        /\ \A p \in Ids : \/ outputs'[p] = outputs[p]
                          \/ Entry(s) = p /\ outputs'[p] = outputs[p] \cup {Mark(s)}
    BY <1>a, <2>1, <2>2, <2>3
  <2> QED BY <1>b, <2>1, <2>4
<1>7. ASSUME NEW s \in Subs, Finish(s) PROVE BoardInv'
  BY <1>7, FinishKeepsBoard
<1> QED BY <1>1, <1>2, <1>3, <1>4, <1>5, <1>6, <1>7, NextShape

\* The board never hides a possible double delivery of a request, nor claims an
\* outcome that no write had, and counts every write; whatever runs lose the lease
\* between an attempt's record, its output and its settlement (delivery.go:349-441).
THEOREM BoardHonestCorrect == Spec => []BoardHonest
<1>1. Init => BoardInv
  BY DEF Init, BoardInv, SettledWrote, At, Idle, OnBoard, Unwritten, Tracked
<1>2. TypeOK /\ DeliveryInv /\ PersonInv /\ BoardInv /\ [Next]_vars => BoardInv'
  BY BoardStep DEF PersonInv
<1>3. TypeOK /\ DeliveryInv /\ BoardInv => BoardHonest
  <2> SUFFICES ASSUME TypeOK, DeliveryInv, BoardInv, NEW p \in Ids, OnBoard(p)
               PROVE  /\ Cardinality(outputs[p]) <= board[p].attempts
                      /\ Cardinality({w.by : w \in outputs[p]}) > 1 => board[p].duplicate
                      /\ board[p].delivery = "output_written" =>
                           \E w \in outputs[p] : w.delivery = "uncertain"
                      /\ board[p].delivery \in {"missing", "expired"} /\ ~board[p].duplicate =>
                           \A w \in outputs[p] : w.delivery = board[p].delivery
    BY DEF BoardHonest
  <2>1. Counted(p) /\ outputs[p] \subseteq Promised(p)
    BY DEF BoardInv, Promised
  <2>2. Cardinality(outputs[p]) <= board[p].attempts
    <3>1. IsFiniteSet(outputs[p]) /\ Cardinality(outputs[p]) <= Cardinality(Promised(p))
      BY <2>1, FS_Subset DEF Counted
    <3>2. Cardinality(outputs[p]) \in Nat /\ Cardinality(Promised(p)) \in Nat
      BY <2>1, <3>1, FS_CardinalityType DEF Counted
    <3> QED BY <2>1, <3>1, <3>2 DEF Counted, TypeOK, BoardEntry
  <2>3. ASSUME ~board[p].duplicate PROVE ~(Cardinality({w.by : w \in outputs[p]}) > 1)
    <3> DEFINE B == {w.by : w \in outputs[p]}
    <3>1. \A w, x \in outputs[p] : w = x
      BY <2>1, <2>3 DEF Counted, DeliveryInv, FirstWriteOnce
    <3>2. CASE outputs[p] = {}
      <4>1. B = {}
        BY <3>2
      <4> QED BY <4>1, FS_EmptySet
    <3>3. CASE outputs[p] # {}
      <4>1. PICK w \in outputs[p] : TRUE
        BY <3>3
      <4>2. B = {w.by}
        BY <3>1, <4>1
      <4> HIDE DEF B
      <4>3. Cardinality(B) = 1
        BY <4>2, FS_Singleton
      <4>4. ~(Cardinality(B) > 1)
        BY <4>3
      <4> QED BY <4>4 DEF B
    <3> QED BY <3>2, <3>3
  <2> QED BY <2>1, <2>2, <2>3 DEF Counted
<1>4. Init => PersonInv
  BY DEF Init, PersonInv, PersonKept, Floored, Judged, Idle, NoAck
<1>5. TypeOK /\ DeliveryInv /\ PersonInv /\ [Next]_vars => PersonInv'
  BY PersonStep
<1> QED BY <1>1, <1>2, <1>3, <1>4, <1>5, TypeCorrect, InvCorrect, PTL DEF Spec

=============================================================================
