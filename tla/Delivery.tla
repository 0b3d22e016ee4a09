------------------------------ MODULE Delivery ------------------------------
(***************************************************************************)
(* Command delivery to ONE agent (bus/delivery.go): the {p}:cmd stream,    *)
(* the agent's consumer group on it (cursor and pending-entries list), the *)
(* receiver lease {p}:receiver:{agent}, the delivery metadata of tracked   *)
(* requests on the {p}:board, and the runs of the program that read the    *)
(* group: subscribe --drain, subscribe, subscribe --since, subscribe       *)
(* --loop and the local-LLM peer's held receiver.                          *)
(*                                                                         *)
(* A run is one holder of one lease token, so the run names the token (a   *)
(* token is 16 random bytes, never drawn twice).  The lease's TTL is not   *)
(* timed: it may run out at any step (a holder that is slow, suspended or  *)
(* dead), and a holder learns of it at a step of its own, or never.        *)
(***************************************************************************)
EXTENDS Naturals, FiniteSets

CONSTANTS
    Subs,         \* the runs of a subscriber
    Steady,       \* those that poll from --since 0 for ever, and never fail,
                  \* die or let the lease lapse
    Modes,        \* what a run may be started as
    Kinds,        \* the kinds of entries the other agents publish
    MaxEntries,   \* bound: entries published
    MaxClock,     \* bound: the broker's clock, in ticks
    MaxAttempts,  \* bound: deliveries of one entry before the peer stops retrying
    Retain,       \* streamMaxLen: XADD may trim all but the newest Retain
    Horizon,      \* DefaultHorizon, in ticks
    MayPurge,     \* whether somebody runs busmon --reset
    None          \* no lease holder

AllModes == {"drain", "once", "since", "loop", "peer", "inbox"}
AllKinds == {"order", "person", "request", "timed", "other", "otherRequest"}

ASSUME DeliveryAssumption ==
    /\ Steady \subseteq Subs
    /\ None \notin Subs
    /\ Modes \subseteq AllModes
    /\ Kinds \subseteq AllKinds
    /\ {MaxEntries, MaxAttempts} \subseteq Nat
    /\ {MaxClock, Retain, Horizon} \subseteq Nat \ {0}
    /\ MayPurge \in BOOLEAN

VARIABLES
    clock,    \* Redis TIME
    len,      \* entries published so far
    cmd,      \* position -> its kind and its stream id <<ms, seq>>
    trimmed,  \* the oldest entries, whose bodies are gone
    group,    \* the consumer group: created?, the cursor, its first cursor
    pel,      \* pending position -> its delivery count; 0 is not pending
    lease,    \* the run whose token the receiver key holds, or None
    board,    \* position -> delivery metadata of the request's board entry
    run,      \* run -> where it is and what it holds
    outputs,  \* history: position -> what was written to the runs' callers
    acked     \* history: position -> how, and by what run, it was XACKed

vars == <<clock, len, cmd, trimmed, group, pel, lease, board, run, outputs, acked>>

Ids == 1 .. MaxEntries
Published == 1 .. len
Retained(p) == p > trimmed /\ p <= len

\* Attributes of an entry, by its kind.
Mine(k) == k \in {"order", "person", "request", "timed"}
Tracked(k) == k \in {"request", "timed", "otherRequest"}
Pending == {p \in Ids : pel[p] > 0}
Oldest(S) == CHOOSE p \in S : \A q \in S : p <= q

\* idLess, over stream ids <<ms, seq>>.
idLess(a, b) == a[1] < b[1] \/ (a[1] = b[1] /\ a[2] < b[2])
NoFloor == <<0, 0>>
aboveFloor(floor, id) == floor = NoFloor \/ idLess(floor, id)
\* The cursor of a group created at a stream id: the entries at or below it.
CursorAt(id) == Cardinality({p \in Published : ~idLess(id, cmd[p].id)})
Back(ms) == IF ms > Horizon THEN ms - Horizon ELSE 0

NoEvent == [p |-> 0, recovered |-> FALSE, attempt |-> 0, delivery |-> "none"]
NoAck == [how |-> "no", mode |-> "none", floor |-> NoFloor]
NotTracked == [delivery |-> "none", attempts |-> 0, duplicate |-> FALSE]
Unwritten == [kind |-> "none", id |-> <<0, 0>>]
Idle == [pc |-> "off", mode |-> "none", floor |-> NoFloor, mark |-> 0, ev |-> NoEvent,
         drained |-> FALSE]

Init ==
    /\ clock = 1 /\ len = 0 /\ trimmed = 0
    /\ cmd = [p \in Ids |-> Unwritten]
    /\ group = [exists |-> FALSE, cursor |-> 0, base |-> 0]
    /\ pel = [p \in Ids |-> 0]
    /\ lease = None
    /\ board = [p \in Ids |-> NotTracked]
    /\ run = [s \in Subs |-> Idle]
    /\ outputs = [p \in Ids |-> {}]
    /\ acked = [p \in Ids |-> NoAck]

broker == <<clock, len, cmd, trimmed>>
history == <<outputs, acked>>

-----------------------------------------------------------------------------
(* The rest of the bus: publishers, the retention of the stream, the clock. *)

\* XADD stamps the entry with the broker's clock; MAXLEN ~ may drop the oldest
\* bodies, keeping at least the newest Retain.  A tracked request's board entry
\* is written by the same script.
Publish(k) ==
    /\ len < MaxEntries
    /\ len' = len + 1
    /\ LET sameMs == {p \in Published : cmd[p].id[1] = clock}
       IN  cmd' = [cmd EXCEPT ![len'] = [kind |-> k, id |-> <<clock, Cardinality(sameMs)>>]]
    /\ \E t \in {trimmed} \cup {n \in trimmed .. len : n + Retain <= len + 1} : trimmed' = t
    /\ board' = [board EXCEPT ![len'].delivery = IF Tracked(k) THEN "queued" ELSE "none"]
    /\ UNCHANGED <<clock, group, pel, lease, run, history>>

\* busmon --reset: XTRIM MAXLEN 0 on the stream; groups and leases stay.
Purge ==
    /\ MayPurge
    /\ trimmed < len
    /\ trimmed' = len
    /\ UNCHANGED <<clock, len, cmd, group, pel, lease, board, run, history>>

Tick ==
    /\ clock < MaxClock
    /\ clock' = clock + 1
    /\ UNCHANGED <<len, cmd, trimmed, group, pel, lease, board, run, history>>

\* The lease's TTL runs out: its holder is dead, or renewed too late.
Expire ==
    /\ lease # None
    /\ lease \in Steady => run[lease].pc = "ended"
    /\ lease' = None
    /\ UNCHANGED <<broker, group, pel, board, run, history>>

-----------------------------------------------------------------------------
(* A run of the program, one step per call to the broker.                   *)

Step(s, next) == run' = [run EXCEPT ![s] = next]
At(s, pc) == run[s].pc = pc
GoTo(s, pc) == Step(s, [run[s] EXCEPT !.pc = pc])
Entry(s) == run[s].ev.p

\* What is remembered of a run that is over: the entry it last held, and for a
\* drain that found the queue empty, the entries there were at its start.
Over(s) == [Idle EXCEPT !.pc = "ended", !.ev.p = Entry(s)]
\* The command returns; its deferred close releases the lease, only if it is
\* still the run's (a close that fails leaves what a crash leaves).
Leave(s, last) ==
    /\ Step(s, last)
    /\ lease' = IF lease = s THEN None ELSE lease

CreateGroup(cursor) ==
    group' = IF group.exists THEN group   \* BUSYGROUP: left untouched
             ELSE [exists |-> TRUE, cursor |-> cursor, base |-> cursor]

\* The command starts.  A drain, and the peer, create the missing group at the
\* horizon floor before they ask for the lease; a plain subscribe resolves its
\* floor, the server's "now".  --since names an entry the agent has seen.
Start(s, mode) ==
    /\ At(s, "off")
    /\ s \in Steady => mode = "loop"
    /\ \E floor \in CASE mode = "once" -> {<<clock, 0>>}
                      [] mode = "since" -> {cmd[p].id : p \in Published}
                      [] OTHER -> {NoFloor} :
         Step(s, [Idle EXCEPT !.pc = "acquire", !.mode = mode, !.floor = floor, !.mark = len])
    /\ IF mode \in {"drain", "peer"} THEN CreateGroup(CursorAt(<<Back(clock), 0>>))
                                     ELSE UNCHANGED group
    /\ UNCHANGED <<broker, pel, lease, board, history>>

\* SETNX of the run's token.
Acquire(s) ==
    /\ At(s, "acquire")
    /\ lease = None
    /\ lease' = s
    /\ GoTo(s, IF run[s].mode \in {"drain", "peer"} THEN "poll" ELSE "enter")
    /\ UNCHANGED <<broker, group, pel, board, history>>

\* ErrReceiverBusy: a drain, or a peer, waits a bounded time for the lease.
Busy(s) ==
    /\ At(s, "acquire")
    /\ run[s].mode \in {"drain", "peer"}
    /\ lease # None
    /\ Leave(s, Over(s))
    /\ UNCHANGED <<broker, group, pel, board, history>>

\* The lease taken, a subscribe creates the missing group at its floor: a plain
\* one a horizon back, the conductor's inbox ("") at the end of the stream.
Enter(s) ==
    /\ At(s, "enter")
    /\ GoTo(s, "poll")
    /\ CASE run[s].mode = "inbox" -> CreateGroup(len)
         [] run[s].mode = "once" -> CreateGroup(CursorAt(<<Back(run[s].floor[1]), 0>>))
         [] OTHER -> CreateGroup(CursorAt(run[s].floor))
    /\ UNCHANGED <<broker, pel, lease, board, history>>

\* Mutants of Poll: a claim not marked recovered; the pending list ignored.
PollUnmarked(s) ==
    /\ At(s, "poll")
    /\ IF Pending = {}
       THEN GoTo(s, "read")
       ELSE LET p == Oldest(Pending) IN
            Step(s, [run[s] EXCEPT !.pc = "claim", !.ev = [NoEvent EXCEPT !.p = p]])
    /\ UNCHANGED <<broker, group, pel, lease, board, history>>
PollUnreadOnly(s) ==
    /\ At(s, "poll")
    /\ GoTo(s, "read")
    /\ UNCHANGED <<broker, group, pel, lease, board, history>>

\* XPENDING - + 1: the oldest pending entry, or nothing.
Poll(s) ==
    /\ At(s, "poll")
    /\ IF Pending = {}
       THEN GoTo(s, "read")
       ELSE LET p == Oldest(Pending) IN
            Step(s, [run[s] EXCEPT !.pc = "claim",
                                   !.ev = [NoEvent EXCEPT !.p = p, !.recovered = TRUE,
                                                          !.attempt = pel[p] + 1]])
    /\ UNCHANGED <<broker, group, pel, lease, board, history>>

\* claimRetained, behind the fence.  A body that is gone is not claimed: the
\* entry stays pending as evidence of the gap.
Claim(s) ==
    /\ At(s, "claim")
    /\ lease = s
    /\ LET p == run[s].ev.p IN
       /\ pel' = IF Retained(p) /\ pel[p] > 0 THEN [pel EXCEPT ![p] = @ + 1] ELSE pel
       /\ Step(s, [run[s] EXCEPT !.pc = "judge",
                     !.ev.delivery = IF Retained(p) THEN "uncertain" ELSE "missing"])
    /\ UNCHANGED <<broker, group, lease, board, history>>

\* XREADGROUP >, NOT fenced: the next retained entry after the cursor becomes
\* pending, and trimmed ones are passed over.
Fetchable == {p \in Published : p > group.cursor /\ Retained(p)}
Read(s) ==
    /\ At(s, "read")
    /\ Fetchable # {}
    /\ LET p == Oldest(Fetchable) IN
       /\ group' = [group EXCEPT !.cursor = p]
       /\ pel' = [pel EXCEPT ![p] = 1]
       /\ Step(s, [run[s] EXCEPT !.pc = "judge",
                     !.ev = [NoEvent EXCEPT !.p = p, !.attempt = 1, !.delivery = "uncertain"]])
    /\ UNCHANGED <<broker, lease, board, history>>


\* Nothing to read: a drain is over, the peer goes from its drain to its
\* blocking read, which like a subscribe polls again.
NothingToRead(s) ==
    /\ At(s, "read")
    /\ Fetchable = {}
    /\ \/ run[s].mode = "drain" /\ Leave(s, [Over(s) EXCEPT !.drained = (lease = s), !.mark = run[s].mark])
       \/ run[s].mode # "drain" /\ GoTo(s, "poll") /\ UNCHANGED lease
    /\ UNCHANGED <<broker, group, pel, board, history>>

keptStrictly(s, e) ==   \* mutant: an entry exactly a horizon old is not kept
    /\ run[s].mode = "once"
    /\ cmd[e.p].kind = "person"
    /\ e.delivery \notin {"missing", "expired"}
    /\ run[s].floor[1] < cmd[e.p].id[1] + Horizon

\* Does a plain subscribe still deliver an entry below its floor?
keptForPerson(s, e) ==
    /\ run[s].mode = "once"
    /\ cmd[e.p].kind = "person"
    /\ e.delivery \notin {"missing", "expired"}
    /\ run[s].floor[1] <= cmd[e.p].id[1] + Horizon

\* A request's deadline: the tick after its publication.
Expired(p) == cmd[p].kind = "timed" /\ clock > cmd[p].id[1]

\* deliverOne's decisions: what the entry is delivered as, and whether it is
\* skipped.  Of a missing entry the board may still know the target; a target
\* nobody knows is not taken for another agent's.
Delivered(s) ==
    LET e == run[s].ev IN
    IF e.delivery # "missing" /\ Expired(e.p) THEN "expired" ELSE e.delivery
Below(s) == /\ ~aboveFloor(run[s].floor, cmd[Entry(s)].id)
            /\ ~keptForPerson(s, [run[s].ev EXCEPT !.delivery = Delivered(s)])
Elsewhere(s) == /\ ~Mine(cmd[Entry(s)].kind)
                /\ run[s].ev.delivery # "missing" \/ Tracked(cmd[Entry(s)].kind)

\* The board entry is this agent's request, and names this entry.
OnBoard(p) == Tracked(cmd[p].kind) /\ Mine(cmd[p].kind)

RecordUnflagged(s) ==   \* mutant: a recovered delivery is not flagged
    /\ At(s, "judge")
    /\ ~Below(s) /\ ~Elsewhere(s)
    /\ lease = s
    /\ Step(s, [run[s] EXCEPT !.pc = "output", !.ev.delivery = Delivered(s)])
    /\ board' = IF OnBoard(Entry(s))
                THEN [board EXCEPT ![Entry(s)].delivery = Delivered(s), ![Entry(s)].attempts = @ + 1]
                ELSE board
    /\ UNCHANGED <<broker, group, pel, lease, history>>

\* deliveryRecord "attempt", behind the fence, before the output.
Record(s) ==
    /\ At(s, "judge")
    /\ ~Below(s) /\ ~Elsewhere(s)
    /\ lease = s
    /\ Step(s, [run[s] EXCEPT !.pc = "output", !.ev.delivery = Delivered(s)])
    /\ LET e == run[s].ev IN
       board' = IF OnBoard(e.p)
                THEN [board EXCEPT ![e.p] =
                        [delivery |-> Delivered(s), attempts |-> @.attempts + 1,
                         duplicate |-> @.duplicate \/ e.recovered]]
                ELSE board
    /\ UNCHANGED <<broker, group, pel, lease, history>>

\* XACK, of an entry that is still pending.
Ack(s, how) ==
    /\ pel' = [pel EXCEPT ![Entry(s)] = 0]
    /\ acked' = IF pel[Entry(s)] > 0 THEN [acked EXCEPT ![Entry(s)] = [how |-> how, mode |-> run[s].mode,
                                                               floor |-> run[s].floor]]
                                     ELSE acked

\* deliveryRecord "skip": acknowledged in this agent's group without output.
Skip(s) ==
    /\ At(s, "judge")
    /\ Below(s) \/ Elsewhere(s)
    /\ lease = s
    /\ Ack(s, "skip")
    /\ GoTo(s, "poll")
    /\ UNCHANGED <<broker, group, lease, board, outputs>>

Written(s) ==
    LET e == run[s].ev IN
    [outputs EXCEPT ![e.p] = @ \cup
        {[by |-> s, recovered |-> e.recovered, delivery |-> e.delivery]}]

\* The callback writes the entry: stdout, or the peer's turn.  It checks no
\* lease, so a run that lost its own may still write.
Output(s) ==
    /\ At(s, "output")
    /\ outputs' = Written(s)
    /\ GoTo(s, "settle")
    /\ UNCHANGED <<broker, group, pel, lease, board, acked>>

OutputFailureIgnored(s) ==   \* mutant: a failed write is settled all the same
    /\ At(s, "output")
    /\ s \notin Steady
    /\ outputs' \in {outputs, Written(s)}
    /\ GoTo(s, "settle")
    /\ UNCHANGED <<broker, group, pel, lease, board, acked>>

\* With an entry in hand the peer retries under the lease it holds, the others end.
EndsOrRetries(s) ==
    \/ Leave(s, Over(s))
    \/ /\ run[s].mode = "peer" /\ run[s].pc \in {"judge", "output", "settle"} /\ s \notin Steady
       /\ pel[Entry(s)] < MaxAttempts /\ board[Entry(s)].attempts < MaxAttempts
       /\ GoTo(s, "poll")
       /\ UNCHANGED lease

\* The callback fails, possibly after a complete write; the entry stays pending.
OutputFails(s) ==
    /\ At(s, "output")
    /\ s \notin Steady
    /\ outputs' \in {outputs, Written(s)}
    /\ EndsOrRetries(s)
    /\ UNCHANGED <<broker, group, pel, board, acked>>

FinishUnfenced(s) ==   \* mutant: no check of the lease
    /\ At(s, "settle")
    /\ Ack(s, "finish")
    /\ LET e == run[s].ev IN
       board' = IF OnBoard(e.p)
                THEN [board EXCEPT ![e.p].delivery =
                        IF e.delivery = "uncertain" THEN "output_written" ELSE e.delivery]
                ELSE board
    /\ \/ run[s].mode \in {"once", "since"} /\ Leave(s, Over(s))
       \/ run[s].mode \notin {"once", "since"} /\ GoTo(s, "poll") /\ UNCHANGED lease
    /\ UNCHANGED <<broker, group, outputs>>

\* deliveryRecord "finish": metadata and XACK in one script, behind the fence.
\* A one-shot subscribe is done with its first entry.
Finish(s) ==
    /\ At(s, "settle")
    /\ lease = s
    /\ Ack(s, "finish")
    /\ LET e == run[s].ev IN
       board' = IF OnBoard(e.p)
                THEN [board EXCEPT ![e.p].delivery =
                        IF e.delivery = "uncertain" THEN "output_written" ELSE e.delivery]
                ELSE board
    /\ \/ run[s].mode \in {"once", "since"} /\ Leave(s, Over(s))
       \/ run[s].mode \notin {"once", "since"} /\ GoTo(s, "poll") /\ UNCHANGED lease
    /\ UNCHANGED <<broker, group, outputs>>

\* A call fails, the idle window closes, or the fence refuses the script.
Fail(s) ==
    /\ run[s].pc \in {"enter", "poll", "claim", "read", "judge", "settle"}
    /\ s \in Steady => (run[s].pc \in {"claim", "judge", "settle"} /\ lease # s)
    /\ EndsOrRetries(s)
    /\ UNCHANGED <<broker, group, pel, board, history>>

\* The process dies; its lease stays until its TTL runs out.
Crash(s) ==
    /\ s \notin Steady
    /\ run[s].pc \notin {"off", "ended"}
    /\ Step(s, Over(s))
    /\ UNCHANGED <<broker, group, pel, lease, board, history>>

SubStep(s) ==
    \/ Acquire(s) \/ Busy(s) \/ Enter(s) \/ Poll(s) \/ Claim(s) \/ Read(s)
    \/ NothingToRead(s) \/ Record(s) \/ Skip(s) \/ Output(s) \/ Finish(s)

Next ==
    \/ \E k \in Kinds : Publish(k)
    \/ Purge \/ Tick \/ Expire
    \/ \E s \in Subs : \/ \E m \in Modes : Start(s, m)
                       \/ SubStep(s) \/ Fail(s) \/ OutputFails(s) \/ Crash(s)

Spec == Init /\ [][Next]_vars

\* Every step of a started run is eventually taken: the program runs, its idle
\* window closes, and the TTL of a lease nobody renews runs out.
Alive(s) == SubStep(s) \/ (Fail(s) /\ run[s].mode # "loop")
Fairness ==
    /\ \A s \in Subs : WF_vars(Alive(s))
    /\ WF_vars(Expire)
    /\ \A s \in Steady : WF_vars(\E m \in Modes : Start(s, m))
FairSpec == Spec /\ Fairness

-----------------------------------------------------------------------------
(* Properties.                                                              *)

Event == [p : Ids \cup {0}, recovered : BOOLEAN, attempt : Nat,
          delivery : {"none", "uncertain", "missing", "expired"}]
StreamId == (0 .. MaxClock) \X (0 .. MaxEntries)
RunState ==
    [pc : {"off", "acquire", "enter", "poll", "claim", "read", "judge", "output",
           "settle", "ended"},
     mode : Modes \cup {"none"}, floor : StreamId, mark : 0 .. MaxEntries, ev : Event,
     drained : BOOLEAN]
Write == [by : Subs, recovered : BOOLEAN,
          delivery : {"none", "uncertain", "missing", "expired"}]
BoardEntry == [delivery : {"none", "queued", "uncertain", "output_written", "missing", "expired"},
               attempts : Nat, duplicate : BOOLEAN]

TypeOK ==
    /\ clock \in 1 .. MaxClock /\ len \in 0 .. MaxEntries /\ trimmed \in 0 .. len
    /\ cmd \in [Ids -> [kind : Kinds \cup {"none"}, id : StreamId]]
    /\ group \in [exists : BOOLEAN, cursor : 0 .. len, base : 0 .. len]
    /\ pel \in [Ids -> Nat]
    /\ lease \in Subs \cup {None}
    /\ board \in [Ids -> BoardEntry]
    /\ run \in [Subs -> RunState]
    /\ outputs \in [Ids -> SUBSET Write]
    /\ acked \in [Ids -> [how : {"no", "skip", "finish"}, mode : Modes \cup {"none"},
                        floor : StreamId]]

\* An entry addressed to the agent leaves its pending list only after some run
\* wrote it out whole, unless the run that acknowledged it was started with a
\* floor at or above the entry.  Whatever the crashes, lost leases and late
\* steps of the other runs: at-least-once, docs/architecture.md:15.
AckedWasWritten ==
    \A p \in Ids : acked[p].how # "no" /\ Mine(cmd[p].kind) =>
        \/ outputs[p] # {}
        \/ /\ acked[p].how = "skip"
           /\ ~aboveFloor(acked[p].floor, cmd[p].id)

\* What a person wrote to the agent is acknowledged unseen only by a run told
\* --since, or once its body is gone, or when older than the horizon at the
\* floor: an agent that re-arms without its cursor keeps it (delivery.go:212-217).
PersonKept ==
    \A p \in Ids : acked[p].how = "skip" /\ cmd[p].kind = "person" =>
        \/ acked[p].mode = "since"
        \/ ~Retained(p)
        \/ acked[p].floor[1] > cmd[p].id[1] + Horizon

\* Two writes of one entry never both look first-time: at most one of them is
\* not marked recovered, though a run that lost its lease may write late, after
\* the run that recovered its entry (delivery.go:203-206: deduplicate).
FirstWriteOnce ==
    \A p \in Ids : \A w, x \in outputs[p] : ~w.recovered /\ ~x.recovered => w = x

\* The pending list and the cursor account for every entry of the group: one
\* at or below the cursor is pending, was acknowledged, was there before the
\* group, or lost its body before it was read.
Accounted ==
    \A p \in Published : group.base < p /\ p <= group.cursor =>
        pel[p] > 0 \/ acked[p].how # "no" \/ ~Retained(p)

\* The board's metadata never hides a possible double delivery: a request
\* written more than once, or written and then reported missing or expired, has
\* duplicate_possible, and it counts at least as many attempts as writes.
BoardHonest ==
    \A p \in Ids : OnBoard(p) =>
        /\ Cardinality(outputs[p]) <= board[p].attempts
        /\ Cardinality({w.by : w \in outputs[p]}) > 1 => board[p].duplicate
        /\ board[p].delivery = "output_written" =>
             \E w \in outputs[p] : w.delivery = "uncertain"
        /\ board[p].delivery \in {"missing", "expired"} /\ ~board[p].duplicate =>
             \A w \in outputs[p] : w.delivery = board[p].delivery

\* The inductive strengthening of the three properties above: a run works on a
\* published entry; a group is made before it is read; what is settled was
\* written; and at most one run holds an entry that looks first-time, below the
\* cursor, unwritten by another run that saw it so.
Fresh(s) == run[s].pc \in {"judge", "output"} /\ ~run[s].ev.recovered
Located ==
    \A s \in Subs : run[s].pc \in {"claim", "judge", "output", "settle"} => Entry(s) \in Published
Placed ==
    \A p \in Ids : pel[p] > 0 \/ acked[p].how # "no" \/ outputs[p] # {} => p \in Published
GroupReady ==
    /\ ~group.exists => group.cursor = 0
    /\ \A s \in Subs :
         \/ run[s].pc \in {"poll", "claim", "read", "judge", "output", "settle"}
         \/ run[s].pc = "acquire" /\ run[s].mode \in {"drain", "peer"}
         => group.exists
ClaimIsRecovery == \A s \in Subs : run[s].pc = "claim" => run[s].ev.recovered
SettledIsWritten == \A s \in Subs : run[s].pc = "settle" => outputs[Entry(s)] # {}
OneFresh == \A s, t \in Subs : Fresh(s) /\ Fresh(t) /\ Entry(s) = Entry(t) => s = t
FreshIsRead ==
    /\ \A s \in Subs : Fresh(s) => Entry(s) <= group.cursor
    /\ \A p \in Ids : \A w \in outputs[p] : ~w.recovered => p <= group.cursor
FreshIsUnwritten ==
    \A s \in Subs : Fresh(s) => \A w \in outputs[Entry(s)] : w.recovered
DeliveryInv ==
    /\ Located /\ Placed /\ GroupReady /\ ClaimIsRecovery /\ SettledIsWritten
    /\ OneFresh /\ FreshIsRead /\ FreshIsUnwritten
    /\ AckedWasWritten /\ FirstWriteOnce /\ Accounted

\* A run without the lease neither acknowledges nor touches the board: only
\* the lease holder's own step shrinks the pending list or rewrites metadata.
OnlyHolderSettles ==
    [][\A p \in Published :
         (pel[p] > 0 /\ pel'[p] = 0) \/ board'[p] # board[p] =>
            lease # None /\ run'[lease] # run[lease]]_vars

\* A drain that ends with an empty queue while it holds the lease leaves no
\* entry of its start unread, and none pending that it could have claimed: one
\* still pending was read, unfenced, by a run that had lost the lease.
DrainedIsEmpty ==
    \A s \in Subs : run[s].drained =>
        \A p \in group.base + 1 .. run[s].mark :
            /\ Retained(p) => p <= group.cursor
            /\ pel[p] > 0 => \E r \in Subs \ {s} : run[r].ev.p = p

\* Every retained entry addressed to the agent is eventually written to a run
\* or acknowledged, or its body is trimmed: given one run that keeps reading.
EveryEntryDelivered ==
    \A p \in Ids :
        (p <= len /\ Mine(cmd[p].kind)) ~>
            (outputs[p] # {} \/ acked[p].how # "no" \/ ~Retained(p) \/ p <= group.base)

=============================================================================
