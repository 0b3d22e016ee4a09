------------------------------- MODULE Clear -------------------------------
(***************************************************************************)
(* The hand-off of ONE agent and the automatic /clear that follows it      *)
(* (bus/handoff.go, dispatch/handoff.go, dispatch/clear.go).  The agent    *)
(* declares that a report carries its work over; the dispatcher reserves a *)
(* clear, types /clear into the pane, waits for the new session to be      *)
(* proved by the client's hook, and tells the agent what to do next, once  *)
(* per cleared session.  Around it: the agent's turns, statuses, reports   *)
(* and turn flips, a person who clears by hand, a process that is replaced *)
(* under a swap intent, and dispatchers that crash or lose their lease.    *)
(*                                                                         *)
(* Sessions and processes are numbered as they start.  A time is twice the *)
(* number of the agent's statuses so far, plus one for a turn flip, which  *)
(* is no status: the code compares stream ids and Redis TIME, and only     *)
(* their order matters.                                                    *)
(***************************************************************************)
EXTENDS Naturals, Sequences

CONSTANTS
    Slots,        \* dispatcher processes that may run side by side
    None,         \* no lease holder, no record, no mark
    MaxSessions,  \* bound: sessions of the agent's client
    MaxStatuses,  \* bound: statuses of the agent
    Budgets       \* bounds of one behaviour: its statuses, turns, swaps, lost leases,
                  \* and faults (crashes, failed calls and hooks, trims)

ASSUME ClearAssumption ==
    /\ None \notin Slots \union [session : Nat, after : Nat, late : BOOLEAN]
                          \union [session : Nat, proc : Nat, at : Nat]
    /\ {MaxSessions, MaxStatuses} \subseteq Nat \ {0}
    /\ Budgets \subseteq [statuses : 0 .. MaxStatuses, turns : Nat, swaps : Nat,
                          losses : Nat, faults : Nat]

VARIABLES
    agent,   \* the client in the pane: process, session, turn, status in the making
    pane,    \* /clear lines typed and not yet run
    hooks,   \* SessionStart hooks that have not written yet, by session
    snap,    \* {p}:agents: process, proved session, state and its time
    record,  \* {p}:handoff: the declared hand-off, or None
    mark,    \* {p}:quota clear:<agent>: the clear in flight, or None
    once,    \* {p}:quota clear-end and clear-note: the session told of
    swap,    \* the swap intent: none, begun, or its process replaced
    lease,   \* the slot whose token holds the dispatch lease, or None
    disp,    \* slot -> the step its run is at, and what it has in hand
    left,    \* what is left of the behaviour's budget
    hist     \* history: see Init

vars == <<agent, pane, hooks, snap, record, mark, once, swap, lease, disp, left, hist>>
client == <<agent, pane, hooks, snap, swap>>
bus == <<record, mark, once>>

Sessions == 1 .. MaxSessions
Off == [pc |-> "off", snap |-> None, rec |-> None, mark |-> None, ended |-> 0]

Init ==
    /\ agent = [proc |-> 1, session |-> 1, turn |-> FALSE, writing |-> "none"]
    /\ pane = 0
    /\ hooks = {}
    /\ snap = [proc |-> 1, session |-> 1, state |-> "idle", ts |-> 0]
    /\ record = None
    /\ mark = None
    /\ once = [end |-> 0, note |-> 0]
    /\ swap = "none"
    /\ lease = None
    /\ disp = [d \in Slots |-> Off]
    /\ left \in Budgets
    /\ hist = [sent |-> <<>>,       \* terminal messages: <<session, kind>>
               calls |-> <<>>,      \* the records Runtime.Clear was called for
               uncovered |-> {},    \* sessions with work written after their last hand-off
               trimmed |-> FALSE]   \* statuses after the reservation were trimmed

Spend(what) == left[what] > 0 /\ left' = [left EXCEPT ![what] = @ - 1]
Fault == Spend("faults")
Statuses == MaxStatuses - left.statuses
Now == 2 * Statuses

-----------------------------------------------------------------------------
(* The agent.                                                               *)

\* Handoff.VoidFor: the record no longer stands for the snapshot s.
VoidFor(r, s) ==
    \/ s.proc # r.proc
    \/ s.session # r.session
    \/ s.state = "working" /\ s.ts > r.at

\* TurnState: the client's own hooks flip the snapshot, never the stream; a
\* flip that does not come, or finds the state already so, changes nothing.
Flip(state) ==
    IF snap.proc = agent.proc /\ snap.state # state
    THEN [snap EXCEPT !.state = state, !.ts = Now + 1] ELSE snap

StartTurn ==
    /\ ~agent.turn
    /\ agent' = [agent EXCEPT !.turn = TRUE]
    /\ snap' \in {snap, Flip("working")}
    /\ Spend("turns")
    /\ UNCHANGED <<pane, hooks, record, mark, once, swap, lease, disp, hist>>
EndTurn ==
    /\ agent.turn /\ agent.writing = "none"
    /\ agent' = [agent EXCEPT !.turn = FALSE]
    /\ snap' \in {snap, Flip("idle")}
    /\ UNCHANGED <<pane, hooks, record, mark, once, swap, lease, disp, left, hist>>

\* Status: the stream entry, in one transaction with the record's deletion
\* unless the state is idle; then the snapshot, best effort (PutSnapshot).
InTurn == agent.turn /\ agent.writing = "none"
Wrote(state) == /\ Spend("statuses")
                /\ agent' = [agent EXCEPT !.writing = state]
StatusKeeping(state) ==   \* mutant: the record outlives a status
    /\ InTurn
    /\ Wrote(state)
    /\ hist' = IF state = "idle" THEN hist
               ELSE [hist EXCEPT !.uncovered = @ \union {agent.session}]
    /\ UNCHANGED <<pane, hooks, snap, record, mark, once, swap, lease, disp>>
Status(state) ==
    /\ InTurn
    /\ Wrote(state)
    /\ record' = IF state = "idle" THEN record ELSE None
    /\ hist' = IF state = "idle" THEN hist
               ELSE [hist EXCEPT !.uncovered = @ \union {agent.session}]
    /\ UNCHANGED <<pane, hooks, snap, mark, once, swap, lease, disp>>
Report ==
    /\ InTurn
    /\ record' = None
    /\ hist' = [hist EXCEPT !.uncovered = @ \union {agent.session}]
    /\ UNCHANGED <<client, mark, once, lease, disp, left>>

\* DeclareHandoff: only the verified process in its proved session; the idle
\* status and the record go in one script, the snapshot after it.
DeclareHandoff ==
    /\ InTurn
    /\ snap.proc = agent.proc /\ snap.session = agent.session
    /\ Wrote("idle")
    /\ record' = [session |-> agent.session, proc |-> agent.proc, at |-> Now + 2]
    /\ hist' = [hist EXCEPT !.uncovered = @ \ {agent.session}]
    /\ UNCHANGED <<pane, hooks, snap, mark, once, swap, lease, disp>>

RegisteredAhead(state) ==   \* mutant: stamped by another clock
    [proc |-> agent.proc, state |-> state, ts |-> Now + 2, session |-> agent.session]

\* mergeSnapshot: the state, and with another process its identity; a status
\* never moves a proved session back.
Registered(state) ==
    [proc |-> agent.proc, state |-> state, ts |-> Now,
     session |-> IF snap.proc = agent.proc /\ snap.session # 0 THEN snap.session ELSE agent.session]
PutSnapshot ==
    /\ agent.writing # "none"
    /\ agent' = [agent EXCEPT !.writing = "none"]
    /\ \/ snap' = Registered(agent.writing) /\ UNCHANGED left
       \/ snap' = snap /\ Fault
    /\ UNCHANGED <<pane, hooks, record, mark, once, swap, lease, disp, hist>>

\* A new session of the same process, by the dispatcher's /clear once the
\* client gets to it, or by a person's; its hook is on its way.
Cleared ==
    /\ ~agent.turn
    /\ agent.session < MaxSessions
    /\ agent' = [agent EXCEPT !.session = @ + 1]
    /\ hooks' = hooks \union {agent.session + 1}
RunClear ==
    /\ pane > 0
    /\ Cleared
    /\ pane' = pane - 1
    /\ UNCHANGED <<snap, bus, swap, lease, disp, left, hist>>
ClearByHand ==
    /\ Cleared
    /\ UNCHANGED <<pane, snap, bus, swap, lease, disp, left, hist>>

\* ProveSession: of two hooks the later wins, and only for the snapshot's
\* process; a hook may find no broker.
ProveSession(s) ==
    /\ s \in hooks
    /\ hooks' = hooks \ {s}
    /\ \/ /\ snap' = IF snap.proc = agent.proc /\ s > snap.session
                     THEN [snap EXCEPT !.session = s] ELSE snap
          /\ UNCHANGED left
       \/ snap' = snap /\ Fault
    /\ UNCHANGED <<agent, pane, bus, swap, lease, disp, hist>>

\* agentbus swap: the intent stands while the process is replaced; the new
\* one is bound without a session, which its hook proves.
BeginSwap ==
    /\ swap = "none"
    /\ swap' = "begun"
    /\ Spend("swaps")
    /\ UNCHANGED <<agent, pane, hooks, snap, bus, lease, disp, hist>>
Replace ==
    /\ swap = "begun"
    /\ swap' = "replaced"
    /\ agent.session < MaxSessions
    /\ agent' = [proc |-> agent.proc + 1, session |-> agent.session + 1, turn |-> FALSE, writing |-> "none"]
    /\ pane' = 0
    /\ hooks' = {agent.session + 1}
    /\ snap' = [snap EXCEPT !.proc = agent.proc + 1, !.session = 0]
    /\ UNCHANGED <<bus, lease, disp, left, hist>>
EndSwap ==
    /\ swap # "none"
    /\ swap' = "none"
    /\ UNCHANGED <<agent, pane, hooks, snap, bus, lease, disp, left, hist>>

\* The status stream is capped: entries after a reservation may be gone at
\* its proof.
Trim ==
    /\ mark # None /\ ~hist.trimmed
    /\ Fault
    /\ hist' = [hist EXCEPT !.trimmed = TRUE]
    /\ UNCHANGED <<client, bus, lease, disp>>

\* The proof's time (30 s) runs out.
Late ==
    /\ mark # None /\ ~mark.late
    /\ mark' = [mark EXCEPT !.late = TRUE]
    /\ UNCHANGED <<client, record, once, lease, disp, left, hist>>

-----------------------------------------------------------------------------
(* The dispatcher's pass over the agent.  A run carries what it read; each *)
(* fenced script checks the lease, and a run refused there ends.           *)

At(d, pc) == disp[d].pc = pc
Goto(d, pc) == disp' = [disp EXCEPT ![d] = IF pc = "pass" THEN [Off EXCEPT !.pc = pc]
                                           ELSE [@ EXCEPT !.pc = pc]]
Holds(d) == lease = d
Refused(d) == /\ ~Holds(d)
              /\ disp' = [disp EXCEPT ![d] = Off]
              /\ UNCHANGED <<client, bus, lease, left, hist>>

\* Slots are interchangeable: a new run takes the first that is off.
Acquire(d) ==
    /\ lease = None
    /\ At(d, "off") /\ d = CHOOSE x \in Slots : At(x, "off")
    /\ lease' = d
    /\ Goto(d, "pass")
    /\ UNCHANGED <<client, bus, left, hist>>

\* reconcile reads the snapshots once, for every chore of the pass.
Pass(d) ==
    /\ At(d, "pass")
    /\ disp' = [disp EXCEPT ![d] = [Off EXCEPT !.pc = "sweep", !.snap = snap]]
    /\ UNCHANGED <<client, bus, lease, left, hist>>

\* handoffPass: a void record goes, unless a clear of its session is in
\* flight; FencedDeleteHandoff deletes only the record judged.
Sweep(d) ==
    /\ At(d, "sweep")
    /\ disp' = [disp EXCEPT
        ![d] = IF /\ record # None
                  /\ mark = None \/ mark.session # record.session
                  /\ VoidFor(record, @.snap)
               THEN [@ EXCEPT !.pc = "void", !.rec = record] ELSE [@ EXCEPT !.pc = "read"]]
    /\ UNCHANGED <<client, bus, lease, left, hist>>
DeleteHandoff(d) == record' = IF record = disp[d].rec THEN None ELSE record
Void(d) ==
    /\ At(d, "void")
    /\ \/ /\ Holds(d)
          /\ DeleteHandoff(d)
          /\ Goto(d, "read")
          /\ UNCHANGED <<client, mark, once, lease, left, hist>>
       \/ Refused(d)

\* clearPass reads records and marks; a clear in flight is proved, else a
\* record is judged.
Read(d) ==
    /\ At(d, "read")
    /\ \/ /\ mark # None
          /\ disp' = [disp EXCEPT ![d] = [@ EXCEPT !.pc = "prove", !.rec = record,
                                                  !.mark = mark, !.ended = once.end]]
       \/ /\ mark = None /\ record # None
          /\ disp' = [disp EXCEPT ![d] = [@ EXCEPT !.pc = "judge", !.rec = record]]
       \/ /\ mark = None /\ record = None
          /\ Goto(d, "pass")
    /\ UNCHANGED <<client, bus, lease, left, hist>>

\* StatusAfter: exact to the stream id, and closed when entries were trimmed.
StatusAfter(m) == Statuses > m.after \/ hist.trimmed

\* proveClear, from what the pass read; the status stream is read here.
Same(d) == disp[d].rec # None /\ disp[d].rec.session = disp[d].mark.session
Proved(d) == /\ disp[d].snap.proc = disp[d].rec.proc
             /\ disp[d].snap.session \notin {0, disp[d].mark.session}
VerdictForgetful(d) ==   \* mutant: a proof out of time releases the mark
    IF disp[d].ended = disp[d].mark.session THEN IF Same(d) THEN "pass" ELSE "unmark"
    ELSE IF ~Same(d) THEN "rebuild"
    ELSE IF Proved(d) THEN IF StatusAfter(disp[d].mark) THEN "rebuild" ELSE "resume"
    ELSE IF disp[d].mark.late THEN "unmark" ELSE "pass"
VerdictPatient(d) ==   \* mutant: the proof never runs out of time
    IF disp[d].ended = disp[d].mark.session THEN IF Same(d) THEN "pass" ELSE "unmark"
    ELSE IF ~Same(d) THEN "rebuild"
    ELSE IF Proved(d) THEN IF StatusAfter(disp[d].mark) THEN "rebuild" ELSE "resume"
    ELSE "pass"
Verdict(d) ==
    IF disp[d].ended = disp[d].mark.session THEN IF Same(d) THEN "pass" ELSE "unmark"
    ELSE IF ~Same(d) THEN "rebuild"
    ELSE IF Proved(d) THEN IF StatusAfter(disp[d].mark) THEN "rebuild" ELSE "resume"
    ELSE IF disp[d].mark.late THEN "escalate" ELSE "pass"
Prove(d) ==
    /\ At(d, "prove")
    /\ Goto(d, Verdict(d))
    /\ UNCHANGED <<client, bus, lease, left, hist>>

CmdUnmarked(d, pc, field, toAgent, kind, next) ==   \* mutant: the mark is not in the script
    /\ At(d, pc) /\ Holds(d)
    /\ Goto(d, next)
    /\ hist' = IF field # "end" THEN hist
               ELSE [hist EXCEPT !.sent = Append(@, <<disp[d].mark.session, kind>>)]
    /\ UNCHANGED <<client, bus, lease, left>>
\* FencedCmdOnce: refused without the lease; an error while its recipient is
\* being swapped; nothing when the mark names the session already; else the
\* message and the mark together.
CmdOnce(d, pc, field, toAgent, kind, next) ==
    /\ At(d, pc)
    /\ LET session == disp[d].mark.session
       IN  \/ Refused(d)
           \/ /\ Holds(d) /\ toAgent /\ swap # "none"
              /\ Goto(d, "pass")
              /\ UNCHANGED <<bus, hist>>
              /\ UNCHANGED <<client, lease, left>>
           \/ /\ Holds(d) /\ ~(toAgent /\ swap # "none")
              /\ Goto(d, next)
              /\ once' = [once EXCEPT ![field] = session]
              /\ hist' = IF field # "end" \/ once.end = session THEN hist
                         ELSE [hist EXCEPT !.sent = Append(@, <<session, kind>>)]
              /\ UNCHANGED <<client, record, mark, lease, left>>
Resume(d) == CmdOnce(d, "resume", "end", TRUE, "resume", "forget")
Rebuild(d) == CmdOnce(d, "rebuild", "end", TRUE, "rebuild", "note")
Note(d) == CmdOnce(d, "note", "note", FALSE, "note", "unmark")
EscalateReleasing(d) == CmdOnce(d, "escalate", "end", FALSE, "escalate", "unmark")   \* mutant
Escalate(d) == CmdOnce(d, "escalate", "end", FALSE, "escalate", "pass")

Forget(d) ==
    /\ At(d, "forget")
    /\ \/ /\ Holds(d)
          /\ DeleteHandoff(d)
          /\ Goto(d, "unmark")
          /\ UNCHANGED <<client, mark, once, lease, left, hist>>
       \/ Refused(d)
Unmark(d) ==
    /\ At(d, "unmark")
    /\ \/ /\ Holds(d)
          /\ mark' = None
          /\ Goto(d, "pass")
          /\ UNCHANGED <<client, record, once, lease, left, hist>>
       \/ Refused(d)

\* Inspect: the verified process is in the pane, no turn runs and nothing typed
\* there still waits.
Ready(d) == ~agent.turn /\ pane = 0 /\ agent.proc = disp[d].snap.proc

\* DecideClear, on the pass's snapshot and a look at the pane; what else may
\* defer the clear (the switch, a hold, an ask, an armed receiver, a wake
\* being typed, a focused pane, open review gates) is a choice.
Judge(d) ==
    /\ At(d, "judge")
    /\ LET x == disp[d]
       IN  \/ /\ ~VoidFor(x.rec, x.snap) /\ swap = "none" /\ Ready(d)
              /\ x.snap.state = "idle" /\ x.snap.ts >= x.rec.at
              /\ Goto(d, "reserve")
           \/ Goto(d, "pass")
    /\ UNCHANGED <<client, bus, lease, left, hist>>

\* FencedReserveClear: only while the record is the one judged, and once per
\* session as long as the mark stands; it stamps the proof's boundary.
Reserve(d) ==
    /\ At(d, "reserve")
    /\ \/ /\ Holds(d)
          /\ IF record = disp[d].rec /\ (mark = None \/ mark.session # record.session)
             THEN /\ mark' = [session |-> record.session, after |-> Statuses, late |-> FALSE]
                  /\ hist' = [hist EXCEPT !.trimmed = FALSE]
                  /\ Goto(d, "look")
             ELSE Goto(d, "pass") /\ UNCHANGED <<mark, hist>>
          /\ UNCHANGED <<client, record, once, lease, left>>
       \/ Refused(d)

\* The second look, right before typing: an abort releases the mark.
LookAgain(d) ==
    /\ At(d, "look")
    /\ \/ Ready(d) /\ Goto(d, "type")
       \/ Goto(d, "unmark")
    /\ UNCHANGED <<client, bus, lease, left, hist>>

\* Runtime.Clear is not fenced, and an error leaves open whether it typed.
Type(d) ==
    /\ At(d, "type")
    /\ hist' = [hist EXCEPT !.calls = Append(@, disp[d].rec)]
    /\ Goto(d, "pass")
    /\ \/ pane' = pane + 1 /\ agent.proc = disp[d].snap.proc /\ UNCHANGED left
       \/ pane' = pane /\ agent.proc # disp[d].snap.proc /\ UNCHANGED left
       \/ pane' = pane /\ Fault
    /\ UNCHANGED <<agent, hooks, snap, swap, bus, lease>>

\* A call of the pass fails (logged; the next pass starts over), the process
\* dies, or the lease runs out under a run that goes on unaware.  (Elsewhere a
\* lost lease is a crash: the run does nothing more before a script refuses it.)
Running(d) == disp[d].pc \notin {"off", "pass"}
Fail(d) ==
    /\ Running(d)
    /\ Fault
    /\ Goto(d, "pass")
    /\ UNCHANGED <<client, bus, lease, hist>>
Crash(d) ==
    /\ Running(d)
    /\ Fault
    /\ disp' = [disp EXCEPT ![d] = Off]
    /\ UNCHANGED <<client, bus, lease, hist>>
Lose(d) ==
    /\ Holds(d) /\ disp[d].pc \in {"look", "type"}
    /\ Spend("losses")
    /\ lease' = None
    /\ UNCHANGED <<client, bus, disp, hist>>
Expire(d) ==
    /\ Holds(d) /\ At(d, "off")
    /\ lease' = None
    /\ UNCHANGED <<client, bus, disp, left, hist>>

-----------------------------------------------------------------------------

Step(d) ==
    \/ Pass(d) \/ Sweep(d) \/ Void(d) \/ Read(d) \/ Prove(d)
    \/ Resume(d) \/ Rebuild(d) \/ Note(d) \/ Escalate(d)
    \/ Forget(d) \/ Unmark(d) \/ Judge(d) \/ Reserve(d) \/ LookAgain(d) \/ Type(d)
Dispatcher(d) == Acquire(d) \/ Step(d) \/ Fail(d) \/ Crash(d) \/ Lose(d) \/ Expire(d)

Client ==
    \/ StartTurn \/ EndTurn \/ Report \/ DeclareHandoff \/ PutSnapshot
    \/ \E state \in {"working", "idle"} : Status(state)
    \/ RunClear \/ ClearByHand \/ \E s \in Sessions : ProveSession(s)
    \/ BeginSwap \/ Replace \/ EndSwap \/ Trim \/ Late

Next == Client \/ \E d \in Slots : Dispatcher(d)

Spec == Init /\ [][Next]_vars

\* The dispatcher runs as a service and its lease expires; the proof's time
\* runs out; a swap ends, or its intent expires.
Fairness ==
    /\ WF_vars(Late) /\ WF_vars(EndSwap)
    /\ WF_vars(\E d \in Slots : Acquire(d))
    /\ \A d \in Slots : WF_vars(Step(d)) /\ WF_vars(Expire(d))
FairSpec == Spec /\ Fairness

-----------------------------------------------------------------------------
(* Properties.                                                              *)

Times == 0 .. 2 * MaxStatuses + 1
Records == [session : Sessions, proc : Nat \ {0}, at : Times] \union {None}
Marks == [session : Sessions, after : 0 .. MaxStatuses, late : BOOLEAN] \union {None}
Snaps == [proc : Nat \ {0}, session : Sessions \union {0}, state : {"idle", "working"}, ts : Times]
Steps == {"off", "pass", "sweep", "void", "read", "prove", "resume", "rebuild", "note", "escalate",
          "forget", "unmark", "judge", "reserve", "look", "type"}

\* Every variable keeps its type.
TypeOK ==
    /\ agent \in [proc : Nat \ {0}, session : Sessions, turn : BOOLEAN,
                  writing : {"none", "idle", "working"}]
    /\ pane \in Nat /\ hooks \subseteq Sessions
    /\ snap \in Snaps /\ record \in Records /\ mark \in Marks
    /\ once \in [{"end", "note"} -> Sessions \union {0}]
    /\ swap \in {"none", "begun", "replaced"} /\ lease \in Slots \union {None}
    /\ disp \in [Slots -> [pc : Steps, snap : Snaps \union {None}, rec : Records, mark : Marks,
                          ended : Sessions \union {0}]]
    /\ left \in [{"statuses", "turns", "swaps", "losses", "faults"} -> Nat]
    /\ left.statuses <= MaxStatuses
    /\ hist \in [sent : Seq(Sessions \X {"resume", "rebuild", "escalate"}), calls : Seq(Records),
                 uncovered : SUBSET Sessions, trimmed : BOOLEAN]

Told(s) == \E i \in DOMAIN hist.sent : hist.sent[i][1] = s

\* A session gets at most one terminal message, whatever crashes between the
\* message, the record's deletion and the mark's, and whoever holds the lease.
OneMessagePerSession ==
    \A i, j \in DOMAIN hist.sent : hist.sent[i][1] = hist.sent[j][1] => i = j

\* An agent is told to go on from its hand-off only when its conversation was
\* cleared and the hand-off covers all it wrote in that conversation.
ResumeCoversWork ==
    [][\A s \in Sessions : hist'.sent = Append(hist.sent, <<s, "resume">>) =>
         s < agent.session /\ s \notin hist.uncovered]_vars

\* A /clear that may have been typed is never forgotten: its session was told
\* something, or the mark still stands for the next pass to settle.
NoClearForgotten ==
    \A i \in DOMAIN hist.calls :
        LET s == hist.calls[i].session IN Told(s) \/ (mark # None /\ mark.session = s)

\* One hand-off is cleared at most once: no crash, failed call or second
\* dispatcher repeats the /clear typed for it.
ClearOncePerHandoff ==
    \A i, j \in DOMAIN hist.calls : hist.calls[i] = hist.calls[j] => i = j

\* A reserved clear comes to an end: a message for its session, or a release.
EveryClearSettles ==
    \A s \in Sessions :
        (mark # None /\ mark.session = s) ~> (Told(s) \/ mark = None \/ mark.session # s)

=============================================================================
