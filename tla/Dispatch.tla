------------------------------ MODULE Dispatch ------------------------------
(***************************************************************************)
(* The wake dispatcher (dispatch/loop.go, dispatch/decide.go) for ONE      *)
(* agent: runs of the dispatcher, fenced by the project's dispatch lease   *)
(* (bus/dispatchkeys.go), read what the agent owes, look at its pane,      *)
(* type a wake prompt into it or escalate, and keep their only memory, the *)
(* agent's wake record, on the bus.  Around them: the agent and its queue, *)
(* the project pause (bus/pause.go) and agentbus swap, which replaces the  *)
(* agent's process under a swap intent (cmd/agentbus/swap.go).             *)
(*                                                                         *)
(* A slot of Slots is one dispatcher process after another; each run draws *)
(* a token of its own.  Messages are numbered in stream order, processes   *)
(* of the agent in the order they are launched; 0 is none of either.       *)
(***************************************************************************)
EXTENDS Naturals

CONSTANTS
    Slots,        \* dispatcher processes that may run side by side
    None,         \* no lease holder
    MaxTries,     \* cfg.MaxTries: prompts without progress before escalating
    Retry,        \* cfg.Retry: ticks between two reservations
    T,            \* cfg.EscalateAfter, in ticks
    workingFactor,
    RecipientActs,\* whether the escalation recipient can act
    MayStall,     \* whether a prompt may take MinPTTL or longer after its reservation
    MayTrim,      \* whether the stream drops entries before the agent read them
    MaxMessages,  \* bound: messages addressed to the agent
    MaxProcs,     \* bound: processes of the agent
    MaxFaults,    \* bound: crashes, failed calls and lost leases
    MaxPauses,    \* bound: pauses of the project
    MaxSwaps      \* bound: swaps of the agent

ASSUME DispatchAssumption ==
    /\ None \notin Slots
    /\ {MaxTries, Retry, T, workingFactor, MaxProcs} \subseteq Nat \ {0}
    /\ {MaxMessages, MaxFaults, MaxPauses, MaxSwaps} \subseteq Nat
    /\ {RecipientActs, MayStall, MayTrim} \subseteq BOOLEAN

VARIABLES
    queue,   \* the agent's group on the cmd stream: published, delivered, acked
    age,     \* message -> ticks since its publication
    agent,   \* its process, its registered process, its receiver lease
    pause,   \* the project pause
    swap,    \* agentbus swap: where it is, and whether its intent is on the bus
    lease,   \* the slot whose token holds the dispatch lease, or None
    ample,   \* whether MinPTTL or more of the lease is left
    wake,    \* the wake record
    since,   \* ticks since the record's last reservation; Retry is "long ago"
    disp,    \* slot -> the step its run is at, and what the run has in hand
    spent,   \* faults, pauses and swaps so far
    hist     \* history: see Init

vars == <<queue, age, agent, pause, swap, lease, ample, wake, since, disp, spent, hist>>
world == <<queue, age, agent, pause, swap>>

Late == workingFactor * T + 1   \* ages saturate just past the last threshold

\* No record: "" in the code's State, and no hash on the bus.
NoWake == [state |-> "none", tries |-> 0, high |-> 0, pid |-> 0, escalated |-> "no",
           cause |-> FALSE, mark |-> 0, pending |-> 0, gap |-> FALSE]
NoLook == [delivered |-> 0, acked |-> 0, high |-> 0, old |-> 0, open |-> FALSE, gap |-> FALSE]
Stopped == [pc |-> "off", snap |-> 0, x |-> NoLook, w |-> NoWake, reset |-> FALSE]

Init ==
    /\ queue = [published |-> 0, delivered |-> 0, acked |-> 0, gap |-> FALSE]
    /\ age = [m \in 1 .. MaxMessages |-> 0]
    /\ agent = [proc |-> 1, last |-> 1, reg |-> 0, armed |-> FALSE]
    /\ pause = "none"
    /\ swap = [pc |-> "off", intent |-> FALSE]
    /\ lease = None /\ ample = TRUE
    /\ wake = NoWake
    /\ since = Retry
    /\ disp = [d \in Slots |-> Stopped]
    /\ spent = [faults |-> 0, pauses |-> 0, swaps |-> 0]
    /\ hist = [typed |-> 0,      \* prompts typed since the agent or an escalation moved on
               told |-> 0,       \* the highest message an escalation was sent for
               gaps |-> FALSE]   \* a gap was announced

Fault(n) == spent.faults + n <= MaxFaults /\ spent' = [spent EXCEPT !.faults = @ + n]

-----------------------------------------------------------------------------
(* The agent, its queue, and the clock.                                     *)

Owed == queue.acked < queue.published
MovedOn == hist' = [hist EXCEPT !.typed = 0]
Published(n) == /\ queue' = [queue EXCEPT !.published = @ + n]
                /\ age' = [m \in DOMAIN age |-> IF m > queue.published THEN 0 ELSE age[m]]

Publish ==
    /\ queue.published < MaxMessages
    /\ Published(1)
    /\ UNCHANGED <<agent, pause, swap, lease, ample, wake, since, disp, spent, hist>>

\* The agent's receiver (Delivery) is armed; it delivers and acknowledges in
\* order, and leaves when nothing is left, after an entry, or at a failure.
Arm ==
    /\ agent.proc # 0 /\ ~agent.armed
    /\ agent' = [agent EXCEPT !.armed = TRUE]
    /\ UNCHANGED <<queue, age, pause, swap, lease, ample, wake, since, disp, spent, hist>>
Take ==
    /\ agent.armed
    /\ queue.delivered < queue.published
    /\ queue' = [queue EXCEPT !.delivered = @ + 1, !.gap = FALSE]
    /\ MovedOn
    /\ UNCHANGED <<age, agent, pause, swap, lease, ample, wake, since, disp, spent>>
Ack ==
    /\ agent.armed
    /\ queue.acked < queue.delivered
    /\ queue' = [queue EXCEPT !.acked = @ + 1]
    /\ agent' \in {agent, [agent EXCEPT !.armed = FALSE]}
    /\ MovedOn
    /\ UNCHANGED <<age, pause, swap, lease, ample, wake, since, disp, spent>>
Disarm ==
    /\ agent.armed
    /\ Fault(IF Owed THEN 1 ELSE 0)
    /\ agent' = [agent EXCEPT !.armed = FALSE]
    /\ UNCHANGED <<queue, age, pause, swap, lease, ample, wake, since, disp, hist>>

\* The agent's process ends, a new one is launched and registers its snapshot.
Die ==
    /\ agent.proc # 0
    /\ agent' = [agent EXCEPT !.proc = 0, !.armed = FALSE]
    /\ UNCHANGED <<queue, age, pause, swap, lease, ample, wake, since, disp, spent, hist>>
Launched == [agent EXCEPT !.proc = agent.last + 1, !.last = @ + 1]
Relaunch ==
    /\ agent.proc = 0 /\ agent.last < MaxProcs
    /\ agent' = Launched
    /\ UNCHANGED <<queue, age, pause, swap, lease, ample, wake, since, disp, spent, hist>>
Register ==
    /\ agent.proc \notin {0, agent.reg}
    /\ agent' = [agent EXCEPT !.reg = agent.proc]
    /\ MovedOn
    /\ UNCHANGED <<queue, age, pause, swap, lease, ample, wake, since, disp, spent>>

\* The stream is trimmed past the agent's cursor: evidence of a gap, until the
\* cursor has passed it.
Trim ==
    /\ MayTrim /\ ~queue.gap
    /\ queue.delivered < queue.published
    /\ queue' = [queue EXCEPT !.gap = TRUE]
    /\ UNCHANGED <<age, agent, pause, swap, lease, ample, wake, since, disp, spent, hist>>

Tick ==
    /\ age' = [m \in DOMAIN age |-> IF m <= queue.published /\ age[m] < Late
                                    THEN age[m] + 1 ELSE age[m]]
    /\ since' = IF since < Retry THEN since + 1 ELSE since
    /\ <<age, since>>' # <<age, since>>
    /\ UNCHANGED <<queue, agent, pause, swap, lease, ample, wake, disp, spent, hist>>

-----------------------------------------------------------------------------
(* The project pause and agentbus swap.                                     *)

SetPause ==
    /\ spent.pauses < MaxPauses
    /\ pause' = "set"
    /\ spent' = [spent EXCEPT !.pauses = @ + 1]
    /\ UNCHANGED <<queue, age, agent, swap, lease, ample, wake, since, disp, hist>>
PauseDue ==
    /\ pause = "set"
    /\ pause' = "due"
    /\ UNCHANGED <<queue, age, agent, swap, lease, ample, wake, since, disp, spent, hist>>
\* The pause ends; its notify target, perhaps this agent, gets the directive.
EndPause ==
    /\ pause' = "none"
    /\ \/ queue.published < MaxMessages /\ Published(1)
       \/ UNCHANGED <<queue, age>>
Resume ==   \* agentbus resume
    /\ pause # "none"
    /\ EndPause
    /\ UNCHANGED <<agent, swap, lease, ample, wake, since, disp, spent, hist>>

SwapGo(pc, intent) == swap' = [pc |-> pc, intent |-> intent]
BeginSwap ==
    /\ swap.pc = "off" /\ ~swap.intent
    /\ spent.swaps < MaxSwaps
    /\ agent.proc # 0 /\ agent.reg = agent.proc
    /\ SwapGo("wait", TRUE)
    /\ spent' = [spent EXCEPT !.swaps = @ + 1]
    /\ UNCHANGED <<queue, age, agent, pause, lease, ample, wake, since, disp, hist>>
SwapCheckUnwaited ==   \* mutant: the wake record is not looked at
    /\ swap.pc = "wait"
    /\ SwapGo("close", TRUE)
    /\ UNCHANGED <<queue, age, agent, pause, lease, ample, wake, since, disp, spent, hist>>
\* A wake that is being typed is waited for.
SwapCheck ==
    /\ swap.pc = "wait"
    /\ wake.state # "prompting"
    /\ SwapGo("close", TRUE)
    /\ UNCHANGED <<queue, age, agent, pause, lease, ample, wake, since, disp, spent, hist>>
ClosePane ==
    /\ swap.pc = "close"
    /\ SwapGo("spawn", TRUE)
    /\ agent' = [agent EXCEPT !.proc = 0, !.armed = FALSE]
    /\ UNCHANGED <<queue, age, pause, lease, ample, wake, since, disp, spent, hist>>
Spawn ==
    /\ swap.pc = "spawn"
    /\ agent.proc = 0 /\ agent.last < MaxProcs
    /\ SwapGo("proof", TRUE)
    /\ agent' = Launched
    /\ UNCHANGED <<queue, age, pause, lease, ample, wake, since, disp, spent, hist>>
\* The new process is proved, or some step failed or took too long; either way
\* the intent goes.
EndSwap ==
    /\ swap.pc # "off"
    /\ SwapGo("off", FALSE)
    /\ UNCHANGED <<queue, age, agent, pause, lease, ample, wake, since, disp, spent, hist>>
\* The swap's caller dies; its intent goes when its TTL runs out.
SwapDies ==
    /\ swap.pc # "off"
    /\ SwapGo("off", TRUE)
    /\ UNCHANGED <<queue, age, agent, pause, lease, ample, wake, since, disp, spent, hist>>
IntentExpires ==
    /\ swap.pc = "off" /\ swap.intent
    /\ SwapGo("off", FALSE)
    /\ UNCHANGED <<queue, age, agent, pause, lease, ample, wake, since, disp, spent, hist>>

-----------------------------------------------------------------------------
(* decide.go: the decision about one agent, from what was read (x), its     *)
(* registered process (snap), its wake record (w) and its pane (in).        *)

Progressed(w, x) ==
    \/ w.mark # 0 /\ x.delivered + 1 > w.mark
    \/ x.delivered - x.acked < w.pending
IdentityChanged(w, snap) == w.pid # 0 /\ snap # 0 /\ snap # w.pid
Reopened(w, x) == w.escalated = "true" /\ w.high # 0 /\ x.high > w.high
NotReopened(w, x, snap) == Progressed(w, x) \/ IdentityChanged(w, snap)   \* mutant
IsReset(w, x, snap) == Progressed(w, x) \/ IdentityChanged(w, snap) \/ Reopened(w, x)
Exhausted(tries) == tries >= MaxTries

Verdict(act, reset, cause) == [act |-> act, reset |-> reset, cause |-> cause, replay |-> FALSE]

\* Rules 6 to 9: prompt a ready pane; wait for any other, and escalate once the
\* oldest message is older than the threshold.
JudgePane(x, snap, in, reset) ==
    IF in = "ready"
    THEN Verdict("prompt", reset, FALSE)
    ELSE LET after == IF in = "working" THEN workingFactor * T ELSE T
         IN  Verdict(IF x.old > after THEN "escalate" ELSE "defer", reset,
                     in \in {"error", "gone", "working", "busy"})

\* Decide, rules 3 to 9: a committed escalation is sent again; one sent is not,
\* unless the pane that caused it is ready; tries run out; the window is open.
Decide(x, snap, w, in) ==
    LET moved == IsReset(w, x, snap)
        rearmed == ~moved /\ w.escalated = "true" /\ w.cause /\ in = "ready"
        reset == moved \/ rearmed
        escalated == IF reset THEN "no" ELSE w.escalated
        tries == IF reset THEN 0 ELSE w.tries
    IN  CASE escalated = "pending" ->
               [Verdict("escalate", reset, w.cause) EXCEPT !.replay = TRUE]
          [] escalated = "true" -> Verdict("none", reset, FALSE)
          [] escalated = "no" /\ Exhausted(tries) -> Verdict("escalate", reset, FALSE)
          [] escalated = "no" /\ ~Exhausted(tries) /\ ~(moved \/ x.open) ->
               Verdict("none", reset, FALSE)
          [] OTHER -> JudgePane(x, snap, in, reset)

-----------------------------------------------------------------------------
(* A run of the dispatcher, one step per call to the bus or the pane.       *)

At(d, pc) == disp[d].pc = pc
Do(d, next) == disp' = [disp EXCEPT ![d] = next]
Holds(d) == lease = d
Pass == [Stopped EXCEPT !.pc = "pass"]
\* Once it has decided, a run has only its record in hand, and the gap to tell.
Keep(d, pc, w) == [Stopped EXCEPT !.pc = pc, !.w = w, !.x.gap = disp[d].x.gap]

\* act is done with record w on the bus: the gap, if any, then the next pass.
EndOfAct(d, w) == IF disp[d].x.gap /\ ~w.gap THEN [disp[d] EXCEPT !.pc = "gap", !.w = w] ELSE Pass
\* put, of a record that is not the one on the bus already.
PutNext(d, r) == IF r = disp[d].w THEN EndOfAct(d, r) ELSE Keep(d, "put", r)

\* step.base: the record with a reset applied.
Marked(w, x) == [w EXCEPT !.mark = x.delivered + 1, !.pending = x.delivered - x.acked]
base(d, w, reset) ==
    IF reset THEN [Marked(w, disp[d].x) EXCEPT !.tries = 0, !.escalated = "no", !.cause = FALSE,
                                               !.pid = disp[d].snap]
    ELSE w

\* SETNX of the run's token; a busy lease ends the process, and its service
\* starts it again.
Acquire(d) ==
    /\ At(d, "off")
    /\ lease = None
    /\ lease' = d /\ ample' = TRUE
    /\ Do(d, Pass)
    /\ UNCHANGED <<world, wake, since, spent, hist>>

PausedForGood(d) ==   \* mutant: a due pause still ends the pass
    /\ At(d, "pass") /\ Holds(d)
    /\ Do(d, IF pause = "none" THEN [Pass EXCEPT !.pc = "look", !.snap = agent.reg] ELSE Pass)
    /\ UNCHANGED <<queue, age, agent, pause, swap, lease, ample, wake, since, spent, hist>>
\* reconcile reads the snapshots once for the whole pass, then the pause: a
\* running one ends the pass; a due one is ended, behind the fence; one that
\* cannot be read counts as none.
Paused(d) ==
    /\ At(d, "pass")
    /\ UNCHANGED <<agent, swap, lease, ample, wake, since, hist>>
    /\ \/ /\ pause = "none"
          /\ Do(d, [Pass EXCEPT !.pc = "look", !.snap = agent.reg])
          /\ UNCHANGED <<queue, age, pause, spent>>
       \/ /\ pause = "set" /\ Holds(d)
          /\ Do(d, Pass)
          /\ UNCHANGED <<queue, age, pause, spent>>
       \/ /\ pause = "due" /\ Holds(d)
          /\ Do(d, [Pass EXCEPT !.pc = "look", !.snap = agent.reg])
          /\ EndPause
          /\ UNCHANGED spent
       \/ /\ pause # "none" /\ Fault(1)
          /\ Do(d, [Pass EXCEPT !.pc = "look", !.snap = agent.reg])
          /\ UNCHANGED <<queue, age, pause>>

\* The obligation, the record, the swap intent, the receiver and the clock.
\* Nothing owed clears the record (rule 1), never deletes it.
Look(d) ==
    /\ At(d, "look")
    /\ LET x == [delivered |-> queue.delivered, acked |-> queue.acked,
                 high |-> IF Owed THEN queue.published ELSE 0,
                 old |-> IF Owed THEN age[queue.acked + 1] ELSE 0,
                 open |-> since = Retry, gap |-> queue.gap]
           cleared == [Marked(wake, x) EXCEPT !.state = "clear", !.tries = 0, !.high = 0,
                                              !.escalated = "no", !.cause = FALSE]
           here == [disp[d] EXCEPT !.x = x, !.w = wake]
           exists == wake.state # "none"
           skipped == swap.intent \/ (~Owed /\ ~exists /\ ~x.gap)
           done == IF x.gap /\ ~wake.gap THEN [here EXCEPT !.pc = "gap"] ELSE Pass
       IN  Do(d, CASE skipped -> Pass
                   [] ~skipped /\ ~Owed -> IF exists /\ cleared # wake
                                           THEN [here EXCEPT !.pc = "put", !.w = cleared] ELSE done
                   [] ~skipped /\ Owed /\ agent.armed -> done   \* rule 2
                   [] OTHER -> [here EXCEPT !.pc = "judge"])
    /\ UNCHANGED <<world, lease, ample, wake, since, spent, hist>>

\* What herdr may answer about the snapshot's pane.  A live one is idle with a
\* clear prompt; working; or blocked, busy, focused, not settled: it may have
\* changed since the last look.  One without the registered process is gone or
\* runs something else, and any inspection may fail.
Inspect(snap) ==
    IF snap = 0 THEN {"unknown"}
    ELSE {"error"} \cup IF agent.proc = snap THEN {"ready", "working", "busy"}
                                             ELSE {"gone", "mismatch"}

\* act: what the run does next on verdict v.
escalate(d, v) ==
    LET b == base(d, disp[d].w, v.reset)
        m == IF b.mark = 0 /\ b.pending = 0 THEN Marked(b, disp[d].x) ELSE b
        r == [m EXCEPT !.state = IF @ = "none" THEN "deferred" ELSE @, !.escalated = "pending",
                       !.cause = v.cause, !.high = IF v.replay THEN @ ELSE disp[d].x.high]
    IN  IF r = disp[d].w THEN Keep(d, "cmd", r) ELSE Keep(d, "pending", r)
act(d, v, onPrompt) ==
    CASE v.act = "none" -> EndOfAct(d, disp[d].w)
      [] v.act = "defer" -> PutNext(d, [base(d, disp[d].w, v.reset) EXCEPT !.state = "deferred"])
      [] v.act = "escalate" -> escalate(d, v)
      [] v.act = "prompt" -> [disp[d] EXCEPT !.pc = onPrompt, !.reset = v.reset]

Judge(d) ==
    /\ At(d, "judge")
    /\ \E in \in Inspect(disp[d].snap) :
         Do(d, act(d, Decide(disp[d].x, disp[d].snap, disp[d].w, in), "recheck"))
    /\ UNCHANGED <<world, lease, ample, wake, since, spent, hist>>

\* prompt, step 0: the swap intent and the pane once more, on the same reads of
\* the bus.
Recheck(d) ==
    /\ At(d, "recheck")
    /\ \/ swap.intent /\ Do(d, EndOfAct(d, disp[d].w))
       \/ /\ ~swap.intent
          /\ \E in \in Inspect(disp[d].snap) :
               Do(d, act(d, Decide(disp[d].x, disp[d].snap, disp[d].w, in), "reserve"))
    /\ UNCHANGED <<world, lease, ample, wake, since, spent, hist>>

Reserved(d) ==
    [Marked(base(d, disp[d].w, disp[d].reset), disp[d].x)
        EXCEPT !.state = "prompting", !.high = disp[d].x.high, !.pid = disp[d].snap,
               !.tries = (IF disp[d].reset THEN 0 ELSE disp[d].w.tries) + 1]
ReserveShort(d) ==   \* mutant: the time left of the lease is not looked at
    /\ At(d, "reserve") /\ Holds(d)
    /\ pause = "none" /\ since = Retry
    /\ wake' = Reserved(d)
    /\ since' = 0
    /\ Do(d, Keep(d, "confirm", Reserved(d)))
    /\ UNCHANGED <<world, lease, ample, spent, hist>>

\* reserveWake: behind the fence, refused under a pause, with less than MinPTTL
\* of the lease left, or inside the retry window of the record on the bus.
Reserve(d) ==
    /\ At(d, "reserve") /\ Holds(d)
    /\ UNCHANGED <<world, lease, ample, spent, hist>>
    /\ \/ /\ pause # "none"
          /\ Do(d, EndOfAct(d, disp[d].w))
          /\ UNCHANGED <<wake, since>>
       \/ /\ pause = "none" /\ ample /\ since = Retry
          /\ wake' = Reserved(d)
          /\ since' = 0
          /\ Do(d, Keep(d, "confirm", Reserved(d)))
       \/ /\ pause = "none" /\ ~(ample /\ since = Retry)
          /\ Do(d, PutNext(d, [base(d, wake, disp[d].reset) EXCEPT !.state = "deferred"]))
          /\ UNCHANGED <<wake, since>>

\* HoldsDispatch, then the last look at the swap intent.
Confirm(d) ==
    /\ At(d, "confirm") /\ Holds(d)
    /\ Do(d, IF swap.intent THEN Keep(d, "put", [disp[d].w EXCEPT !.state = "deferred"])
                            ELSE Keep(d, "type", disp[d].w))
    /\ UNCHANGED <<world, lease, ample, wake, since, spent, hist>>

TypeUncharged(d) ==   \* mutant: the outcome goes on the record of before the reservation
    /\ At(d, "type")
    /\ hist' = [hist EXCEPT !.typed = IF @ < MaxTries + 2 THEN @ + 1 ELSE @]
    /\ Do(d, Keep(d, "put", [disp[d].w EXCEPT !.state = "prompted", !.tries = @ - 1]))
    /\ UNCHANGED <<world, lease, ample, wake, since, spent>>
\* The prompt is typed, observed or not, and its outcome written.
Type(d) ==
    /\ At(d, "type")
    /\ hist' = [hist EXCEPT !.typed = IF @ < MaxTries + 2 THEN @ + 1 ELSE @]
    /\ Do(d, Keep(d, "put", [disp[d].w EXCEPT !.state = "prompted"]))
    /\ UNCHANGED <<world, lease, ample, wake, since, spent>>

PutUnfenced(d) ==   \* mutant: no check of the lease
    /\ At(d, "put")
    /\ wake' = disp[d].w
    /\ Do(d, EndOfAct(d, disp[d].w))
    /\ UNCHANGED <<world, lease, ample, since, spent, hist>>
\* PutWake, behind the fence.
Put(d) ==
    /\ At(d, "put") /\ Holds(d)
    /\ wake' = disp[d].w
    /\ Do(d, EndOfAct(d, disp[d].w))
    /\ UNCHANGED <<world, lease, ample, since, spent, hist>>

\* escalate: the escalation is committed, sent, and only then recorded as sent.
EscalatePending(d) ==
    /\ At(d, "pending") /\ Holds(d)
    /\ wake' = disp[d].w
    /\ Do(d, Keep(d, "cmd", disp[d].w))
    /\ UNCHANGED <<world, lease, ample, since, spent, hist>>
EscalateCmd(d) ==   \* to the recipient, unless it cannot act
    /\ At(d, "cmd")
    /\ RecipientActs => Holds(d)
    /\ Do(d, Keep(d, "notify", disp[d].w))
    /\ UNCHANGED <<world, lease, ample, wake, since, spent, hist>>
EscalateUnsent(d) ==   \* mutant: recorded as sent before it is sent
    /\ At(d, "notify") /\ Holds(d)
    /\ wake' = [disp[d].w EXCEPT !.escalated = "true"]
    /\ Do(d, EndOfAct(d, wake'))
    /\ UNCHANGED <<world, lease, ample, since, spent, hist>>
EscalateNotify(d) ==
    /\ At(d, "notify") /\ Holds(d)
    /\ hist' = [hist EXCEPT !.typed = 0, !.told = IF disp[d].w.high > @ THEN disp[d].w.high ELSE @]
    /\ Do(d, Keep(d, "put", [disp[d].w EXCEPT !.escalated = "true"]))
    /\ UNCHANGED <<world, lease, ample, wake, since, spent>>

\* gap: one notify of a possible trim before read, then its flag.
GapNotify(d) ==
    /\ At(d, "gap") /\ Holds(d)
    /\ hist' = [hist EXCEPT !.gaps = TRUE]
    /\ LET w == disp[d].w
           r == IF w.state = "none" THEN [Marked(w, disp[d].x) EXCEPT !.state = "clear"] ELSE w
       IN  Do(d, Keep(d, "put", [r EXCEPT !.gap = TRUE]))
    /\ UNCHANGED <<world, lease, ample, wake, since, spent>>

\* A call to the bus fails, its effect done or not: the agent's turn is over.
Error(d) ==
    /\ disp[d].pc \in {"look", "recheck", "reserve", "confirm", "put", "pending", "cmd",
                       "notify", "gap"}
    /\ Fault(1)
    /\ Do(d, Pass)
    /\ UNCHANGED <<world, lease, ample, wake, since, hist>>
\* The process is stopped, and releases its lease, or dies, and does not.
Stop(d) ==
    /\ ~At(d, "off")
    /\ Fault(1)
    /\ Do(d, Stopped)
    /\ lease' \in {lease, IF lease = d THEN None ELSE lease}
    /\ UNCHANGED <<world, ample, wake, since, hist>>
\* The fence or the renewal finds the lease lost: the run ends.
Lost(d) ==
    /\ ~At(d, "off") /\ ~Holds(d)
    /\ Do(d, Stopped)
    /\ UNCHANGED <<world, lease, ample, wake, since, spent, hist>>
\* The goroutine beside the loop renews a lease that is still the run's.
Renew(d) ==
    /\ ~At(d, "off") /\ Holds(d)
    /\ ~ample /\ ample' = TRUE
    /\ UNCHANGED <<world, lease, wake, since, disp, spent, hist>>
\* Nobody renews the lease, or too late: its time left falls below MinPTTL, then
\* runs out.  A prompt is typed within MinPTTL of its reservation, unless
\* MayStall: a lease that was ample at the reservation is not yet low by then.
Ebb ==
    /\ lease # None /\ ample
    /\ ~MayStall => disp[lease].pc \notin {"confirm", "type"}
    /\ Fault(IF disp[lease].pc = "off" THEN 0 ELSE 1)
    /\ ample' = FALSE
    /\ UNCHANGED <<world, lease, wake, since, disp, hist>>
Expire ==
    /\ lease # None /\ ~ample
    /\ lease' = None
    /\ UNCHANGED <<world, ample, wake, since, disp, spent, hist>>

DispStep(d) ==
    \/ Acquire(d) \/ Paused(d) \/ Look(d) \/ Judge(d) \/ Recheck(d)
    \/ Reserve(d) \/ Confirm(d) \/ Type(d) \/ Put(d) \/ EscalatePending(d)
    \/ EscalateCmd(d) \/ EscalateNotify(d) \/ GapNotify(d) \/ Lost(d)
SwapStep == SwapCheck \/ ClosePane \/ Spawn \/ EndSwap \/ SwapDies

Next ==
    \/ Publish \/ Arm \/ Take \/ Ack \/ Disarm \/ Die \/ Relaunch \/ Register
    \/ Trim \/ Tick
    \/ SetPause \/ PauseDue \/ Resume
    \/ BeginSwap \/ SwapStep \/ IntentExpires
    \/ Ebb \/ Expire
    \/ \E d \in Slots : DispStep(d) \/ Renew(d) \/ Error(d) \/ Stop(d)

Spec == Init /\ [][Next]_vars

\* The services restart the dispatcher, its goroutine renews, and time passes: pauses fall due, TTLs
\* run out, a swap is bounded, an armed receiver delivers or goes.
Fairness ==
    /\ \A d \in Slots : WF_vars(DispStep(d)) /\ WF_vars(Renew(d))
    /\ WF_vars(Tick) /\ WF_vars((Ebb \/ Expire) /\ UNCHANGED spent) /\ WF_vars(PauseDue)
    /\ WF_vars(SwapStep) /\ WF_vars(IntentExpires)
    /\ WF_vars(Take \/ Ack \/ Disarm)
FairSpec == Spec /\ Fairness

-----------------------------------------------------------------------------
(* Properties.                                                              *)

Messages == 0 .. MaxMessages
Procs == 0 .. MaxProcs
WakeRecord ==
    [state : {"none", "clear", "deferred", "prompting", "prompted"}, tries : 0 .. MaxTries,
     high : Messages, pid : Procs, escalated : {"no", "pending", "true"}, cause : BOOLEAN,
     mark : 0 .. MaxMessages + 1, pending : Messages, gap : BOOLEAN]
LookResult == [delivered : Messages, acked : Messages, high : Messages, old : 0 .. Late,
               open : BOOLEAN, gap : BOOLEAN]
RunState ==
    [pc : {"off", "pass", "look", "judge", "recheck", "reserve", "confirm", "type",
           "put", "pending", "cmd", "notify", "gap"},
     snap : Procs, x : LookResult, w : WakeRecord, reset : BOOLEAN]

TypeOK ==
    /\ queue \in [published : Messages, delivered : Messages, acked : Messages, gap : BOOLEAN]
    /\ queue.acked <= queue.delivered /\ queue.delivered <= queue.published
    /\ age \in [1 .. MaxMessages -> 0 .. Late]
    /\ agent \in [proc : Procs, last : Procs, reg : Procs, armed : BOOLEAN]
    /\ pause \in {"none", "set", "due"}
    /\ swap \in [pc : {"off", "wait", "close", "spawn", "proof"}, intent : BOOLEAN]
    /\ lease \in Slots \cup {None} /\ ample \in BOOLEAN
    /\ wake \in WakeRecord
    /\ since \in 0 .. Retry
    /\ disp \in [Slots -> RunState]
    /\ spent \in [faults : 0 .. MaxFaults, pauses : 0 .. MaxPauses, swaps : 0 .. MaxSwaps]
    /\ hist \in [typed : 0 .. MaxTries + 2, told : Messages, gaps : BOOLEAN]

\* An agent that does nothing is prompted at most MaxTries times (and once more
\* by a pass that looked before it last moved) until somebody is told, whatever
\* crashes, failed calls and changes of dispatcher (decide.go Policy.MaxTries;
\* loop.go charges the try with the reservation).
PromptsBounded == hist.typed <= MaxTries + 1

\* The record says "escalated" only of an escalation that was sent, for every
\* message it covers: a crash in between repeats it, and never loses it
\* (loop.go:740-742).
EscalatedWasTold == wake.escalated = "true" => hist.told >= wake.high

\* The record says "gap notified" only once the notify is on the bus.
GapFlagIsTrue == wake.gap => hist.gaps

\* The run that holds the lease knows the record: what it has in hand between
\* its look and its write is what is on the bus, so that a write of the whole
\* record never undoes another dispatcher's.
HolderKnowsRecord ==
    lease # None /\ disp[lease].pc \in {"judge", "recheck", "reserve", "confirm", "type", "cmd",
                                        "notify", "gap"} =>
        disp[lease].w = wake

\* A prompt is about to be typed only by the run that holds the lease, so by one
\* run, and on the strength of its own reservation: the record on the bus is the
\* one it reserved, with the try charged.  The reservation needs MinPTTL of the
\* lease for it (dispatchkeys.go:108, loop.go:682).
TypesUnderReservation ==
    \A d \in Slots : At(d, "type") =>
        /\ Holds(d)
        /\ wake = disp[d].w
        /\ wake.state = "prompting" /\ wake.tries > 0

\* Once a swap has passed its wait, no prompt is typed: it never lands in the
\* pane being closed, nor in the new one before its proof (swap.go:263-264,
\* loop.go:710-711).
NoPromptIntoSwap ==
    swap.pc \in {"close", "spawn", "proof"} => \A d \in Slots : ~At(d, "type")

\* The inductive strengthening of the properties above: what was read is
\* consistent; a run about to reserve has a try left, and no escalation stands;
\* no record in hand claims more than was done; a run between its reservation
\* and its prompt has the reservation in hand, the lease while it types, and time
\* left of it; and a swap under way has its intent on the bus.
ReadsInOrder == \A d \in Slots : disp[d].x.acked <= disp[d].x.delivered
TryIsLeft ==
    \A d \in Slots : At(d, "reserve") =>
        disp[d].reset \/ (disp[d].w.tries < MaxTries /\ disp[d].w.escalated = "no")
InHandIsTrue ==
    \A d \in Slots : /\ disp[d].w.escalated = "true" => hist.told >= disp[d].w.high
                     /\ disp[d].w.gap => hist.gaps
ReservedInHand ==
    \A d \in Slots : /\ disp[d].pc \in {"confirm", "type"} =>
                             disp[d].w.state = "prompting" /\ disp[d].w.tries > 0
                     /\ At(d, "type") /\ ~MayStall => Holds(d)
TimeIsLeft == ~MayStall /\ lease # None /\ disp[lease].pc \in {"confirm", "type"} => ample
IntentStands == swap.pc # "off" => swap.intent
DispatchInv ==
    /\ ReadsInOrder /\ TryIsLeft /\ InHandIsTrue /\ ReservedInHand /\ TimeIsLeft /\ IntentStands
    /\ EscalatedWasTold /\ GapFlagIsTrue /\ HolderKnowsRecord
    /\ ~MayStall => NoPromptIntoSwap

\* No message is forgotten: each is acknowledged or somebody is told of it,
\* through crashes, pauses, swaps, dead agents and dispatchers that lose the
\* lease, as long as dispatchers are restarted.
Forgotten == queue.published > queue.acked /\ queue.published > hist.told
NeverForgotten == Forgotten ~> ~Forgotten

=============================================================================
