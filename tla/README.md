# A TLA+ model of agent-bus

agent-bus lets several coding agents work on one project over Redis Streams: they
exchange commands, requests, questions and verdicts, a dispatcher wakes the ones that
have something to do, and a conductor drives missions through them. This directory
models the parts whose correctness depends on the order in which processes act, checks
them with TLC on small instances, and proves what matters most with TLAPS.

    tlc -config MCDelivery.cfg MCDelivery       # any run of the table below
    tlapm Delivery_proofs.tla                   # its proofs (about two minutes)
    tlapm Dispatch_proofs.tla                   # about two minutes
    tlapm MissionState_proofs.tla
    tlapm Suspend_proofs.tla                    # about four minutes
    tlapm Clear_proofs.tla                      # about three minutes
    tlapm Quota_proofs.tla                      # about two minutes
    tlapm ConductorRecords.tla                  # about one minute
    tlapm Conductor_proofs.tla                  # about eleven minutes

Paths are relative to `src/`. `{p}` is the project's key prefix.

## 1. The system

### Components, their state, and how they meet

| component | state | operations | meets the others through |
|---|---|---|---|
| **cmd delivery** `bus/delivery.go`, `cmd/agentbus/subscribe.go` | the stream `{p}:cmd`, one consumer group per agent (cursor and pending list), the receiver lease `{p}:receiver:{agent}` | subscribe (plain, `--since`, `--loop`, `--drain`), the conductor's inbox, the peer's held receiver | the board (delivery metadata); the dispatcher reads cursor, pending list and lease |
| **wake dispatcher** `dispatch/loop.go`, `dispatch/decide.go`, `bus/dispatchkeys.go` | the dispatch lease `{p}:dispatch`; per agent a wake record `{p}:wake:{agent}`; nothing of its own | one pass over all agents after another: decide, prompt a pane, escalate, announce a gap, clear | reads the delivery state, agent snapshots, swap intents, the pause; types into panes |
| **project pause** `bus/pause.go` | `{p}:pause` | pause, resume, due | the dispatcher ends a due pause and refuses reservations under one |
| **suspend and resume** `bus/suspend.go`, `cmd/agentbus/suspend*.go`, `resume*.go` | the suspend record in `{p}:pause` (services, the pause it replaced), a snapshot file per project, the up lock of the machine | suspend (stop the dispatcher, wait until quiet, stop the rest, write the file), cancel, resume (start, relaunch, prove, lift) | reads wake records, panes and agent snapshots; stops and starts services |
| **agent swap**, relaunch, reload, retire `cmd/agentbus/swap.go` ..., `bus/swap.go`, `bus/swaplog.go` | the intent `{p}:swap:{role}`, the ledger `{p}:swaps`, the fallback state | begin, wait for a wake being typed, close, spawn, prove, finish | wake record (read), intent (read by the dispatcher and by request scripts) |
| **requests and board** `bus/requests.go` | `{p}:board`: one entry per task with owner, state, delivery metadata | request, accept, block, complete, reply, expire | delivery writes its metadata; the conductor its own fields |
| **conductor and missions** `mission/`, `bus/conductorkeys.go` | `{p}:missions` (a record per mission and per change), the conductor's lease and cursors; a Git worktree and the change branch | `Next`, a pass over each change, fenced writes of whole records, checks, review, integration, completion, repair at start, the operator's commands | requests, challenges, verdicts, the ops stream, Git |
| **asks** `bus/asks.go` | questions to the person and their answers | ask, answer, expire | delivery brings the answer (a `human=yes` entry) |
| **gates, challenges, verdicts** `bus/gates.go`, `bus/stream.go` | the gate keys, the ledger `{p}:verdicts` | open, resolve, append a verdict | the conductor reads the ledger |
| **quota holds** `quota/`, `dispatch/quota.go`, `dispatch/resume.go`, `bus/quotakeys.go` | hold, resumed and back marks per provider and episode in `{p}:quota` | hold, release, resume once, notices | dispatcher (a held agent is skipped); a swap sends its resume through the same mark |
| **handoff and clear** `bus/handoff.go`, `dispatch/handoff.go`, `dispatch/clear.go` | the record in `{p}:handoff`, the clear's mark and its once marks in `{p}:quota` | declare, void by new work, reserve, type `/clear`, prove by the session hook, resume, rebuild or escalate | the dispatcher's pass; statuses, reports and turn hooks |
| **once keys, pop retirement** `bus/once.go`, `dispatch/popretire.go` | marks of commands sent once | send under a mark, retire | the dispatcher's pass |
| **local-LLM peer** `peer/` | its held receiver; the turn it is in | drain, deliver, retry under the lease | delivery, requests |
| **merge queue** `mergequeue/` | derived from reports and the forge | take the next, merge, report | the dispatcher runs it as a chore |
| **health, notifications, observation** | readings, notices sent | checks, notify | the dispatcher's chores |
| **plan, backup, history, config, roles, setup, services, busmon, memory, tokens, usage, models, forge** | files, readings, the terminal view | parsing, writing, archiving, rendering | the bus, as readers (busmon also purges) |

Everything shared is in Redis. A step that must be atomic is a Lua script; a step that
must be exclusive checks a lease's token in that script (the *fence*). What is hard is
everything between two such steps.

### What is hard, and what makes each part correct

* **Leases run out under their holders.** A run may be slow, suspended or dead for longer
  than its TTL; it finds out at its next fenced step, or never. Delivery must then neither
  lose an entry nor settle one the new holder has (`OnlyHolderSettles`,
  `AckedWasWritten`); the dispatcher must not undo its successor's record
  (`HolderKnowsRecord`).
* **Steps that are not fenced.** `XREADGROUP >` is not, the output is not, the typing of a
  prompt is not. Two runs may hold the same entry; at most one copy may look first-time
  (`FirstWriteOnce`).
* **Crashes between two writes**: output and acknowledgement, reservation and prompt,
  committed and sent escalation (`BoardHonest`, `PromptsBounded`, `EscalatedWasTold`); the
  conductor's record, the merge, the suite and the record of its result
  (`IntegratedIsGreen`, `NeverStalls`); a message sent once and what is deleted after it
  (`OneMessagePerSession`, `ResumedOncePerEpisode`); a suspend and its cancel
  (`ServicesComeBack`).
* **One step of several failing.** What a record owes is several calls, each followed by a
  flag: none may be forgotten or marked done before it was (`NoForgottenRequest`,
  `SignalsHonest`, `OnlyRecordedMerges`, `OwedIsDone`); a release may fail for one agent of
  several (`ReleaseLeavesNobody`); whether `/clear` was typed may stay unknown
  (`NoClearForgotten`, `ClearOncePerHandoff`).
* **Two components that write the same promise**: a release and a swap both resume an agent
  (`NoSecondResume`); a pause's end and a suspend both replace the pause (`OnlyCommandsLift`).
* **Late and changed answers**: work of a superseded attempt, a verdict given on another
  commit or changed (`DeliveredByCurrent`, `MergedWasReviewed`).
* **Retention.** A body can go before its entry is read, or while it is pending
  (`AckedWasWritten`); a status after a reservation may be trimmed (`ResumeCoversWork`).
* **Reads grown stale**: the obligation, the swap intent, the pane (`NoPromptIntoSwap`,
  `QuietMeansQuiet`), a snapshot file of an earlier suspend (`StopsOnlyWhenQuiet`); the board
  a long pass works on (`DeliveredByCurrent`).
* **Progress.** Behind a failing entry every other is still reached
  (`EveryEntryDelivered`); no message is forgotten (`NeverForgotten`); a mission that waits
  for nobody but the conductor moves (`NeverStalls`, `CompletionIsDecided`); a clear in flight,
  interrupted work and a suspend all come to an end (`EveryClearSettles`,
  `InterruptedIsResumed`, `SuspendIsLifted`).

The hazards, each at its line, are in `PROJECT.json`.

## 2. The modules

### Delivery: one agent's group, lease and runs

`Delivery` models `bus/delivery.go` for one agent. A member of `Subs` is one run of a
program that reads the group, from its start to its end; since every run draws a random
token, the run *is* its token, and `lease` names it.

| state | in the code |
|---|---|
| `cmd`, `len`, `trimmed` | the stream: kind and stream id `<<ms, seq>>` of each position; bodies up to `trimmed` are gone |
| `group`, `pel` | `XINFO GROUPS` and `XPENDING`: cursor, and per pending entry its delivery count |
| `lease` | `{p}:receiver:{agent}` |
| `board` | `delivery`, `attempts`, `duplicate_possible` of the request's board entry |
| `run` | where a run is, its floor, and the entry in its hands (`Event`: recovered, attempt, delivery) |
| `outputs`, `acked` | history, read by no action |

`deliverOne` is cut at each call to Redis: `Poll` (XPENDING), `Claim` (the script
`claimRetained`), `Read` (XREADGROUP, not fenced), `Record` (`deliveryRecord` "attempt"),
`Output` (the callback; not fenced), `Finish` or `Skip` (metadata and XACK in one script).
`Start`, `Acquire`, `Busy`, `Enter`, `NothingToRead` are `holdReceiver`, the creation of
the group and the ends of a drain; `OutputFails`, `Fail`, `Crash` and `Expire` are a failed
write (possibly a complete one), a failed or refused call, the death of the process, and
the TTL. The lease has no clock: `Expire` may happen at any step, which includes every
timing of the 30 s TTL and its 10 s renewal. Six modes are modelled: `drain`, `once` (a
plain subscribe, which keeps what a person wrote within the horizon), `since`, `loop`,
`inbox` (the conductor's) and `peer` (a held receiver that retries under its lease, `EndsOrRetries`).

An entry's text, sender and task are a *kind*: an order, a person's entry, a tracked
request, one with a deadline, and two addressed elsewhere. Left out: the wording of output
lines, the reconnection of the client (a failed call), the idle window's length; and a peer's retry
after a failed call with no entry in hand, which only reads again: there the run ends and another
may start.

### Dispatch: the dispatcher and one agent

`Dispatch` models the pass of `dispatch/loop.go` over one agent, `Decide` as an operator,
the fenced scripts of `bus/dispatchkeys.go`, and what the dispatcher reads: the agent and
its queue (here only three counters, published, delivered and acknowledged), the pause
and a swap of that agent.

| state | in the code |
|---|---|
| `lease`, `ample` | `{p}:dispatch`, and whether its TTL still has `MinPTTL` or more; a slot of `Slots` is one dispatcher process after another |
| `wake`, `since` | `WakeRecord`; `since` is the time since its `At`, saturating at `Retry` |
| `disp` | where a run is and what it carries: the snapshot of the pass, what it read (`x`), the record in hand (`w`) |
| `queue`, `age`, `agent` | the agent's group, the ages of its messages, its process, its snapshot, its receiver lease |
| `pause`, `swap` | `{p}:pause`; where `agentbus swap` is and whether its intent is on the bus |
| `hist` | history: prompts typed since anything moved, the highest message somebody was told of, whether a gap was announced |

The pass is `Paused` → `Look` → `Judge` → `Recheck` → `Reserve` → `Confirm` → `Type` →
`Put`; an escalation is `EscalatePending` → `EscalateCmd` → `EscalateNotify` → `Put`; a gap
`GapNotify` → `Put`. `Error`, `Stop` and `Lost` can come between any two. The lease has no clock but two
marks: `Ebb` (less than `MinPTTL` is left), then `Expire`; `Renew` is the goroutine beside the loop and
makes it ample again. Of a live holder `Ebb` is a fault: its renewal failed, or it was suspended. The
reservation is refused while the lease is not ample.

What is abstracted, and why that keeps the properties:

* **One agent.** A pass handles agents one after the other and shares nothing between them
  but the lease, the snapshots and the pause.
* **Look is one instant.** `agent()` reads the obligation, the record, the intent, the
  receiver and the clock in turn, and decides only when it has all five. The model lets
  anything happen before and after, not between.
* **HoldsDispatch and the last look at the intent are one step** (`Confirm`). The order
  that matters for a swap, reservation *before* this look, is kept.
* **A pane is the answers of an inspection** (`Inspect`): any answer the snapshot allows,
  each time anew, which is more than any real pane can do.
* **The record's `At`** is kept as its age; only the lease holder writes records
  (`PutWake` has no other caller than `loop.put`, `DeleteWake` has none), so the age is
  never that of an overwritten record.
* `prompted` stands for `prompted` and `unobserved`, which no decision distinguishes.
* **A swap's intent outlives the swap that holds it**: its TTL is 3 minutes, the swap's own
  waits sum to 85 seconds (10 + 15 + 60).
* The creation of a missing group, the identity and focus notices, the chores beside the loop
  and messages older than the horizon are left out. Three of those chores have modules of their
  own: `Clear`, `Quota` and, for what stops the loop, `Suspend`.

### MissionState: the life of a change's missions

`MissionState` is the transition table of `mission/state.go` (12 states, 18 events) as three
operators, `From`, `To` and `Acts`, and an abstract specification over two variables, the
state and the rejections of each mission. It adds to the table the guards its only caller
has: a mission is unlocked after its dependencies are integrated, one merge at a time. That
is what the conductor promises, whatever it keeps in memory and whenever it dies.

### Conductor: one change, its conductor, and everyone it waits for

`Conductor` models `mission/conductor.go`, `integrate.go`, `complete.go` and the single-change
commands of `ops.go`. It instantiates `MissionState`, with `st` and `rejections` read off the
records on the bus, uses its table (`Take`, `Transition`), and is shown to implement its
specification (`MissionsLife`).

| state | in the code |
|---|---|
| `rec`, `chg` | the mission records and the change record of `{p}:missions` |
| `board`, `gates`, `ledger` | the tasks of the attempts, the review gates, the roll-up of the reviewer's verdicts |
| `git` | the head of the change branch (what is merged, in order), a merge in progress, a soiled worktree |
| `overdue` | tasks accepted longer ago than their timeout |
| `c` | the process: the call it is about to make, the mission and the record in its hands, and the copies a pass works on (`mem`, `seen`) |
| `faults`, `spent` | what the bounds count |
| `hist` | history: who was told, warned, asked; what was checked, approved, tested; signals sent |

Each step of `c` is one call to Redis or Git with the code up to the next one. `Startup`,
`Recheck`, `RepairMerge`, `RepairDirty`, `ReportDirty`, `Resume`, `Repaired` are `Startup` and
`repairIntegration`; `BeginPass` reads records and board once, as `Pass` does; `CloseAttempt`,
`TellAgent`, `CloseReview`, `OpenReview`, `NoteSkip`, `Escalate`, each followed by `Flag`, are
`effects` in its order; `Unlock` to `Integrate` are the cases of `advance`; `NotifyLate`,
`EndTurn` its late reports; `Complete` is `checkComplete`; `Operate`, `StartAbort`,
`AbortMission`, `EndAbort` are `HandleOp`. A failed call (`Fault`) may have had its effect or
not. Around it: `Accept`, `Block`, `Done` of the agents, at any time and also on a superseded
task; `Deadline`; `Verdict`, unfenced; `Soil` and `Clean`; `Crash`.

What is abstracted, and why that keeps the properties:

* **One change.** Changes share only the process and its lease; a pass treats them in turn.
* **No lease variable.** Every conductor holds a lock of the machine from start to end and ends
  when its lease is lost, so a second one begins after the first has stopped: a lost lease is a
  `Crash` followed by `Startup`.
* **A pass takes the missions in the order of their ids**, 1 to N. In an aborted change the code
  takes them in any order; they no longer have anything to do with each other.
* **The look at the worktree and the merge or repair after it are one step.** Somebody may soil
  the worktree before and after.
* **Agents' names** are left out, as are the reviewer's choice and the text of requests. A
  retry and a reassign then do the same to a record.
* **Verdicts on a commit are its roll-up**, what `readReview` would compute at that instant.
* **Commands are not redelivered.** They may be issued again, which is the same to the handlers.
* `repairIntegration` always looks at Git; the code returns at once while there is no integration
  worktree, that is before the first merge, when there is nothing to repair.
* An attempt's task name is free: the loop that passes over names already on the board
  (`conductor.go:399`) is for records recovered after Redis was lost, which are left out.
* The branch of `advance` for a ready mission with an attempt cannot be reached (nothing leads
  back to ready) and is left out; so are `load`, the reload of a changed file and the recovery
  of lost records.

### Clear: one agent's hand-off and the /clear after it

`Clear` models `bus/handoff.go`, `dispatch/handoff.go`, `dispatch/clear.go` and what they read:
the agent's snapshot (`bus/ident.go`, `bus/turnstate.go`), its statuses and reports, its sessions.

| state | in the code |
|---|---|
| `agent`, `pane`, `hooks` | the client: process, session, turn, the status it is writing; `/clear` lines typed and not yet run; SessionStart hooks on their way |
| `snap` | `{p}:agents`: process, proved session, state, time |
| `record`, `mark`, `once` | `{p}:handoff`; `clear:<agent>` with the reservation's boundary; `clear-end` and `clear-note` |
| `swap` | the swap intent, and whether the process was replaced under it |
| `lease`, `disp` | `{p}:dispatch`; where each dispatcher's run is and what it read |
| `left`, `hist` | the budget of the behaviour; the messages sent, the clears typed, the sessions with work no hand-off covers |

A pass is `Pass` (reconcile reads the snapshots once) → `Sweep`, `Void` (handoffPass) → `Read`
(clearPass) → `Prove` and its outcome, or `Judge` → `Reserve` → `LookAgain` → `Type`. The outcomes of
`proveClear` are `Resume` → `Forget` → `Unmark`; `Rebuild` → `Note` → `Unmark`; `Escalate`. Each
is one fenced script; a run whose lease went is refused there. `Status` is two steps, the stream with
the record's deletion in one transaction, then the snapshot, best effort (`PutSnapshot`), so a hook, a
turn flip or a dispatcher may come between.

Abstracted: stream ids and times are the number of statuses so far (only their order is compared);
what may only *defer* a clear (the switch, a hold, an open ask, an armed receiver, a wake being
typed, a focused pane, open review gates, a paused project) is a choice of `Judge`; `clearWaits`
sends a notice and is left out. That a status was trimmed is a flag, `StatusAfter` answers yes
then, as its count of added entries makes it do. A session is proved in the order of sessions: the code
compares the hook's stamp with the last one, and a session that a status filled in has none
(`ident.go:52`), so there a hook that was long delayed may move the session back. SessionStart's own
turn-end flip is left out: a snapshot whose Stop flip was lost stays working into the next session,
which only defers what the dispatcher does.

### Quota: a provider's hold, its release, and a swap beside them

`Quota` models the hold of one provider in `dispatch/quota.go`, `resumeAfterHold` and its notices in
`dispatch/resume.go`, the once script, and `agentbus swap` of a worker to another provider, which
sends the resume itself.

| state | in the code |
|---|---|
| `limit` | the provider's window and whether it is at its limit |
| `agent`, `snap`, `accepted` | the processes and their turns (none, running, cut); `{p}:agents`; the board's accepted tasks |
| `queue` | the resume directives in each agent's stream: episode, sender, unread, pending or read |
| `marks`, `fallback`, `intent` | `hold:p`, `resumed:p:<agent>`, `resumed:p:@notice`, `back:p:<agent>`; `{p}:fallback`; the swap intents |
| `swap`, `disp` | where the swap command and the pass are, and what they read |
| `excused` | history: agents a failed or dead swap leaves to the person it tells, or cut again within an episode |

`Judge` → `Forget` → `Hold`; at a release `Owed` → (`Check` → `SendResume`) per agent by name → `Notice` →
`Back` → `Drop`, the hold mark last. The swap is `Preflight` → `BeginSwap` → `ClosePane` → `Launch` →
`Prove` → `FinishSwap` → `Work` → `Queued` → `SwapResume` → `EndSwap`. Error paths are the code's:
the error of one recipient skips the later ones of that pass (`err` is not reset), a fallback
state that cannot be written keeps the intent until it expires.

Abstracted: one dispatcher (every write of the pass is fenced, so a lost lease is `CrashPass`); the
pass's readings are one instant; a reading is usable or unknown, of one window whose reset is a number
(`SameReset`'s tolerance, `ServedSince` and a hold whose window is replaced by a tighter one are
collapsed into it); the coordinator runs on another
provider, so its quota pause is left out, as are warnings and long holds. `disp.cut` is history as
well: the agents whose turns the limit had cut when the release was judged.

### Suspend: a project taken down and brought back

`Suspend` models `agentbus suspend` and `agentbus resume` of one project with one agent and two
services, beside a dispatcher that wakes it and a timed pause.

| state | in the code |
|---|---|
| `pause`, `clock`, `due` | `{p}:pause`, a timed pause or a suspend with its services and previous pause; pauses are numbered, a time is the number of the latest |
| `active` | the services that run |
| `lease`, `disp`, `wake` | the dispatch lease, the dispatcher's step, the wake record |
| `agent`, `snap` | alive, its turn, typed input not yet taken; its snapshot: idle, working or declared otherwise (`waiting` stands for waiting, blocked and done), flipped by a hook or declared, and whether it is later than the wake's boundary |
| `file` | the snapshot file: when its facts were read, its services |
| `cmd` | the command that holds the machine's up lock: its step and what it has in hand |
| `hist` | history: suspends judged quiet, forced, waited for without a dispatcher, in whose wait the agent declared itself at rest inside a turn (`said`); the services that ran when the latest was written |

A suspend is `ReadServices` → `WriteSuspend` → `StopDispatch` → rounds (`RoundNow`, the server's time, then
`Round`, the readings and the rule of `suspendquiet.go`) → `Facts` → `Stops` → `WriteSnapshot`; a deadline or a
signal goes `GiveUp` → `StartAgain` → `Cancel`; a second suspend continues a first that has no current
snapshot. A resume is `Start` → `Up` → `Proof` → `Lift` → `SetAside`. `Kill` may end either at any step,
`Reboot` takes a suspended project's machine down. `Settle` is the settle time the rule counts from
the wake's boundary; a typed input starts its turn within it.

What the agent's snapshot says comes from two writers. Its turn hooks flip it between idle and working
(`Flip`), never from another declared state. And the agent declares its state itself, from inside a
turn that goes on (`Declare`: `agentbus status`), which wins over a flip; the time of a declaration is
its entry's, so one written late may be older than the boundary (`late`). The quiet rule takes both
for the end of the woken turn (`Woken`). Hooks and panes: either the hooks always run and the pane may
not be inspectable, or a hook may be lost and the pane can be inspected (`left.hooks`); with neither
the rule has nothing to go by.

Left out: services as herdr tabs, the refusal under swap intents, several agents and projects, dormant
agents, pops, `resume --all` after a crash of the machine, the texts of directives, and a snapshot
write that fails after its status (best effort; then the snapshot is as if nothing had been declared).
The end of a turn and the start of what was typed during it are one step with both flips: the client
starts it at once, and the rule wants two quiet rounds 2 s apart.

### The other modules

`MCDelivery`, `MCDispatch`, `MCConductor`, `MCClear`, `MCQuota` and `MCSuspend` add the instances'
definitions, budgets and symmetry. The modules named `..._proofs` extend the ones they are named after
with their theorems.

## 3. The runs

| run | instance | shows |
|---|---|---|
| `delivery_safety` | 2 runs (drain or plain subscribe), 2 entries of 3 kinds, clock 2, crashes and expiry at every step; 1.1 M states | nothing acknowledged unwritten, one first-time write, what a person wrote kept, only the holder settles |
| `delivery_live` | a run that never stops reading, beside one peer, `--since`, inbox or loop run that fails anywhere; a purge; 257 k states | `EveryEntryDelivered`; the board stays honest through takeovers and the peer's retries |
| `dispatch_safety` | 2 dispatchers, 1 message, 2 tries, a trim, one fault anywhere, also a renewal that does not come; 1.1 M states | prompts bounded, nothing recorded as sent that was not, the holder knows the record, prompts only by the lease's holder and under its reservation |
| `dispatch_recover` | 2 messages, one fault anywhere, leases that stall, an escalation target that never acts; 429 k states | `NeverForgotten` through a crash between commit and sending, and for a message that arrives after an escalation |
| `dispatch_swap` | a swap whose caller may die, a timed pause, 2 processes of the agent; 387 k states | `NoPromptIntoSwap`; `NeverForgotten` through the pause and an intent left behind |
| `conductor_crash` | 2 missions, the second after the first; one crash anywhere, deadlines missed, 2 verdicts, a soiled worktree; 51 k states | reviewed, tested, current work only is merged and recorded; the missions live as `MissionState`; nothing stalls |
| `conductor_faults` | 1 mission, one command of four, one failed call anywhere, 2 verdicts; 369 k states | attempts, blocks and merges are never forgotten or claimed too early; signals once; what is owed is done |
| `clear` | 2 dispatchers, 2 sessions, 2 statuses; a fault anywhere with a second turn, a swap, or a lease lost while `/clear` is typed; 258 k states | one `/clear` per hand-off, one message per session, no clear forgotten, "go on from your hand-off" only when it covers the work |
| `quota` | 2 workers; a fault anywhere with a swap, a limit hit twice, or both cut; a swap that outlives its hold; 750 k states | one resume per episode, never two waiting, the hold goes last, interrupted work goes on |
| `suspend` | a wake and a turn around a suspend with and without hooks, with a fault or with a declaration; a due pause and a reboot; three suspends with two faults; 883 k states | quiet means quiet, services stop only then and all come back, only its commands lift a suspend, and it is lifted |
| `conductor_stall` | 1 mission, one failed call | **violated**: `ChecksEnd` |
| `suspend_unread` | the budgets of `suspend` | **violated**: `UnreadStartsAll` |

**Why the bounds are enough.** Delivery's hazards are between *two* runs and about *one*
entry; a second entry is what makes a skip, a cursor that passes over a body, and a trim
(`Retain = 1`) possible; a clock of two ticks with `Horizon = 1` has an entry below, at and
above a floor and a horizon. The theorems below lift the safety properties to any number of
runs and entries. Dispatch needs two dispatchers only to lose a lease to another;
`MaxTries = 2` is the smallest that distinguishes "the last try" from "the only one";
`T`, `Retry` and `workingFactor` of one tick keep every order of the three deadlines.
`MaxFaults` bounds crashes, failed calls and live leases lost; each property already meets its
hazard with one.

`Clear`, `Quota` and `Suspend` start from one of several *budgets* (`Small` in their MC modules): what
is scarce in a behaviour (turns, statuses, declarations, faults, swaps, pauses, suspends) is spent from it, so
that each budget spends the states on one combination. `Clear` needs two sessions, the cleared one
and the next; two statuses, one for the hand-off and one around the clear; two turns, the second of
which may come before, during or after the proof. `Quota` needs two workers because of what the
failure of one does to the next; the limit hit twice is what tells an episode from the one before,
and a swap beside it what a swap does whose hold has gone.
`Suspend` needs three suspends and two faults for a snapshot file that outlives its own suspend (one
whose resume could not set it aside), and for a second command that completes what a first left. One
declaration is enough to be taken for the end of a turn, inside the woken turn or an own one with a
typed input waiting behind it.

`PromptsBounded` allows `MaxTries + 1`: a pass that looked before the agent last moved may
still prompt once. It needs prompts that are typed within `MinPTTL` (5 s) of their reservation
(`MayStall = FALSE`): a lease that was ample when the prompt was reserved is then not yet low when it
is typed, which is the one thing `Ebb` assumes. What makes it enough is the code's: the reservation
refuses a lease that is not ample. Without that check (`ReserveShort`) TLC types a prompt that nobody
holds the lease for, since a lease that is low may run out at any step. A dispatcher stopped between
reservation and typing for longer types one prompt more when it wakes. `TypesUnderReservation` and
`NoPromptIntoSwap` rest on the same assumption; nothing else does.

The conductor's hazards are a crash, a failed call or a command between two calls of *one*
mission's turn; a second mission is there for what one mission does to another: the
dependency, the single merge, the copy of the pass. `MaxAttempts = 1` makes the first rejection
the last; a command opens the second round, and with it a superseded attempt. Two verdicts are
the smallest number with a change of mind. Crashes and failed calls are split over the two runs:
a crash before a call and a failed call that had or had not its effect leave the same records,
what differs is that after the failed call the pass goes on. Two properties have a limit that
the split makes visible. `MissionsLife` is checked without failed calls: a pass goes on with its
own copy of a record whose write failed and may unlock a dependent one pass before the bus says
integrated (the commit is on the branch and tested by then). `OnlyRecordedMerges` says what it
says of a worktree nobody soiled: a merge found in a soiled one is blocked where it stands.

**Deadlock** is checked for `Conductor`, `Clear` and `Quota`, which always have a next pass, and
for `Dispatch`, where time, agents and dispatchers never stop. The `Delivery` instances stop when
every run has ended and every entry is published, and a suspended project whose commands are
spent rests for good, so the cfgs of `Delivery` and `Suspend` turn the check off.

**Symmetry** is used over `Subs` and `Slots` in the two safety runs, never under liveness. In
`Clear` the slots are interchangeable by construction: a run takes the first that is off.

### Fairness

`Delivery!FairSpec`: every step of a started run is eventually taken, or its idle window
closes (`Alive`: weak fairness per run; a `--loop` has no idle window); a dead run's lease
expires; the `Steady` run is started. `Steady` stands for the agent's own receiver, which
its client re-arms each time: without somebody who keeps reading nothing is owed. Publishing,
purging and failing are not fair.

`Dispatch!FairSpec`: each slot's own steps (a service restarts the dispatcher) and its renewals, time,
the ebb and expiry of a dead holder's lease, a pause falling due, the steps of a swap and the expiry of
its intent; and an armed receiver either delivers or goes. Faults are bounded, so weak
fairness is enough: after the last fault a dispatcher keeps its lease. The agent itself need not
do anything, ever: `Arm` and `Register` are not fair.

`Conductor!FairSpec`: `WF_vars(Conduct)`: some step of the conductor is eventually taken. The
service restarts it, its loop ticks, and its steps come one after the other in one goroutine.
Agents, the reviewer, the operator, deadlines and the cleaning of the worktree are not fair:
what waits for them may wait for ever, and the liveness properties name only the states in which
nobody else is waited for.

`Clear!FairSpec`: the steps of a dispatcher's run, the taking of the lease and its expiry, the end of a
swap or of its intent, and the proof's time running out. The agent, its hooks and its client are not
fair: a `/clear` that is never run and a hook that never comes are what the escalation is for.

`Quota!FairSpec`: dispatcher and swap command go on (faults are bounded), readings come back usable,
the limit resets, intents expire; agents take and read what they are sent, a new process registers,
and a person runs the recovery that a failed swap prints. Turns need not end.

`Suspend!FairSpec`: the steps of a command (weakly) and its deadline (strongly: a wait that keeps
looking is cut off all the same, `suspendWait` checks the time each round); and a person who runs
resume while the project is suspended. Agent, dispatcher and due pauses are not fair.

## 4. The theorems

`Delivery_proofs` proves, for any set of runs, kinds and modes and any bounds, from
`DeliveryAssumption` only:

* `TypeCorrect`: `Spec => []TypeOK`, one case per action.
* `InvCorrect`: `Spec => []DeliveryInv`. None of `AckedWasWritten`, `FirstWriteOnce` and
  `Accounted` is inductive. The strengthening says where a run's entry is (`Located`,
  `Placed`), that a group is made before it is read (`GroupReady`), that a claimed entry is
  always marked recovered (`ClaimIsRecovery`), that what is about to be acknowledged was
  written (`SettledIsWritten`), and, for `FirstWriteOnce`, that at most one run holds an
  entry that looks first-time (`OneFresh`), that such an entry is at or below the cursor
  (`FreshIsRead`: so XREADGROUP never hands it out again) and not yet written so
  (`FreshIsUnwritten`). This is why the missing fence of XREADGROUP is harmless: the cursor,
  not the lease, makes first deliveries unique.
* `AckedWasWrittenCorrect`, `FirstWriteOnceCorrect`: its consequences, and `AccountedCorrect`: every
  entry the cursor has passed is pending, acknowledged, or lost its body.
* `OnlyHolderSettlesCorrect`: the action property, from the fence in each of the scripts.
* `PersonKeptCorrect`: `PersonKept`. `PersonInv` adds that only a one-shot subscribe ever has a floor and
  that an entry is judged missing only once its body is gone; what a run acknowledges unseen is then
  one of the three that the property names.
* `BoardHonestCorrect`: `BoardHonest`. The record of an attempt comes before its output, so the board is
  always ahead of the outputs, and what it says has to be read against the outputs *promised*: those
  made and those of the runs now at their output. `BoardInv` (`Counted`): the board counts every
  promised output, each that is recovered is flagged as a possible duplicate, and an unflagged
  `missing` or `expired` is what every promised output says. By `OneFresh` at most one of them does
  not look recovered; a run that settles is one whose output is made (`SettledWrote`).

The steps are grouped in lemmas by what they leave alone: `BusKeepsInv` (the stream grows or
loses bodies), `AsideKeepsInv` (a run moves without an entry), `AckKeepsInv`, `WriteKeepsInv`.

`Dispatch_proofs` proves, for any set of dispatchers, any `MaxTries`, `Retry`, `T` and any
bounds on messages, processes, faults, pauses and swaps, from `DispatchAssumption` only:

* `TypeCorrect`: `Spec => []TypeOK`. Typing already needs the control: that the tries on a
  record stay within `MaxTries` is because a run comes to reserve only on a verdict of
  `Decide` that leaves a try (`DecideVerdict`, `ReservedTrue`).
* `InvCorrect`: `Spec => []DispatchInv`. It is proved in two layers. `SoundInv` says of each
  run, by the step it is at, that what it has in hand is consistent and claims nothing that
  was not done; it needs nothing of the lease, so a lemma per operator of `loop.go`
  (`BaseTrue`, `EndOfActSound`, `EscalateSound`, `ActSound`, ...) and one per step suffice, and
  `DoKeepsRuns` carries the other runs along. `FenceInv` adds what the lease gives: its holder
  knows the record (`StepKnown`: it alone writes, and writes what it has in hand), only a
  holder with a reservation comes to type (`StepTypes`) and has an ample lease from the reservation on
  (`TimeIsLeft`), and a swap under way has its intent.
* `ClaimsAreTrue`: `EscalatedWasTold` and `GapFlagIsTrue`, also for the records in hand.
* `FenceWorks`: `HolderKnowsRecord`, whether or not leases stall.
* `SwapIsQuiet` and `TypesReserved`: `NoPromptIntoSwap` and `TypesUnderReservation`, under
  `~MayStall`. The argument for the swap is the one of the code's comments: the run wrote its
  reservation before it looked at the intent, the swap its intent before it looked at the
  record; so when the swap passes its wait, a run that could type would have the record it
  knows, hence the one on the bus, at `prompting`.
* `PromptsBoundedCorrect`: `PromptsBounded`, also under `~MayStall`. The prompts typed are compared with
  the tries of a record that is cleared, escalated, written again by the next dispatcher and read
  before the agent moves. `ChargeInv` counts, with those typed, the reservation that is still to be
  typed (`Charged`), and says that the record on the bus allows them (`Within`): its tries and one
  more, or one prompt alone once the agent has moved since the record was written. A lease holder
  that has looked at the agent before it moved has nothing typed against it (`Charges`, `Fresh`), and
  a run that resets the tries does so on a move or after an escalation (`Resets`).

`MissionState_proofs` proves, for any missions, any dependencies among them and any
`MaxAttempts`, from `MissionAssumption` (what `load` validates of a change; no acyclicity is
needed):

* `DependenciesFirstCorrect`: a mission that is neither pending nor final has all its dependencies
  integrated, through skips and aborts: by `TableTypes` no event leaves a final state, and only
  `deps_integrated`, `skip` and `abort` leave pending.
* `OneMergeCorrect`: no two missions are `integrating`.
* `RoundsBoundedCorrect`: a round ends with its `MaxAttempts`-th rejection; by the lemma `Rounds`
  that rejection blocks, and a blocked mission is left by a new round or for good.

They are theorems of the abstract specification, and reach the records on the bus through the
refinement `MissionsLifeCorrect`, below.

`Suspend_proofs` proves, for any budget (any number of suspends, pauses, wakes, turns, declarations,
faults and reboots, with and without hooks), from `SuspendAssumption` only, `InvCorrect`: `Spec => []SuspendInv`,
and from it the types and every safety property the run `suspend` checks:

* `LiftCorrect`: `OnlyCommandsLift`. `CmdFits`: a command that works on a suspend has in hand the one
  that is on the bus, because nothing else writes a pause over a suspend (`Bystanders`) and the up
  lock admits one command.
* `StopsCorrect`: `StopsOnlyWhenQuiet`. `FileFits`: a snapshot that stands for the suspend was
  written after the wait of that suspend, since it is stamped with the server's time.
* `ServicesCorrect`: `ServicesComeBack`. `ServicesFit`: the record says what ran as it was written, and a
  cancel or a resume reaches its last step only with all of that running.
* `QuietCorrect`: `QuietMeansQuiet`, which says less where the pane cannot be inspected: there a
  declaration made in that wait, inside a turn, may have been taken for the turn's end (`Misled`,
  section 5). `PaneFits` and the four parts of `WaitFits`: a dispatcher stopped
  under a suspend never types under it, so the pane once calm stays so (`AgentCalm`,
  `DispatcherCalm`); and what a round counts (a pane seen ready after the settle time, a snapshot idle
  or declared at rest later than the boundary, an agent without a wake or without a process) was calm
  or misled (`RoundCalm`). The wait is judged anew with each stop of the dispatcher, and that is what
  `hist.quiet` records.

The invariant was checked by TLC on budgets larger than the run's before it was proved.

`Clear_proofs` proves, for any dispatchers and any budget, from `ClearAssumption` (slots, and a value
`None` that is neither a slot nor a record), `InvCorrect`: `Spec => []ClearInv`, and from it every safety
property the run `clear` checks:

* `OnceCorrect`: `ClearOncePerHandoff`. The reservation is fenced, the typing of `/clear` is not, so a
  hand-off has to be *spent* from its reservation on, by a run that is committed to it or in the
  history. `SpentFits`: of a spent hand-off the mark stands, or its session was told something and its
  record is gone or void for good; a run that holds the lease has it in hand as spent (`HolderMinds`)
  and will not reserve it.
* `OneMessageCorrect`: `OneMessagePerSession`. `once.end` and the message are one script, and sessions
  only grow (`SessionsGrow`): a session below `once.end` is never written there again.
* `ForgottenCorrect`: `NoClearForgotten`, which is `SpentInv` seen from the session.
* `ResumeCorrect`: `ResumeCoversWork`. `HolderKnows`: that the holder's proof of the next session also
  holds at the instant the message is sent, because the mark is its own and uncovered work would have
  voided the record first (`RecordFits`).

What a run without the lease has in hand may be as old as it likes (`RunsFit` says only that it
comes from an earlier state); everything the proof needs of a run is asked of the lease's holder.

`Quota_proofs` proves, for any agents in any order and any budget, from `QuotaAssumption` (the order
names at least one agent, each once), `InvCorrect`: `Spec => []QuotaInv`, and from it every safety
property the run `quota` checks:

* `ResumedOnceCorrect`: `ResumedOncePerEpisode`. `Floor` is the least episode any later send can be of;
  it never goes back (`FloorGrows`), no entry and no mark is above it (`MarkFits`), and an entry of
  exactly that episode has its mark, so that the once script refuses a second.
  Between the look and the send the release keeps off an agent under a swap's intent
  (`SwapFits`), and an agent a swap has sent its resume to is never sent another (`MovedFits`).
* `NoSecondCorrect`: `NoSecondResume`, part of the invariant: a swap that found no release's resume
  waiting is still right when it sends.
* `ReleaseCorrect`: `ReleaseLeavesNobody`. `ReleaseFits` follows an agent that was cut before the release was
  judged through the pass: it is in the snapshots read, then among those owed, then served or the
  pass is incomplete, and an incomplete pass does not drop the hold.

`StepDoes` says what each step does to one agent's queue and mark: leave them, forget a stale
mark, send the release's resume or the swap's. Every part about them is proved from that alone.
Trying to prove the first form of `ResumedOncePerEpisode`, one marked resume for *every* episode,
failed at `Forget`, and TLC found why (section 5).

`ConductorRecords` and `Conductor_proofs` prove, for any missions and dependencies, any deliveries and
commands and any budget of failures, crashes, verdicts and soils, from `ConductorAssumption` only,
`InvCorrect`: `Spec => []ConductorInv`, and from it the types and the six safety invariants the runs
`conductor_crash` and `conductor_faults` check (`MergedWasReviewedCorrect`, `IntegratedIsGreenCorrect`,
`DeliveredByCurrentCorrect`, `NoForgottenRequestCorrect`, `OnlyRecordedMergesCorrect`,
`SignalsHonestCorrect`).

None of the six is inductive, because the conductor writes whole records from copies that may be old.
So the invariant speaks of a *copy* (`Copy`): the record on the bus, the one in hand, and those a pass,
a repair or an abort has read and will yet take in hand. Every copy is `Sound`, in four parts:
`Tells` (a record in review was checked, an approved one approved, its head and its tested head are of
such commits), `Counts` (rounds and attempts; a superseded attempt is closed only under a later one),
`Posts` (the board has no attempt newer than the record, a given-up attempt is in the history, and what
is worked on is what that attempt delivered), `Lands` (of the branch; while nobody soiled the worktree).
Around it: `OneMerge` (two copies that are integrating are of one mission and have one `preHead`, which
has everything integrated before: this is why a reset of the branch loses nobody's merge), `Agree` (a
copy is what is on the bus, or a repair moved that on and could not bring it back: `Behind`), `AtCall`
and `AtMerge` (what each call may assume), `AllRead` (a delivery the pass has read still stands:
`Report` never changes one that is done).

`ConductorRecords` shows, with history, board and branch as parameters, that a record stays sound
through every event of the table (`EventSound`), a new attempt (`OpenedSound`), a round (`RoundSound`), a
skip (`SkipSound`), and through what others do (`GrownSound`, `BoardSound`, `BranchSound`). `Conductor_proofs`
has one lemma per action and, for what they share, one per shape of a step: `QuietTurn` (a call of a
turn), `TurnTake` (an event in a turn), `OnwardsInv` (out of a turn), `StartsInv`, `RepairingInv`,
`OutsideInv` (someone else's step). The invariant was checked by TLC on small instances before it was
proved.

From it follow, in every budget, two properties of `MissionState` for the records on the bus:
`OneMergeCorrect` and `RoundsBoundedCorrect`. That `Conductor` *implements* `MissionState` is
`MissionsLifeCorrect`, for `MaxFaults = 0`: any missions, commands, crashes, verdicts, deadlines and
soiled worktrees, but no failed call. It needs one more invariant, `Exact`: the record a turn has in hand is
the one on the bus in state and rejections, so are those of the missions whose turn is to come, and
what a pass takes for integrated is. Then each write of a record is an event of the table taken from the
state on the bus (`EventLives`, through `TakeLives` and `PutLives`) or one of the two ways back
(`RedoLives`), and every other step a stutter (`StillLives`); one lemma for each group of actions. The
condition cannot be dropped: after a failed write the pass goes on with a copy that is ahead of the
bus, and a dependent may be unlocked by it (section 3; with one failed call TLC finds it within 27
states). A crash loses the copies with the process and
needs no condition. `DependenciesFirstCorrect` carries the theorem of `MissionState` over to the bus, by
the refinement, under the same condition.

**Only model-checked** are the liveness properties (`EveryEntryDelivered`, `NeverForgotten`,
`EveryClearSettles`, `InterruptedIsResumed`, `SuspendIsLifted`, `NeverStalls`, `OwedIsDone` and
`CompletionIsDecided`), which rest on fairness and so on ENABLED, out of TLAPS's reach. Every other
property that a passing run checks is a theorem, four of them under a condition named above:
`NoPromptIntoSwap`, `TypesUnderReservation` and `PromptsBounded` for leases that do not stall, and
`MissionsLife` without failed calls. `Accounted`, `DeliveryInv`, `DispatchInv` and the `TypeOK` of the
first two modules are proved and no longer run.

## 5. Where the code and its documentation disagree

Two runs show it:

1. `conductor_stall`: a check without a result goes "back to delivered so the next pass checks
   again" (`mission/conductor.go:510`); not when the write of the outcome fails: the record stays
   `checking`, which only a restart handles.
2. `suspend_unread`: "A record with no `Services` (the manager could not be read) makes resume start
   every installed kind" (`docs/superpowers/specs/2026-11-03-suspend-resume-design.md:247`). The
   snapshot of such a suspend holds an empty map of services, not none, so resume takes "the
   snapshot's copy" (`cmd/agentbus/resume.go:246`), wants nothing started, and lifts the suspend: the
   project is back without dispatcher and conductor.

The models also show the following, which no run reports at present:

* **An escalation during a pause.** During a pause the dispatcher "escalates nobody"
  (`docs/operator-notes.md:845`); a pass under way when the pause is set still does. Only the
  reservation of a wake looks at the pause a second time (`dispatch/loop.go:780`).
* **A gate left open.** "leaving in_review with ReviewOpen set is what effects closes"
  (`mission/conductor.go:286`); the gate is opened before `ReviewOpen` is recorded, and a conductor
  that restarts between the two handles queued commands before its first pass: a skip or an abort
  then leaves the gate open for good.
* **A delivery in time, timed out.** A mission is timed out when "accepted but not delivered within its
  timeout" (`README.md:457`); the board is read when the pass begins, the clock when the mission's
  turn comes, minutes later.
* **A second clear of one session.** "One clear per session, whatever the dispatcher's restarts"
  (`bus/handoff.go:184`). `/clear` is reserved, typing it fails, and a turn that was starting
  reports: the record goes, the pass tells the agent that its context was cleared (it was not) and
  drops the mark. A fresh hand-off in the same session is reserved and typed again; since
  `clear-end` names the session already, `proveClear` counts that clear as settled: no resume is
  sent, and the record stays until the next work. `ClearOncePerHandoff` says what does hold.
* **One failure stops the others.** "One recipient's failure is logged and does not stop the others"
  (`dispatch/resume.go:63`); `err` is not reset in the loop, so every later recipient of that pass is
  skipped. The release stays incomplete and the next pass resumes them: a delay, no loss.
* **A second resume of an episode.** The swap shares the dispatcher's mark "so a release in the same
  instant sends one resume, not two" (`bus/swap.go:193`), and nothing is sent while the release's
  resume still waits (`releaseResumeQueued`). The release sends the resume of episode 1; the swap
  reads the hold of episode 1; the release drops it; the provider is at its limit again already and
  the next hold first clears the marks of the episode before (`clearEpisodeMarks`); the swap then looks
  at the queue, finds no mark, and sends a second resume of episode 1 beside the first. The swap
  has to be slower than the end of a release and a pass; `ResumedOncePerEpisode` says what holds
  without exception.
* **An agent a swap leaves to nobody.** "if it fails, the next pass resumes the agent it leaves"
  (`dispatch/resume.go:109`): a swap whose fallback state cannot be written, or whose caller dies
  after the proof, leaves the agent on another provider, where no release of the old one looks for
  it. A turn declared between the swap's first look and its close is not in the snapshot it judges
  the work by. `InterruptedIsResumed` excuses these (`excused`): the caller's error tells a person.
* **An idle flip taken for an answer.** A round of the quiet rule reads the server's time before the
  wake records (`suspend.go:553`), and that time becomes the boundary of a wake first seen out of
  `prompting`. With a dispatcher that still runs (its stop failed, or it ran in a tab) an own turn
  that ends in between counts as the end of the woken one. `QuietMeansQuiet` is therefore stated of
  suspends that stopped the dispatcher first.
* **A declaration taken for the end of its turn.** A suspend "waits for running turns to end"
  (`docs/superpowers/specs/2026-11-03-suspend-resume-design.md:78`), and "nothing in the predicate can
  go from quiet to busy without a new turn" (`:125`). The rule, as its design has it (`:111`), releases
  a wake on any state but working that is later than its boundary (`suspendquiet.go:113`), and
  `agentbus status waiting` from inside the woken turn is such a state. While the pane can be inspected
  a busy pane says otherwise. When herdr cannot be reached, two quiet rounds follow, the services stop
  and the turn is cut; the same declaration in an own turn releases a wake whose input still waits
  behind that turn. `QuietMeansQuiet` excuses exactly these (`Misled`); without the excuse TLC finds
  both.

## 6. Not modelled, and the plan

In the order in which they are to be added:

1. `Reload` (`mission/reload.go`, `recover.go`): a revision that changes, adds or removes missions
   under way, in fenced batches, and records rebuilt from Git after Redis was lost, on top of
   `Conductor`. With it the failed base of a new attempt (`newAttempt`), whose record a later put
   may persist.
2. `Requests` (`bus/requests.go`): the board entry through accept, block, complete and reply,
   composed with the delivery metadata of `Delivery`; asks and their expiry; the classic gates.
3. `Queue`, the abstract at-least-once queue (published, delivered, acknowledged) that
   `Dispatch` already uses for the agent, with a refinement from `Delivery`.
4. The quota pause of the coordinator's provider and the variants of the swap (relaunch, reload,
   retire).

**What the models cover.** The definitions stand for about 5,000 lines, a small share of the
implementation, and that share cannot grow much: most of the 85,000 lines are the command line (flags,
refusals, texts), the terminal view, configuration and its editors, installers, health checks, readings
of usage and tokens, and archives. They keep no state that several processes change in an order
that matters; a model of them would restate one function per definition, and their unit tests say
that better. What the processes do share, every key with a fence, a lease, a mark or a record that is
written in more than one step, is either in the modules above or in the list above.

Left out for good: configuration, roles, setup and services (files and other systems, no
shared protocol state), health, usage, tokens, memory, models and forge (readings), busmon
(it renders; its purge is `Delivery!Purge`), backup and history (archives of streams), plan and
the merge queue's derivation (functions of the history with unit tests). Redis and herdr are
external: a Redis command or script is one atomic step, a pane is what an inspection answers.
