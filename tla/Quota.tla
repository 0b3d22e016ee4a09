------------------------------- MODULE Quota -------------------------------
(***************************************************************************)
(* The hold of one provider p at its limit, its release, and agentbus swap *)
(* beside it (dispatch/quota.go, dispatch/resume.go, bus/quotakeys.go,     *)
(* bus/once.go, cmd/agentbus/swap.go).  A turn on p is cut when p is at    *)
(* its limit.  The dispatcher reads the limit, records a hold, and at the  *)
(* release tells every agent of p with work in flight to resume, once per  *)
(* episode; a swap moves an agent to another provider meanwhile and sends  *)
(* that resume itself, through the same mark.                              *)
(*                                                                         *)
(* An episode is the reset of p's window: windows are numbered, 0 is no    *)
(* hold and no mark.  The agents are p's workers; the escalation target    *)
(* runs on another provider, so the project is never paused for p.  One    *)
(* dispatcher runs at a time: every write of the pass is fenced, so losing *)
(* the lease is a crash.                                                   *)
(***************************************************************************)
EXTENDS Naturals, Sequences, FiniteSets

CONSTANTS
    Order,   \* the agents, by name: the order of a release
    Budgets  \* bounds of one behaviour: turns, swaps, times the limit is hit, faults

Agents == {Order[i] : i \in DOMAIN Order}

ASSUME QuotaAssumption ==
    /\ Order \in Seq(Agents) /\ Order # <<>> /\ \A i, j \in DOMAIN Order : Order[i] = Order[j] => i = j
    /\ Budgets \subseteq [turns : Nat, swaps : Nat, hits : Nat, faults : Nat]

VARIABLES
    limit,     \* p's current window, and whether it is at its limit
    agent,     \* agent -> its process, provider, turn, and the window that cut it
    snap,      \* {p}:agents: process, provider, declared working
    accepted,  \* agents owning accepted work on the board
    queue,     \* agent -> the resume directives in its cmd stream, in order
    marks,     \* {p}:quota hold:p, resumed:p:<agent>, resumed:p:@notice, back:p:<agent>
    fallback,  \* {p}:fallback: the episode held at the swap of a role away from p
    intent,    \* agents with a swap intent on the bus
    swap,      \* agentbus swap: its step, its role, what it read
    disp,      \* the dispatcher's pass: its step and what it has in hand
    left,      \* what is left of the behaviour's budget
    excused    \* history: agents left to a person, see Excuse

vars == <<limit, agent, snap, accepted, queue, marks, fallback, intent, swap, disp, left, excused>>
bus == <<marks, fallback, intent>>
clients == <<agent, snap, accepted>>

NoSwap == [pc |-> "off", role |-> Order[1], old |-> 0, working |-> FALSE, held |-> 0, ep |-> 0]
Idle == [pc |-> "pass", here |-> {}, working |-> {}, owed |-> {}, ep |-> 0, i |-> 0,
         complete |-> TRUE, err |-> FALSE, told |-> FALSE, stale |-> {}, cut |-> {}]

Init ==
    /\ limit = [window |-> 1, full |-> FALSE]
    /\ agent = [a \in Agents |-> [proc |-> 1, on |-> "p", turn |-> "none", by |-> 0]]
    /\ snap = [a \in Agents |-> [proc |-> 1, on |-> "p", working |-> FALSE]]
    /\ accepted = {}
    /\ queue = [a \in Agents |-> <<>>]
    /\ marks = [hold |-> 0, notice |-> 0, resumed |-> [a \in Agents |-> 0], back |-> [a \in Agents |-> 0]]
    /\ fallback = [a \in Agents |-> 0]
    /\ intent = {}
    /\ swap = NoSwap
    /\ disp = Idle
    /\ left \in Budgets
    /\ excused = {}

Spend(what) == left[what] > 0 /\ left' = [left EXCEPT ![what] = @ - 1]
Fault == Spend("faults")

-----------------------------------------------------------------------------
(* The provider and the agents.                                             *)

Hit ==
    /\ ~limit.full /\ limit' = [limit EXCEPT !.full = TRUE]
    /\ Spend("hits")
    /\ UNCHANGED <<clients, queue, bus, swap, disp, excused>>
\* A reset opens the next window; a limit may also be lifted before it.
Reset ==
    /\ limit.full /\ limit' = [window |-> limit.window + 1, full |-> FALSE]
    /\ UNCHANGED <<clients, queue, bus, swap, disp, left, excused>>
Lift ==
    /\ limit.full /\ limit' = [limit EXCEPT !.full = FALSE]
    /\ UNCHANGED <<clients, queue, bus, swap, disp, left, excused>>

Running(a) == agent[a].on # "none"

\* A turn on accepted work, or one the agent declares as working.
StartTurn(a) ==
    /\ Running(a) /\ agent[a].turn = "none"
    /\ Spend("turns")
    /\ agent' = [agent EXCEPT ![a].turn = "run"]
    /\ \/ accepted' = accepted \union {a} /\ snap' = snap
       \/ snap' = [snap EXCEPT ![a] = [proc |-> agent[a].proc, on |-> agent[a].on, working |-> TRUE]]
          /\ accepted' = accepted
    /\ UNCHANGED <<limit, queue, bus, swap, disp, excused>>
Finish(a) ==
    /\ Running(a) /\ agent[a].turn = "run"
    /\ agent' = [agent EXCEPT ![a].turn = "none"]
    /\ accepted' = accepted \ {a}
    /\ snap' = [snap EXCEPT ![a] = [proc |-> agent[a].proc, on |-> agent[a].on, working |-> FALSE]]
    /\ UNCHANGED <<limit, queue, bus, swap, disp, left, excused>>
\* One resume per episode: work cut again in an episode already resumed, when
\* the limit was lifted in between, waits for a person.  (disp.cut is history: the
\* turns cut before the release, and not cut anew since.)
Cut(a) ==
    /\ agent[a].on = "p" /\ agent[a].turn = "run" /\ limit.full
    /\ agent' = [agent EXCEPT ![a].turn = "cut", ![a].by = limit.window]
    /\ excused' = IF marks.resumed[a] = limit.window THEN excused \union {a} ELSE excused
    /\ disp' = [disp EXCEPT !.cut = @ \ {a}]
    /\ UNCHANGED <<limit, snap, accepted, queue, bus, swap, left>>

\* A directive is delivered to the agent's name, then read and acknowledged;
\* one a dead process left pending is delivered to the next.
First(a, i, st) == queue[a][i].st = st /\ \A j \in 1 .. i - 1 : queue[a][j].st # st
Has(a, st) == \E i \in DOMAIN queue[a] : queue[a][i].st = st
Take(a) ==
    /\ Running(a) /\ ~Has(a, "pending")
    /\ \E i \in DOMAIN queue[a] : First(a, i, "unread") /\ queue' = [queue EXCEPT ![a][i].st = "pending"]
    /\ UNCHANGED <<limit, clients, bus, swap, disp, left, excused>>
Read(a) ==
    /\ Running(a)
    /\ \E i \in DOMAIN queue[a] : First(a, i, "pending") /\ queue' = [queue EXCEPT ![a][i].st = "read"]
    /\ agent' = IF agent[a].turn = "cut" THEN [agent EXCEPT ![a].turn = "run"] ELSE agent
    /\ UNCHANGED <<limit, snap, accepted, bus, swap, disp, left, excused>>

\* The launcher of a new process binds it: the identity, never the state.
Register(a) ==
    /\ Running(a) /\ snap[a].proc # agent[a].proc
    /\ snap' = [snap EXCEPT ![a].proc = agent[a].proc, ![a].on = agent[a].on]
    /\ UNCHANGED <<limit, agent, accepted, queue, bus, swap, disp, left, excused>>
\* A person runs the recovery a failed swap prints: its own profile again.
Respawn(a) ==
    /\ ~Running(a) /\ swap.pc = "off" /\ a \notin intent
    /\ agent' = [agent EXCEPT ![a].proc = @ + 1, ![a].on = "p"]
    /\ UNCHANGED <<limit, snap, accepted, queue, bus, swap, disp, left, excused>>

-----------------------------------------------------------------------------
(* The dispatcher: quotaPass and release.                                   *)

At(pc) == disp.pc = pc
Send(a, e) == queue' = [queue EXCEPT ![a] = Append(@, e)]
Entry(ep, by) == [ep |-> ep, by |-> by, st |-> "unread"]
rest == <<limit, clients, swap, excused>>

\* The pass reads the snapshots, the limit and the marks, here in one step: a
\* turn that starts, is cut and outlives the reset between them is left out.  A
\* reading is usable or unknown; an unknown one holds nothing and releases a
\* hold only once its reset passed.
OtherEpisodes(ep) ==
    \E m \in {marks.notice} \union {marks.resumed[a] : a \in Agents} \union {marks.back[a] : a \in Agents} :
        m \notin {0, ep}
HoldNow == limit.full /\ marks.hold # limit.window
ReleaseNow(known) == marks.hold # 0 /\ IF known THEN ~limit.full ELSE marks.hold < limit.window
Judge ==
    /\ At("pass")
    /\ \E known \in BOOLEAN :
        disp' = CASE known /\ HoldNow -> [Idle EXCEPT !.ep = limit.window,
                        !.stale = {a \in Agents : marks.resumed[a] \notin {0, limit.window}},
                        !.pc = IF marks.hold = 0 /\ OtherEpisodes(limit.window) THEN "forget" ELSE "hold"]
                  [] ReleaseNow(known) -> [Idle EXCEPT !.ep = marks.hold, !.pc = "owed",
                        !.here = {a \in Agents : snap[a].on = "p"},
                        !.working = {a \in Agents : snap[a].working},
                        !.cut = {a \in Agents : agent[a].turn = "cut" /\ agent[a].by \in 1 .. marks.hold}]
                  [] OTHER -> Idle
    /\ UNCHANGED <<rest, queue, bus, left>>

\* clearEpisodeMarks, then the hold: the fields judged stale go, whatever a swap
\* has written to them since.
Kept(m) == IF m = disp.ep THEN m ELSE 0
Forget ==
    /\ At("forget")
    /\ marks' = [hold |-> marks.hold, notice |-> Kept(marks.notice),
                 resumed |-> [a \in Agents |-> IF a \in disp.stale THEN 0 ELSE marks.resumed[a]],
                 back |-> [a \in Agents |-> Kept(marks.back[a])]]
    /\ disp' = [disp EXCEPT !.pc = "hold"]
    /\ UNCHANGED <<rest, queue, fallback, intent, left>>
HoldPast ==   \* mutant: held to the reset of the window after
    /\ At("hold")
    /\ marks' = [marks EXCEPT !.hold = disp.ep + 1]
    /\ disp' = Idle
    /\ UNCHANGED <<rest, queue, fallback, intent, left>>
Hold ==
    /\ At("hold")
    /\ marks' = [marks EXCEPT !.hold = disp.ep]
    /\ disp' = Idle
    /\ UNCHANGED <<rest, queue, fallback, intent, left>>

OwedDeclared ==   \* mutant: the board is not looked at
    /\ At("owed")
    /\ disp' = [disp EXCEPT !.pc = "check", !.i = 1, !.here = {}, !.working = {},
                            !.owed = disp.here \intersect disp.working]
    /\ UNCHANGED <<rest, queue, bus, left>>
\* resumeAfterHold: the agents of p with accepted work, now, or a declared
\* working, in the snapshots; then each by name.
Owed ==
    /\ At("owed")
    /\ \/ /\ disp' = [disp EXCEPT !.pc = "check", !.i = 1, !.here = {}, !.working = {},
                                   !.owed = disp.here \intersect (accepted \union disp.working)]
          /\ UNCHANGED left
       \/ disp' = [disp EXCEPT !.pc = "back", !.complete = FALSE] /\ Fault
    /\ UNCHANGED <<rest, queue, bus>>

InFlight(a) == a \in disp.owed
Onward == IF disp.i < Len(Order) THEN "check" ELSE "told"
Skip(why) == disp' = [disp EXCEPT !.pc = Onward, !.i = @ + 1,
                                  !.complete = IF why = "not owed" THEN @ ELSE FALSE,
                                  !.err = @ \/ why = "error"]

\* The error of an earlier recipient is still in err: the write is skipped.
Check ==
    /\ At("check")
    /\ LET a == Order[disp.i]
       IN  \/ ~InFlight(a) /\ Skip("not owed")
           \/ InFlight(a) /\ a \in intent /\ Skip("swap")
           \/ InFlight(a) /\ a \notin intent /\ disp.err /\ Skip("earlier error")
           \/ InFlight(a) /\ a \notin intent /\ ~disp.err /\ disp' = [disp EXCEPT !.pc = "send"]
    /\ UNCHANGED <<rest, queue, bus, left>>

EntryAgain(a, ep, by) ==   \* mutant: the mark is written, never read
    /\ Send(a, Entry(ep, by))
    /\ marks' = [marks EXCEPT !.resumed[a] = ep]
\* FencedCmdOnce: an error while the recipient is being swapped; nothing when
\* the mark names the episode already; else the entry and the mark together.
EntryOnce(a, ep, by) ==
    IF marks.resumed[a] = ep THEN UNCHANGED <<queue, marks>>
    ELSE /\ Send(a, Entry(ep, by))
         /\ marks' = [marks EXCEPT !.resumed[a] = ep]
SendResume ==
    /\ At("send")
    /\ LET a == Order[disp.i]
       IN  \/ /\ a \in intent
              /\ Skip("error")
              /\ UNCHANGED <<queue, marks, left>>
           \/ /\ a \notin intent
              /\ EntryOnce(a, disp.ep, "release")
              /\ \/ /\ disp' = [disp EXCEPT !.pc = Onward, !.i = @ + 1, !.told = TRUE]
                    /\ UNCHANGED left
                 \/ Skip("error") /\ Fault   \* the answer is lost
           \/ Skip("error") /\ Fault /\ UNCHANGED <<queue, marks>>
    /\ UNCHANGED <<rest, fallback, intent>>

\* The notices to the escalation target: of the resumes, of a role's provider
\* that is back.
Notice ==
    /\ At("told")
    /\ IF disp.told
       THEN \/ /\ marks' = [marks EXCEPT !.notice = disp.ep]
               /\ disp' = [disp EXCEPT !.pc = "back"] /\ UNCHANGED left
            \/ disp' = [disp EXCEPT !.pc = "back", !.complete = FALSE] /\ Fault /\ UNCHANGED marks
       ELSE disp' = [disp EXCEPT !.pc = "back"] /\ UNCHANGED <<marks, left>>
    /\ UNCHANGED <<rest, queue, fallback, intent>>
AfterAnyway(complete) == [disp EXCEPT !.pc = "drop"]   \* mutant
After(complete) == IF complete THEN [disp EXCEPT !.pc = "drop"] ELSE Idle
Back ==
    /\ At("back")
    /\ \/ /\ marks' = [marks EXCEPT !.back = [a \in Agents |-> IF fallback[a] = disp.ep THEN disp.ep ELSE @[a]]]
          /\ disp' = After(disp.complete) /\ UNCHANGED left
       \/ disp' = After(FALSE) /\ Fault /\ UNCHANGED marks
    /\ UNCHANGED <<rest, queue, fallback, intent>>
\* The hold mark goes last.
Drop ==
    /\ At("drop")
    /\ marks' = [marks EXCEPT !.hold = 0]
    /\ disp' = Idle
    /\ UNCHANGED <<rest, queue, fallback, intent, left>>

\* The process dies, loses the lease, or a call fails that ends the pass.
CrashPass ==
    /\ ~At("pass") /\ Fault
    /\ disp' = Idle
    /\ UNCHANGED <<rest, queue, bus>>

-----------------------------------------------------------------------------
(* agentbus swap of an agent of p to a fallback on another provider.        *)

\* Left to a person, who is told by the caller's error: what a failed swap leaves,
\* unless a release that has not begun still owes the agent its resume.
Excuse(a) == excused' = excused \union {a}
Owes(a) == /\ At("pass") /\ marks.hold # 0 /\ marks.resumed[a] # marks.hold
           /\ a \in accepted \/ snap[a].working
LeaveToRelease(a) == IF Owes(a) THEN excused' = excused ELSE Excuse(a)
SwapAt(pc) == swap.pc = pc
To(pc) == swap' = [swap EXCEPT !.pc = pc]
Role == swap.role
others == <<limit, disp>>

Preflight(a) ==
    /\ SwapAt("off") /\ Spend("swaps")
    /\ Running(a) /\ snap[a].proc = agent[a].proc /\ snap[a].on = "p"
    /\ swap' = [pc |-> "begin", role |-> a, old |-> snap[a].proc, working |-> snap[a].working,
                held |-> marks.hold, ep |-> 0]
    /\ UNCHANGED <<others, clients, queue, bus, excused>>
BeginSwap ==
    /\ SwapAt("begin")
    /\ IF Role \in intent THEN swap' = NoSwap /\ intent' = intent
       ELSE To("close") /\ intent' = intent \union {Role}
    /\ UNCHANGED <<others, clients, queue, marks, fallback, left, excused>>
Lost(a) == [agent EXCEPT ![a].on = "none", ![a].by = 0, ![a].turn = IF @ = "none" THEN @ ELSE "cut"]
ClosePane ==
    /\ SwapAt("close")
    /\ \/ agent' = Lost(Role) /\ To("launch") /\ UNCHANGED left
       \/ agent' = agent /\ To("end") /\ Fault
    /\ UNCHANGED <<others, snap, accepted, queue, bus, excused>>
Launch ==
    /\ SwapAt("launch")
    /\ \/ agent' = [agent EXCEPT ![Role].proc = @ + 1, ![Role].on = "q"] /\ To("prove") /\ UNCHANGED <<left, excused>>
       \/ agent' = agent /\ To("end") /\ Fault /\ LeaveToRelease(Role)
    /\ UNCHANGED <<others, snap, accepted, queue, bus>>
\* replaced: another process, on the target's provider; no proof in time leaves
\* the new process as it is.
Prove ==
    /\ SwapAt("prove")
    /\ \/ /\ snap[Role].proc # swap.old /\ snap[Role].on = "q"
          /\ To("finish") /\ UNCHANGED <<left, excused>>
       \/ To("end") /\ Fault /\ Excuse(Role)
    /\ UNCHANGED <<others, clients, queue, bus>>
\* FinishSwap: the fallback state with the episode held at the begin; when it
\* cannot be written, the intent is kept until it expires.
FinishSwap ==
    /\ SwapAt("finish")
    /\ \/ /\ fallback' = [fallback EXCEPT ![Role] = swap.held]
          /\ To("work") /\ UNCHANGED <<left, excused>>
       \/ fallback' = fallback /\ swap' = NoSwap /\ Fault /\ Excuse(Role)
    /\ UNCHANGED <<others, clients, queue, marks, intent>>
\* The work in flight, from the board and the snapshot of before the swap: a turn
\* declared since then is not seen.  Then the hold.
Work ==
    /\ SwapAt("work")
    /\ IF Role \in accepted \/ swap.working
       THEN swap' = [swap EXCEPT !.pc = "queued", !.ep = marks.hold] /\ UNCHANGED excused
       ELSE To("end") /\ Excuse(Role)
    /\ UNCHANGED <<others, clients, queue, bus, left>>
QueuedUnread ==   \* mutant: an entry the old process left pending is overlooked
    /\ SwapAt("queued")
    /\ To(IF \E i \in DOMAIN queue[Role] : /\ queue[Role][i].by = "release"
                                           /\ queue[Role][i].ep = marks.resumed[Role]
                                           /\ queue[Role][i].st = "unread"
          THEN "end" ELSE "resume")
    /\ UNCHANGED <<others, clients, queue, bus, left, excused>>
\* releaseResumeQueued: the release's entry of the mark's episode, unread or
\* pending, reaches the new process: nothing more is sent.
Queued ==
    /\ SwapAt("queued")
    /\ To(IF \E i \in DOMAIN queue[Role] : /\ marks.resumed[Role] # 0
                                           /\ queue[Role][i].by = "release"
                                           /\ queue[Role][i].ep = marks.resumed[Role]
                                           /\ queue[Role][i].st # "read"
          THEN "end" ELSE "resume")
    /\ UNCHANGED <<others, clients, queue, bus, left, excused>>
\* CmdOnce through the release's mark under a hold; a plain Cmd without one, or
\* when the mark was set and its entry read by the old process.
SwapResume ==
    /\ SwapAt("resume")
    /\ To("end")
    /\ \/ /\ IF swap.ep # 0 /\ marks.resumed[Role] # swap.ep
             THEN EntryOnce(Role, swap.ep, "swap")
             ELSE Send(Role, Entry(0, "swap")) /\ UNCHANGED marks
          /\ UNCHANGED <<left, excused>>
       \/ UNCHANGED <<queue, marks>> /\ Fault /\ Excuse(Role)
    /\ UNCHANGED <<others, clients, fallback, intent>>
EndSwap ==
    /\ SwapAt("end")
    /\ swap' = NoSwap
    /\ intent' = intent \ {Role}
    /\ UNCHANGED <<others, clients, queue, marks, fallback, left, excused>>
\* The caller dies: its intent stays until it expires.
Die ==
    /\ swap.pc \notin {"off", "begin"} /\ Fault
    /\ swap' = NoSwap
    /\ CASE swap.pc \in {"close", "end"} -> excused' = excused
         [] swap.pc = "launch" -> LeaveToRelease(Role)
         [] OTHER -> Excuse(Role)
    /\ UNCHANGED <<others, clients, queue, bus>>
\* The intent outlives every step of a live caller.
Expire(a) ==
    /\ a \in intent /\ SwapAt("off")
    /\ intent' = intent \ {a}
    /\ UNCHANGED <<others, clients, queue, marks, fallback, swap, left, excused>>

-----------------------------------------------------------------------------

Dispatcher == Judge \/ Forget \/ Hold \/ Owed \/ Check \/ SendResume \/ Notice \/ Back \/ Drop
Swapper == BeginSwap \/ ClosePane \/ Launch \/ Prove \/ FinishSwap \/ Work \/ Queued \/ SwapResume \/ EndSwap
Agent(a) == StartTurn(a) \/ Finish(a) \/ Cut(a) \/ Take(a) \/ Read(a) \/ Register(a) \/ Respawn(a) \/ Expire(a)

Next ==
    \/ Hit \/ Reset \/ Lift \/ CrashPass \/ Die
    \/ Dispatcher \/ Swapper
    \/ \E a \in Agents : Agent(a) \/ Preflight(a)

Spec == Init /\ [][Next]_vars

\* A service and a command that go on, readings that come back usable, a limit
\* that resets, agents that read what they are sent, a person who recovers.
Fairness ==
    /\ WF_vars(Dispatcher) /\ WF_vars(Swapper) /\ WF_vars(Reset)
    /\ \A a \in Agents : /\ WF_vars(Take(a)) /\ WF_vars(Read(a)) /\ WF_vars(Register(a))
                         /\ WF_vars(Respawn(a)) /\ WF_vars(Expire(a))
FairSpec == Spec /\ Fairness

-----------------------------------------------------------------------------
(* Properties.                                                              *)

Procs == Nat \ {0}
Snapshots == [Agents -> [proc : Procs, on : {"p", "q"}, working : BOOLEAN]]
Entries == [ep : Nat, by : {"release", "swap"}, st : {"unread", "pending", "read"}]

\* Every variable keeps its type.
TypeOK ==
    /\ limit \in [window : Nat \ {0}, full : BOOLEAN]
    /\ agent \in [Agents -> [proc : Procs, on : {"p", "q", "none"}, turn : {"none", "run", "cut"}, by : Nat]]
    /\ snap \in Snapshots
    /\ accepted \subseteq Agents /\ intent \subseteq Agents /\ excused \subseteq Agents
    /\ queue \in [Agents -> Seq(Entries)]
    /\ marks.hold <= limit.window
    /\ marks \in [hold : Nat, notice : Nat, resumed : [Agents -> Nat], back : [Agents -> Nat]]
    /\ fallback \in [Agents -> Nat]
    /\ swap \in [pc : {"off", "begin", "close", "launch", "prove", "finish", "work", "queued", "resume", "end"},
                 role : Agents, old : Nat, working : BOOLEAN, held : Nat, ep : Nat]
    /\ disp \in [pc : {"pass", "forget", "hold", "owed", "check", "send", "told", "back", "drop"},
                 here : SUBSET Agents, working : SUBSET Agents, owed : SUBSET Agents, ep : Nat,
                 i : 0 .. Len(Order) + 1, complete : BOOLEAN, err : BOOLEAN, told : BOOLEAN, stale : SUBSET Agents, cut : SUBSET Agents]
    /\ left \in [{"turns", "swaps", "hits", "faults"} -> Nat]

\* However often a release is interrupted, retried or flaps, an agent gets one
\* resume per episode from it; and one in all, whether the dispatcher or a swap
\* sends it, of the episode that is held or whose window is open.  (Of an earlier
\* one, a swap that read its hold before the next was recorded sends a second.)
ResumedOncePerEpisode ==
    \A a \in Agents : \A i, j \in DOMAIN queue[a] :
        /\ queue[a][i].ep # 0 /\ queue[a][i].ep = queue[a][j].ep
        /\ \/ queue[a][i].by = "release" /\ queue[a][j].by = "release"
           \/ queue[a][i].ep \in {marks.hold, limit.window}
        => i = j

\* Of a swap's own resume and a release's of the marked episode, an agent never
\* has both waiting: the intent keeps the release from sending between the
\* swap's look at the queue and its command.
NoSecondResume ==
    \A a \in Agents : \A i, j \in DOMAIN queue[a] :
        (queue[a][i].ep = 0 /\ queue[a][j].ep = marks.resumed[a] /\ i # j)
            => "read" \in {queue[a][i].st, queue[a][j].st}

\* The hold goes only when every agent of p whose turn its limit had cut, and that
\* waits since, has its resume of this episode.
ReleaseLeavesNobody ==
    [][marks.hold # 0 /\ marks'.hold = 0 =>
         \A a \in disp.cut :
            (agent[a].turn = "cut" /\ agent[a].by # 0) => marks.resumed[a] = marks.hold]_vars

\* Work that a limit interrupted goes on again once a hold stands that no release
\* has begun to lift, and work that a swap interrupts goes on in the process that
\* takes over.
InterruptedIsResumed ==
    \A a \in Agents :
        (agent[a].turn = "cut" /\ (agent[a].by = 0 \/ (agent[a].by <= marks.hold /\ At("pass"))))
            ~> (agent[a].turn # "cut" \/ a \in excused)
=============================================================================
