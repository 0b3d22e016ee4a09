------------------------------ MODULE Suspend ------------------------------
(***************************************************************************)
(* agentbus suspend and resume of ONE project on its host, with the timed  *)
(* pauses they replace and the dispatcher they stop (bus/suspend.go,       *)
(* bus/pause.go, cmd/agentbus/suspend.go, suspendquiet.go, suspendsnap.go, *)
(* resume.go, dispatch/loop.go).  A suspend writes its record, stops the   *)
(* dispatcher, waits until the project is quiet, stops the other services  *)
(* and writes a snapshot file; a wait that ends otherwise cancels it.  A   *)
(* resume starts the services, relaunches the agent and lifts the record.  *)
(*                                                                         *)
(* The project has one agent, its only boot agent, and both services are   *)
(* installed.  Pauses are numbered as they are written; a time is the      *)
(* number of the latest (the code's at and taken_at).  The up lock of the  *)
(* host admits one command at a time and dies with it.                     *)
(***************************************************************************)
EXTENDS Naturals

CONSTANTS
    Unread,  \* the services of a record whose service manager could not be read
    Budgets  \* bounds of one behaviour: suspends, pauses, wakes, turns, declares, faults, reboots;
             \* hooks: 1 when the agent's turn hooks always run and its pane may be unreadable,
             \* 0 when a hook may be lost and the pane can always be inspected

Kinds == {"dispatch", "missions"}

ASSUME SuspendAssumption ==
    /\ \A s \in SUBSET Kinds : s # Unread
    /\ Budgets \subseteq [suspends : Nat, pauses : Nat, wakes : Nat, turns : Nat,
                          declares : Nat, faults : Nat, reboots : Nat, hooks : {0, 1}]

VARIABLES
    pause,   \* {p}:pause: none, a timed pause or a suspend; prev: the pause it replaced
    clock,   \* the number of the latest pause
    due,     \* the timed pauses past their deadline
    active,  \* the services that run
    lease,   \* the dispatch lease is held
    disp,    \* the dispatcher: its step, and the pause it read
    wake,    \* the agent's wake record
    agent,   \* alive, its turn, and whether a typed wake waits in its pane
    snap,    \* its snapshot: state, whether a hook flipped it, and whether it is later
             \* than the wake's boundary
    file,    \* the snapshot file: when its facts were read (0: no file), services
    cmd,     \* the command that holds the up lock, and what it has in hand
    left,    \* what is left of the behaviour's budget
    hist     \* history: suspends judged quiet, forced, waited for without a dispatcher, in
             \* whose wait the agent declared itself at rest from inside a turn (said),
             \* and the services that ran as the latest was written

vars == <<pause, clock, due, active, lease, disp, wake, agent, snap, file, cmd, left, hist>>
project == <<pause, clock, due>>
panes == <<agent, snap>>
dispatcher == <<lease, disp, wake>>

NoPause == [kind |-> "none", id |-> 0, services |-> {}, prev |-> 0]
NoFile == [taken |-> 0, services |-> {}]
NoCmd == [pc |-> "off", raw |-> 0, services |-> {}, have |-> FALSE, insist |-> FALSE, todo |-> {},
          failed |-> FALSE, taken |-> 0, known |-> FALSE, settled |-> FALSE, ready |-> 0, quiet |-> 0]
Resting == [pc |-> "off", raw |-> 0]

Init ==
    /\ pause = NoPause /\ clock = 0 /\ due = {}
    /\ active \in {Kinds, {"dispatch"}}
    /\ lease = FALSE /\ disp = Resting /\ wake = "none"
    /\ agent = [alive |-> TRUE, turn |-> "none", input |-> FALSE]
    /\ snap = [state |-> "idle", auto |-> TRUE, late |-> TRUE]
    /\ file = NoFile
    /\ cmd = NoCmd
    /\ left \in Budgets
    /\ hist = [quiet |-> {}, forced |-> {}, stopped |-> {}, said |-> {}, ran |-> {}]

Spend(what) == left[what] > 0 /\ left' = [left EXCEPT ![what] = @ - 1]
Fault == Spend("faults")
Suspended == pause.kind = "suspend"

-----------------------------------------------------------------------------
(* The agent: its own turns (a person's input, a message to its armed       *)
(* receiver), and those of a wake typed into its pane.                      *)

\* TurnState: never from a declared waiting, blocked or done (here "waiting"),
\* nor to the state that stands.
Flip(s, state) ==
    IF s.state \in {"idle", "working"} \ {state} THEN [state |-> state, auto |-> TRUE, late |-> TRUE] ELSE s
Hooked(S, state) == {Flip(s, state) : s \in S} \union IF left.hooks = 1 THEN {} ELSE S
around == <<project, active, dispatcher, file, cmd>>

CmdAt(pc) == cmd.pc = pc
\* A round judges, or will judge, by what is later than the boundary.
Judging == CmdAt("round") \/ (CmdAt("now") /\ cmd.known)

OwnTurn ==
    /\ agent.alive /\ agent.turn = "none" /\ ~agent.input
    /\ Spend("turns")
    /\ agent' = [agent EXCEPT !.turn = "own"]
    /\ snap' \in Hooked({snap}, "working")
    /\ UNCHANGED <<around, hist>>
WokenTurn ==
    /\ agent.turn = "none" /\ agent.input
    /\ agent' = [agent EXCEPT !.turn = "wake", !.input = FALSE]
    /\ snap' \in Hooked({snap}, "working")
    /\ UNCHANGED <<around, left, hist>>
\* A client starts what was typed during a turn as the turn ends: both hooks run.
EndTurn ==
    /\ agent.turn # "none"
    /\ agent' = [agent EXCEPT !.turn = IF agent.input THEN "wake" ELSE "none", !.input = FALSE]
    /\ LET ended == Hooked({snap}, "idle")
       IN  snap' \in IF agent.input THEN Hooked(ended, "working") ELSE ended
    /\ UNCHANGED <<around, left, hist>>
\* agentbus status, run by the agent inside a turn, which goes on.  It wins over
\* a flip; its time is its entry's, taken before the snapshot is written.
Declare ==
    /\ agent.turn # "none"
    /\ Spend("declares")
    /\ \E state \in {"idle", "working", "waiting"}, late \in IF Judging THEN BOOLEAN ELSE {TRUE} :
        /\ snap' = [state |-> state, auto |-> FALSE, late |-> late]
        /\ hist' = [hist EXCEPT !.said = IF Judging /\ late /\ state # "working" THEN @ \union {cmd.raw} ELSE @]
    /\ UNCHANGED <<around, agent>>

-----------------------------------------------------------------------------
(* Timed pauses, set and ended by hand.                                     *)

SetPause ==
    /\ ~Suspended
    /\ Spend("pauses")
    /\ clock' = clock + 1
    /\ pause' = [NoPause EXCEPT !.kind = "pause", !.id = clock + 1]
    /\ UNCHANGED <<due, active, dispatcher, panes, file, cmd, hist>>
Overdue ==
    /\ \E id \in {IF Suspended THEN pause.prev ELSE pause.id} \ ({0} \union due) : due' = due \union {id}
    /\ UNCHANGED <<pause, clock, active, dispatcher, panes, file, cmd, left, hist>>
EndByHand ==   \* Bus.Resume; its directive is a second call
    /\ pause.kind = "pause"
    /\ pause' = NoPause
    /\ UNCHANGED <<clock, due, active, dispatcher, panes, file, cmd, left, hist>>

-----------------------------------------------------------------------------
(* The dispatcher service.                                                  *)

DispAt(pc) == disp.pc = pc
DispTo(pc) == disp' = [disp EXCEPT !.pc = pc]
beside == <<clock, due, active, file, cmd, hist>>

Acquire ==
    /\ DispAt("off") /\ "dispatch" \in active /\ ~lease
    /\ lease' = TRUE
    /\ DispTo("pass")
    /\ UNCHANGED <<pause, wake, panes, beside, left>>
\* paused: a pause that cannot be read counts as none; a suspend stops the pass.
Pass ==
    /\ DispAt("pass")
    /\ \/ pause.kind = "none" /\ DispTo("reserve") /\ UNCHANGED left
       \/ pause.kind = "pause" /\ disp' = [pc |-> "end", raw |-> pause.id] /\ UNCHANGED left
       \/ pause.kind # "none" /\ DispTo("reserve") /\ Fault
    /\ UNCHANGED <<pause, lease, wake, panes, beside>>
EndDue ==   \* mutant: the record is not compared
    /\ DispAt("end")
    /\ pause' = IF disp.raw \in due THEN NoPause ELSE pause
    /\ disp' = IF disp.raw \in due THEN [pc |-> "reserve", raw |-> 0] ELSE [pc |-> "pass", raw |-> 0]
    /\ UNCHANGED <<lease, wake, panes, beside, left>>
\* FencedResume's script: the very pause read, and past its deadline.
EndPause ==
    /\ DispAt("end")
    /\ LET over == pause.kind = "pause" /\ pause.id = disp.raw /\ pause.id \in due
       IN  /\ pause' = IF over THEN NoPause ELSE pause
           /\ disp' = [pc |-> IF over THEN "reserve" ELSE "pass", raw |-> 0]
    /\ UNCHANGED <<lease, wake, panes, beside, left>>
\* The agent's pane was ready and it has messages; none is reserved in a pause.
Reserve ==
    /\ DispAt("reserve")
    /\ \/ /\ agent.alive /\ agent.turn = "none" /\ ~agent.input /\ pause.kind = "none"
          /\ wake' = "prompting" /\ DispTo("type") /\ Spend("wakes")
       \/ DispTo("pass") /\ UNCHANGED <<wake, left>>
    /\ UNCHANGED <<pause, lease, panes, beside>>
Type ==
    /\ DispAt("type")
    /\ agent' = [agent EXCEPT !.input = agent.alive]
    /\ DispTo("record")
    /\ UNCHANGED <<pause, lease, wake, snap, beside, left>>
Record ==
    /\ DispAt("record")
    /\ wake' = "prompted"
    /\ DispTo("pass")
    /\ UNCHANGED <<pause, lease, panes, beside, left>>
Died == disp' = Resting /\ UNCHANGED <<wake, panes>>
CrashDispatch ==
    /\ ~DispAt("off") /\ Fault
    /\ Died
    /\ UNCHANGED <<pause, lease, beside>>
Expire ==
    /\ lease /\ DispAt("off")
    /\ lease' = FALSE
    /\ UNCHANGED <<pause, disp, wake, panes, beside, left>>

-----------------------------------------------------------------------------
(* agentbus suspend.                                                        *)

CmdTo(pc) == cmd' = [cmd EXCEPT !.pc = pc]
Leave == cmd' = NoCmd
things == <<project, dispatcher, panes>>

AnyFile == file.taken # 0   \* mutant
\* The snapshot file stands for the suspend on the bus.
Current == file.taken >= pause.id

\* insist: --force.  A suspend with a current snapshot only stops what still
\* runs; one without is completed, its services as recorded.
BeginSuspend ==
    /\ CmdAt("off") /\ Spend("suspends")
    /\ \E insist \in BOOLEAN :
        LET mine == [NoCmd EXCEPT !.raw = pause.id, !.services = pause.services, !.insist = insist]
        IN  \/ /\ Suspended /\ Current /\ active # {}
               /\ cmd' = [mine EXCEPT !.pc = "stops", !.todo = active, !.taken = file.taken]
            \/ Suspended /\ ~Current /\ cmd' = [mine EXCEPT !.pc = "stop"]
            \/ ~Suspended /\ cmd' = [NoCmd EXCEPT !.pc = "services", !.insist = insist]
    /\ UNCHANGED <<things, active, file, hist>>
ReadServices ==
    /\ CmdAt("services")
    /\ \/ cmd' = [cmd EXCEPT !.pc = "write", !.services = active] /\ UNCHANGED left
       \/ cmd' = [cmd EXCEPT !.pc = "write", !.services = Unread] /\ Fault
    /\ UNCHANGED <<things, active, file, hist>>
\* suspendScript; a timed pause becomes its prev.
WriteSuspend ==
    /\ CmdAt("write")
    /\ clock' = clock + 1
    /\ pause' = [kind |-> "suspend", id |-> clock + 1, services |-> cmd.services, prev |-> pause.id]
    /\ hist' = [hist EXCEPT !.ran = active]
    /\ cmd' = [cmd EXCEPT !.pc = "stop", !.raw = clock + 1]
    /\ UNCHANGED <<due, dispatcher, panes, active, file, left>>

\* The dispatcher is stopped at once when the record says it ran.  The manager
\* returns once the process is gone; a state that cannot be read stops nothing.
Stopping(k) == /\ active' = active \ {k}
               /\ IF k = "dispatch" THEN disp' = Resting /\ lease' \in {FALSE, lease}
                  ELSE UNCHANGED <<disp, lease>>
StopDispatch ==
    /\ CmdAt("stop")
    /\ IF cmd.services # Unread /\ "dispatch" \in cmd.services /\ "dispatch" \in active
       THEN \/ Stopping("dispatch") /\ CmdTo("now") /\ UNCHANGED left
            \/ UNCHANGED <<active, disp, lease>> /\ CmdTo("now") /\ Fault
            \/ UNCHANGED <<active, disp, lease>> /\ Fault
               /\ cmd' = [cmd EXCEPT !.pc = "start again", !.todo = Kinds]
       ELSE CmdTo("now") /\ UNCHANGED <<active, disp, lease, left>>
    /\ hist' = [hist EXCEPT !.stopped = IF "dispatch" \in active' THEN @ \ {cmd.raw} ELSE @ \union {cmd.raw},
                            !.quiet = @ \ {cmd.raw}, !.said = @ \ {cmd.raw}]   \* the wait is judged anew
    /\ UNCHANGED <<project, wake, panes, file>>

\* A round of the quiet rule: the server's time, then the readings.  The
\* boundary of a wake is the time of the round that first finds it out of
\* prompting, or the dispatcher gone.
RoundNow ==
    /\ CmdAt("now")
    /\ snap' = [snap EXCEPT !.late = @ /\ cmd.known]
    /\ CmdTo("round")
    /\ UNCHANGED <<project, dispatcher, agent, active, file, left, hist>>
\* The settle time: a typed input starts its turn within it.
Settle ==
    /\ cmd.known /\ ~cmd.settled /\ ~agent.input
    /\ cmd' = [cmd EXCEPT !.settled = TRUE]
    /\ UNCHANGED <<things, active, file, left, hist>>

Gone == "dispatch" \notin active /\ ~lease
\* The suspend's own look at the pane; rested: ready for the stale time.
Inspections == (IF agent.turn # "none" THEN {"busy"} ELSE {"ready", "rested"})
                   \union (IF left.hooks = 1 THEN {"none"} ELSE {})
WokenByAge(known, ready) == wake = "prompting" /\ ~known   \* mutant: what was typed is taken as answered
\* wake: its input may still come, or no state but working, flipped or declared,
\* is later than that, nor was the pane seen ready twice.
Woken(known, ready) ==
    /\ wake # "none"
    /\ ~known \/ ~((snap.state # "working" /\ snap.late) \/ ready >= 2)
\* EffectiveState: a stale working state that a hook flipped reads idle.
Working(obs) == snap.state = "working" /\ ~(snap.auto /\ obs = "rested")
Round ==
    /\ CmdAt("round")
    /\ \/ \E obs \in Inspections :
            LET known == cmd.known \/ wake # "prompting" \/ Gone
                ready == IF obs \in {"ready", "rested"} /\ cmd.known /\ cmd.settled THEN IF cmd.ready = 2 THEN 2 ELSE cmd.ready + 1 ELSE 0
                busy == agent.alive /\ (Woken(known, ready) \/ Working(obs) \/ obs = "busy")
                quiet == IF busy THEN 0 ELSE cmd.quiet + 1
            IN  cmd' = [cmd EXCEPT !.pc = IF quiet = 2 THEN "facts" ELSE "now",
                                   !.known = known, !.ready = ready, !.quiet = quiet]
          /\ UNCHANGED left
       \/ cmd' = [cmd EXCEPT !.pc = "now", !.quiet = 0] /\ Fault   \* a failed reading
    /\ UNCHANGED <<things, active, file, hist>>
\* The deadline passes, a signal comes, or the readings keep failing: cancel;
\* at the deadline --force goes on.
GiveUp ==
    /\ CmdAt("now")
    /\ \/ cmd' = [cmd EXCEPT !.pc = "start again", !.todo = Kinds]
       \/ cmd.insist /\ CmdTo("facts")
    /\ UNCHANGED <<things, active, file, left, hist>>

FactsOfHost ==   \* mutant: stamped by the host's clock, not the server's
    /\ CmdAt("facts")
    /\ cmd' = [cmd EXCEPT !.pc = "stops", !.todo = active, !.taken = clock + 1]
    /\ hist' = [hist EXCEPT !.quiet = @ \union {cmd.raw}]
    /\ UNCHANGED <<things, active, file, left>>
Facts ==
    /\ CmdAt("facts")
    /\ cmd' = [cmd EXCEPT !.pc = "stops", !.todo = active, !.taken = clock]
    /\ hist' = IF cmd.quiet = 2 THEN [hist EXCEPT !.quiet = @ \union {cmd.raw}]
               ELSE [hist EXCEPT !.forced = @ \union {cmd.raw}]
    /\ UNCHANGED <<things, active, file, left>>
\* finishStops: each service that runs; the snapshot also when one did not stop.
Stops ==
    /\ CmdAt("stops")
    /\ IF cmd.todo = {} THEN CmdTo("file") /\ UNCHANGED <<active, disp, lease, left>>
       ELSE \E k \in cmd.todo :
            /\ cmd' = [cmd EXCEPT !.todo = @ \ {k}]
            /\ \/ Stopping(k) /\ UNCHANGED left
               \/ UNCHANGED <<active, disp, lease>> /\ Fault
    /\ UNCHANGED <<project, wake, panes, file, hist>>
\* The record's services; of one without, an empty map is written.
WriteSnapshot ==
    /\ CmdAt("file")
    /\ Leave
    /\ \/ /\ file' = [taken |-> cmd.taken, services |-> IF cmd.services = Unread THEN {} ELSE cmd.services]
          /\ UNCHANGED left
       \/ file' = file /\ Fault
    /\ UNCHANGED <<things, active, hist>>

\* suspendCancel: the services the record marks active start again; then the
\* suspend is lifted, unless one did not start.
StartingBlindly(k, wanted) ==   \* mutant: a start that fails is passed over
    /\ cmd' = [cmd EXCEPT !.todo = @ \ {k}]
    /\ \/ active' = (IF wanted THEN active \union {k} ELSE active) /\ UNCHANGED left
       \/ UNCHANGED active /\ Fault
Starting(k, wanted) ==
    \/ active' = (IF wanted THEN active \union {k} ELSE active)
       /\ cmd' = [cmd EXCEPT !.todo = @ \ {k}] /\ UNCHANGED left
    \/ wanted /\ k \notin active /\ UNCHANGED active
       /\ cmd' = [cmd EXCEPT !.todo = @ \ {k}, !.failed = TRUE] /\ Fault
\* A resume passes over no service whose state it cannot read, wanted or not.
Unreadable(k) == UNCHANGED active /\ cmd' = [cmd EXCEPT !.todo = @ \ {k}, !.failed = TRUE] /\ Fault
StartAgain ==
    /\ CmdAt("start again")
    /\ IF cmd.todo # {}
       THEN \E k \in cmd.todo : Starting(k, cmd.services # Unread /\ k \in cmd.services)
       ELSE /\ IF cmd.failed THEN Leave ELSE CmdTo("cancel")
            /\ UNCHANGED <<active, left>>
    /\ UNCHANGED <<things, file, hist>>

\* unsuspendScript: only the very record; its previous pause, when still due.
Unsuspend ==
    IF Suspended /\ pause.id = cmd.raw
    THEN pause' = IF pause.prev \in due \union {0} THEN NoPause
                  ELSE [NoPause EXCEPT !.kind = "pause", !.id = pause.prev]
    ELSE pause' = pause
Cancel ==
    /\ CmdAt("cancel")
    /\ Leave
    /\ \/ Unsuspend /\ UNCHANGED left
       \/ pause' = pause /\ Fault
    /\ UNCHANGED <<clock, due, dispatcher, panes, active, file, hist>>

-----------------------------------------------------------------------------
(* agentbus resume of a suspended project.                                  *)

BeginResume ==
    /\ CmdAt("off") /\ Suspended
    /\ \E partial \in BOOLEAN :
        cmd' = [NoCmd EXCEPT !.pc = "start", !.raw = pause.id, !.services = pause.services,
                             !.have = Current, !.insist = partial, !.todo = Kinds]
    /\ UNCHANGED <<things, active, file, left, hist>>
\* The record's services, else the current snapshot's, else every installed one.
Wanted == CASE cmd.services # Unread -> cmd.services
            [] cmd.services = Unread /\ cmd.have -> file.services
            [] OTHER -> Kinds
Start ==
    /\ CmdAt("start")
    /\ IF cmd.todo # {}
       THEN \E k \in cmd.todo : Starting(k, k \in Wanted) \/ Unreadable(k)
       ELSE CmdTo("up") /\ UNCHANGED <<active, left>>
    /\ UNCHANGED <<things, file, hist>>
UpFromSnapshot ==   \* mutant: only what the snapshot names is relaunched
    /\ CmdAt("up")
    /\ agent' = [agent EXCEPT !.alive = @ \/ cmd.have]
    /\ CmdTo("proof")
    /\ UNCHANGED <<project, dispatcher, snap, active, file, left, hist>>
\* up --resume relaunches a dead agent, never typing into a live one's pane.
Up ==
    /\ CmdAt("up")
    /\ CmdTo("proof")
    /\ \/ agent' = [agent EXCEPT !.alive = TRUE] /\ UNCHANGED left
       \/ agent' = agent /\ Fault
    /\ UNCHANGED <<project, dispatcher, snap, active, file, hist>>
Proof ==
    /\ CmdAt("proof")
    /\ IF cmd.failed \/ (~agent.alive /\ ~cmd.insist) THEN Leave ELSE CmdTo("lift")
    /\ UNCHANGED <<things, active, file, left, hist>>
Lift ==
    /\ CmdAt("lift")
    /\ \/ Unsuspend /\ (IF cmd.have THEN CmdTo("aside") ELSE Leave) /\ UNCHANGED left
       \/ pause' = pause /\ Leave /\ Fault
    /\ UNCHANGED <<clock, due, dispatcher, panes, active, file, hist>>
SetAside ==
    /\ CmdAt("aside")
    /\ Leave
    /\ \/ file' = NoFile /\ UNCHANGED left
       \/ file' = file /\ Fault
    /\ UNCHANGED <<things, active, hist>>

\* The command is killed at any step, or the machine goes down under a
\* suspended project.
Kill ==
    /\ ~CmdAt("off") /\ Fault
    /\ Leave
    /\ UNCHANGED <<things, active, file, hist>>
Reboot ==
    /\ Suspended /\ Spend("reboots")
    /\ active' = {} /\ disp' = Resting
    /\ agent' = [alive |-> FALSE, turn |-> "none", input |-> FALSE]
    /\ Leave
    /\ UNCHANGED <<project, lease, wake, snap, file, hist>>

-----------------------------------------------------------------------------

Agent == OwnTurn \/ WokenTurn \/ EndTurn \/ Declare
Dispatcher == Acquire \/ Pass \/ EndPause \/ Reserve \/ Type \/ Record \/ CrashDispatch \/ Expire
Suspending == \/ ReadServices \/ WriteSuspend \/ StopDispatch \/ RoundNow \/ Round \/ GiveUp
              \/ Facts \/ Stops \/ WriteSnapshot \/ StartAgain \/ Cancel
Resuming == Start \/ Up \/ Proof \/ Lift \/ SetAside
Person == SetPause \/ EndByHand \/ BeginSuspend \/ BeginResume

Next == Agent \/ Dispatcher \/ Overdue \/ Person \/ Suspending \/ Settle \/ Resuming \/ Kill \/ Reboot

Spec == Init /\ [][Next]_vars

\* A command that is not killed goes on, and its wait has a deadline; a person
\* runs resume until the project is back.
Fairness == WF_vars(Suspending) /\ SF_vars(GiveUp) /\ WF_vars(Resuming) /\ WF_vars(BeginResume)
FairSpec == Spec /\ Fairness

-----------------------------------------------------------------------------
(* Properties.                                                              *)

Services == {Unread} \union SUBSET Kinds
CmdSteps == {"off", "services", "write", "stop", "now", "round", "facts", "stops", "file", "start again", "cancel",
             "start", "up", "proof", "lift", "aside"}
Commands == [pc : CmdSteps, raw : 0 .. clock, services : Services, have : BOOLEAN, insist : BOOLEAN, todo : SUBSET Kinds,
             failed : BOOLEAN, taken : 0 .. clock, known : BOOLEAN, settled : BOOLEAN, ready : 0 .. 2, quiet : 0 .. 2]

\* Every variable keeps its type; a suspend never stands in for another suspend.
TypeOK ==
    /\ pause \in [kind : {"none", "pause", "suspend"}, id : 0 .. clock, services : Services, prev : 0 .. clock]
    /\ clock \in Nat /\ due \subseteq 1 .. clock
    /\ active \subseteq Kinds /\ lease \in BOOLEAN
    /\ disp \in [pc : {"off", "pass", "end", "reserve", "type", "record"}, raw : 0 .. clock]
    /\ wake \in {"none", "prompting", "prompted"}
    /\ agent \in [alive : BOOLEAN, turn : {"none", "own", "wake"}, input : BOOLEAN]
    /\ snap \in [state : {"idle", "working", "waiting"}, auto : BOOLEAN, late : BOOLEAN]
    /\ file \in [taken : 0 .. clock, services : SUBSET Kinds]
    /\ cmd \in Commands
    /\ left \in [suspends : Nat, pauses : Nat, wakes : Nat, turns : Nat, declares : Nat, faults : Nat, reboots : Nat, hooks : {0, 1}]
    /\ hist \in [quiet : SUBSET (1 .. clock), forced : SUBSET (1 .. clock), stopped : SUBSET (1 .. clock),
                said : SUBSET (1 .. clock), ran : SUBSET Kinds]

\* Once a suspend that stopped the dispatcher first was judged quiet, no wake is
\* being typed, waits in the pane or runs a turn, until it is lifted: whatever
\* hooks were lost when the pane can be inspected, and, when it cannot, unless the
\* agent itself declared in that wait, from inside a turn, that it was at rest.
Calm == ~agent.input /\ agent.turn # "wake"
Misled == left.hooks = 1 /\ pause.id \in hist.said
QuietMeansQuiet ==
    Suspended /\ pause.id \in hist.quiet \intersect hist.stopped => ~DispAt("type") /\ (Calm \/ Misled)

\* A suspend stops the project's services only when it was judged quiet or
\* forced, and never by the snapshot of an earlier one.
StopsOnlyWhenQuiet ==
    cmd.pc \in {"stops", "file"} => cmd.raw \in hist.quiet \union hist.forced

\* When a suspend ends, by a cancel or a resume, every service that ran when it
\* was written runs, whatever stopped it and however often either was killed.
ServicesComeBack ==
    [][Suspended /\ pause.services # Unread /\ pause'.kind # "suspend" => hist.ran \subseteq active]_vars

\* Only a command on that very suspend ends it: no dispatcher, however due the
\* pause it read, and no other pause.
OnlyCommandsLift ==
    [][Suspended /\ pause' # pause => cmd.pc \in {"cancel", "lift"} /\ cmd.raw = pause.id]_vars

\* A suspended project comes back, whatever was killed and however often the
\* machine went down.
SuspendIsLifted == Suspended ~> ~Suspended

\* What the suspend design says of a record without services: the resume
\* starts every installed service.
UnreadStartsAll ==
    [][Suspended /\ pause.services = Unread /\ CmdAt("lift") /\ pause'.kind # "suspend" => active = Kinds]_vars
=============================================================================
