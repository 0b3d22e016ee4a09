--------------------------- MODULE Suspend_proofs ---------------------------
(***************************************************************************)
(* Why a suspend is safe, for every budget: the invariant SuspendInv, one   *)
(* lemma for each of its parts, and what follows from it.                   *)
(***************************************************************************)
EXTENDS Suspend, TLAPS

\* A command knows the suspend it works on.
CmdFits ==
    /\ Suspended => pause.id \in 1 .. clock
    /\ cmd.pc \in {"services", "write"} => ~Suspended
    /\ cmd.pc \notin {"off", "services", "write", "aside"} =>
           Suspended /\ cmd.raw = pause.id /\ cmd.services = pause.services

\* A snapshot that stands for the suspend was written after its wait.
Judged(id) == id \in hist.quiet \union hist.forced
FileFits ==
    /\ Suspended /\ Current => Judged(pause.id)
    /\ cmd.pc \in {"stop", "now", "round", "facts"} => ~Current

\* What ran is recorded, and what is recorded runs again, but for a failed start.
Runs == cmd.services # Unread => \A k \in cmd.services \ cmd.todo : k \in active \/ cmd.failed
ServicesFit ==
    /\ cmd.pc = "write" => cmd.services \in {Unread, active}
    /\ Suspended /\ pause.services # Unread => hist.ran = pause.services
    /\ cmd.pc \in {"start again", "start"} => Runs
    /\ cmd.pc \in {"up", "proof"} => Runs /\ cmd.todo = {}
    /\ cmd.pc \in {"cancel", "lift"} /\ cmd.services # Unread => cmd.services \subseteq active

\* A dispatcher stopped under a suspend types nothing while it lasts, so calm,
\* once reached, stays; and so does what the agent said, until the wait is anew.
PaneFits ==
    /\ "dispatch" \notin active => DispAt("off")
    /\ ~agent.alive => Calm
    /\ wake = "none" => Calm /\ ~DispAt("type")
Stood == Suspended /\ pause.id \in hist.stopped

\* The wait begins anew with the dispatcher's stop, and ends at two quiet rounds.
WaitBegins ==
    /\ cmd.pc \in {"now", "round"} => cmd.quiet < 2
    /\ cmd.pc \in {"services", "write", "stop"} => ~cmd.known /\ ~cmd.settled /\ cmd.ready = 0 /\ cmd.quiet = 0
StaysCalm ==
    Stood => /\ ~DispAt("type")
             /\ pause.id \in hist.quiet => Calm \/ Misled
\* What a round counted was calm, or misled.
CountsCalm ==
    Stood /\ cmd.pc \in {"now", "round", "facts"} =>
        /\ cmd.settled => ~agent.input
        /\ cmd.ready > 0 => Calm
        /\ cmd.quiet > 0 => Calm \/ Misled
\* A snapshot at rest later than the boundary answers the wake: between turns what
\* was typed has run, and within one only the agent itself says so, hooks or not.
Rested ==
    snap.state # "working" /\ snap.late =>
        /\ agent.turn = "none" => Calm
        /\ left.hooks = 1 => Calm \/ Misled
RestAnswers == Stood /\ Judging => Rested
WaitFits == WaitBegins /\ StaysCalm /\ CountsCalm /\ RestAnswers
SuspendInv == TypeOK /\ CmdFits /\ FileFits /\ StopsOnlyWhenQuiet /\ ServicesFit /\ PaneFits /\ WaitFits

Budget == [suspends : Nat, pauses : Nat, wakes : Nat, turns : Nat, declares : Nat, faults : Nat, reboots : Nat, hooks : {0, 1}]

\* What a step spends leaves a budget.
LEMMA Spending ==
    ASSUME left \in Budget, NEW what \in {"suspends", "pauses", "wakes", "turns", "declares", "faults", "reboots"}, Spend(what)
    PROVE  left' \in Budget /\ left'.hooks = left.hooks
BY DEF Budget, Spend

\* The records that the steps start from have the types of TypeOK.
Snaps == [state : {"idle", "working", "waiting"}, auto : BOOLEAN, late : BOOLEAN]
Histories == [quiet : SUBSET (1 .. clock), forced : SUBSET (1 .. clock), stopped : SUBSET (1 .. clock),
              said : SUBSET (1 .. clock), ran : SUBSET Kinds]
LEMMA Records ==
    /\ \A s \in Snaps, state \in {"idle", "working"} : Flip(s, state) \in Snaps
    /\ \A n \in Nat : /\ NoPause \in [kind : {"none", "pause", "suspend"}, id : 0 .. n, services : Services, prev : 0 .. n]
                      /\ NoFile \in [taken : 0 .. n, services : SUBSET Kinds]
                      /\ Resting \in [pc : {"off", "pass", "end", "reserve", "type", "record"}, raw : 0 .. n]
    /\ clock \in Nat => NoCmd \in Commands
<1>1. \A s \in Snaps, state \in {"idle", "working"} : Flip(s, state) \in Snaps
  BY DEF Flip, Snaps
<1>2. clock \in Nat => NoCmd \in Commands
  BY DEF NoCmd, Commands, CmdSteps, Services
<1>3. \A n \in Nat : /\ NoPause \in [kind : {"none", "pause", "suspend"}, id : 0 .. n, services : Services, prev : 0 .. n]
                     /\ NoFile \in [taken : 0 .. n, services : SUBSET Kinds]
                     /\ Resting \in [pc : {"off", "pass", "end", "reserve", "type", "record"}, raw : 0 .. n]
  BY DEF NoPause, NoFile, Resting, Services
<1> QED BY <1>1, <1>2, <1>3

\* The initial states have their types.
LEMMA TypeInit == Init => TypeOK
<1> SUFFICES ASSUME Init PROVE TypeOK
  OBVIOUS
<1>1. left \in Budget
  BY SuspendAssumption DEF Init, Budget
<1>2. cmd \in Commands
  BY Records DEF Init
<1>3. agent \in [alive : BOOLEAN, turn : {"none", "own", "wake"}, input : BOOLEAN] /\ snap \in Snaps
  BY DEF Init, Snaps
<1>4. disp = Resting /\ file = NoFile /\ pause = NoPause /\ clock \in Nat
  BY DEF Init
<1>5. clock = 0 /\ due = {} /\ active \subseteq Kinds /\ lease \in BOOLEAN /\ wake = "none"
      /\ hist = [quiet |-> {}, forced |-> {}, stopped |-> {}, said |-> {}, ran |-> {}]
  BY DEF Init, Kinds
<1> QED BY <1>1, <1>2, <1>3, <1>4, <1>5, Records DEF TypeOK, Budget, Snaps

\* The hooks keep the snapshot's type.
LEMMA HookedType == \A S \in SUBSET Snaps, state \in {"idle", "working"} : Hooked(S, state) \subseteq Snaps
BY Records DEF Hooked

\* What the agent says is of the suspend in whose wait it says it.
LEMMA SaysOfWait ==
    ASSUME TypeOK, CmdFits, Declare
    PROVE  /\ snap' \in Snaps /\ hist' \in Histories /\ left' \in Budget /\ left'.hooks = left.hooks
           /\ UNCHANGED <<pause, clock, due, active, lease, disp, wake, agent, file, cmd>>
           /\ hist.said \subseteq hist'.said
           /\ Judging /\ snap'.late /\ snap'.state # "working" => pause.id \in hist'.said
           /\ hist'.quiet = hist.quiet /\ hist'.forced = hist.forced /\ hist'.stopped = hist.stopped /\ hist'.ran = hist.ran
<1>1. PICK state \in {"idle", "working", "waiting"}, late \in BOOLEAN :
        /\ snap' = [state |-> state, auto |-> FALSE, late |-> late]
        /\ hist' = [hist EXCEPT !.said = IF Judging /\ late /\ state # "working" THEN @ \union {cmd.raw} ELSE @]
  BY DEF Declare
<1>2. Judging => Suspended /\ cmd.raw = pause.id /\ pause.id \in 1 .. clock
  BY DEF Judging, CmdAt, CmdFits
<1>3. hist \in Histories
  BY DEF TypeOK, Histories
<1>4. left' \in Budget /\ left'.hooks = left.hooks
  BY Spending DEF Declare, TypeOK, Budget
<1>5. UNCHANGED <<pause, clock, due, active, lease, disp, wake, agent, file, cmd>>
  BY DEF Declare, around, project, dispatcher
<1>6. CASE Judging /\ late /\ state # "working"
  <2>1. hist' = [hist EXCEPT !.said = @ \union {cmd.raw}]
    BY <1>1, <1>6
  <2>2. hist' \in Histories /\ hist'.said = hist.said \union {cmd.raw}
        /\ hist'.quiet = hist.quiet /\ hist'.forced = hist.forced /\ hist'.stopped = hist.stopped /\ hist'.ran = hist.ran
    BY <1>2, <1>3, <1>6, <2>1 DEF Histories
  <2> QED BY <1>1, <1>2, <1>4, <1>5, <1>6, <2>2 DEF Snaps
<1>7. CASE ~(Judging /\ late /\ state # "working")
  <2>1. hist' = hist
    BY <1>1, <1>3, <1>7 DEF Histories
  <2>2. snap'.late = late /\ snap'.state = state
    BY <1>1
  <2> QED BY <1>1, <1>3, <1>4, <1>5, <1>7, <2>1, <2>2 DEF Snaps, Histories
<1> QED BY <1>6, <1>7

\* The agent leaves everything else alone.
LEMMA AgentType == TypeOK /\ CmdFits /\ Agent => TypeOK'
<1> SUFFICES ASSUME TypeOK, CmdFits, Agent PROVE TypeOK'
  OBVIOUS
<1>0. {snap} \in SUBSET Snaps /\ hist \in Histories
  BY DEF TypeOK, Snaps, Histories
<1>1. left' \in Budget
  BY Spending, SaysOfWait DEF Agent, OwnTurn, WokenTurn, EndTurn, TypeOK, Budget
<1>2. snap' \in Snaps
  <2>1. CASE OwnTurn \/ WokenTurn
    BY <1>0, <2>1, HookedType DEF OwnTurn, WokenTurn
  <2>2. CASE EndTurn
    <3>1. Hooked({snap}, "idle") \in SUBSET Snaps
      BY <1>0, HookedType
    <3>2. Hooked(Hooked({snap}, "idle"), "working") \subseteq Snaps
      BY <3>1, HookedType
    <3> QED BY <2>2, <3>1, <3>2 DEF EndTurn
  <2> QED BY <2>1, <2>2, SaysOfWait DEF Agent
<1>3. agent' \in [alive : BOOLEAN, turn : {"none", "own", "wake"}, input : BOOLEAN]
  BY SaysOfWait, ZenonT(40) DEF Agent, OwnTurn, WokenTurn, EndTurn, TypeOK
<1>4. UNCHANGED <<pause, clock, due, active, lease, disp, wake, file, cmd>>
  BY SaysOfWait DEF Agent, OwnTurn, WokenTurn, EndTurn, around, project, dispatcher
<1>5. hist' \in Histories
  BY <1>0, SaysOfWait DEF Agent, OwnTurn, WokenTurn, EndTurn, Histories, around, project
<1> QED BY <1>1, <1>2, <1>3, <1>4, <1>5 DEF TypeOK, Commands, Budget, Snaps, Histories

\* The dispatcher ends a due pause, and reserves and types a wake.
LEMMA DispatcherType == TypeOK /\ Dispatcher => TypeOK'
<1> SUFFICES ASSUME TypeOK, Dispatcher PROVE TypeOK'
  OBVIOUS
<1> USE DEF TypeOK, Commands, beside, panes, DispAt, DispTo
<1>1. CASE Acquire
  BY <1>1 DEF Acquire
<1>2. CASE Pass
  BY <1>2 DEF Pass, Fault, Spend
<1>3. CASE EndPause
  BY <1>3 DEF EndPause, NoPause, Services
<1>4. CASE Reserve
  BY <1>4 DEF Reserve, Spend
<1>5. CASE Type
  BY <1>5 DEF Type
<1>6. CASE Record
  BY <1>6 DEF Record
<1>7. CASE CrashDispatch
  BY <1>7 DEF CrashDispatch, Died, Resting, Fault, Spend
<1>8. CASE Expire
  <2>1. lease' \in BOOLEAN /\ UNCHANGED <<pause, disp, wake, panes, beside, left>>
    BY <1>8 DEF Expire
  <2> HIDE <1>8
  <2> QED BY <2>1
<1> QED BY <1>1, <1>2, <1>3, <1>4, <1>5, <1>6, <1>7, <1>8 DEF Dispatcher

\* A command changes one or a few fields of its record.
LEMMA CmdUpdates ==
    ASSUME cmd \in Commands
    PROVE  /\ \A pc \in CmdSteps : [cmd EXCEPT !.pc = pc] \in Commands
           /\ \A pc \in CmdSteps, todo \in SUBSET Kinds : [cmd EXCEPT !.pc = pc, !.todo = todo] \in Commands
           /\ \A pc \in CmdSteps, S \in Services : [cmd EXCEPT !.pc = pc, !.services = S] \in Commands
           /\ \A pc \in CmdSteps, todo \in SUBSET Kinds, n \in 0 .. clock : [cmd EXCEPT !.pc = pc, !.todo = todo, !.taken = n] \in Commands
           /\ \A k \in Kinds : /\ [cmd EXCEPT !.todo = @ \ {k}] \in Commands
                               /\ [cmd EXCEPT !.todo = @ \ {k}, !.failed = TRUE] \in Commands
           /\ [cmd EXCEPT !.settled = TRUE] \in Commands
           /\ \A pc \in CmdSteps, b \in BOOLEAN, r \in 0 .. 2, q \in 0 .. 2 :
                [cmd EXCEPT !.pc = pc, !.known = b, !.ready = r, !.quiet = q] \in Commands
           /\ \A pc \in CmdSteps, q \in 0 .. 2 : [cmd EXCEPT !.pc = pc, !.quiet = q] \in Commands
<1>1. \A pc \in CmdSteps : [cmd EXCEPT !.pc = pc] \in Commands
  BY DEF Commands
<1>2. \A pc \in CmdSteps, todo \in SUBSET Kinds : [cmd EXCEPT !.pc = pc, !.todo = todo] \in Commands
  BY DEF Commands
<1>3. \A pc \in CmdSteps, S \in Services : [cmd EXCEPT !.pc = pc, !.services = S] \in Commands
  BY DEF Commands
<1>4. \A pc \in CmdSteps, todo \in SUBSET Kinds, n \in 0 .. clock : [cmd EXCEPT !.pc = pc, !.todo = todo, !.taken = n] \in Commands
  BY DEF Commands
<1>5. \A k \in Kinds : [cmd EXCEPT !.todo = @ \ {k}] \in Commands
  BY DEF Commands
<1>6. \A k \in Kinds : [cmd EXCEPT !.todo = @ \ {k}, !.failed = TRUE] \in Commands
  BY DEF Commands
<1>7. [cmd EXCEPT !.settled = TRUE] \in Commands
  BY DEF Commands
<1>8. \A pc \in CmdSteps, b \in BOOLEAN, r \in 0 .. 2, q \in 0 .. 2 :
        [cmd EXCEPT !.pc = pc, !.known = b, !.ready = r, !.quiet = q] \in Commands
  BY DEF Commands
<1>9. \A pc \in CmdSteps, q \in 0 .. 2 : [cmd EXCEPT !.pc = pc, !.quiet = q] \in Commands
  BY DEF Commands
<1> QED BY <1>1, <1>2, <1>3, <1>4, <1>5, <1>6, <1>7, <1>8, <1>9

LEMMA Steps == {"write", "now", "round", "facts", "stops", "file", "start again", "cancel", "up"} \subseteq CmdSteps
BY DEF CmdSteps

\* The command's record keeps its type where the clock stands still.
LEMMA SuspendingCmd ==
    ASSUME TypeOK, WaitFits, Suspending \/ Settle \/ Kill, ~WriteSuspend
    PROVE  cmd' \in Commands
<1>0. cmd \in Commands /\ clock \in Nat /\ active \in SUBSET Kinds
  BY DEF TypeOK
<1>1. CASE ReadServices
  <2>1. \E S \in Services : cmd' = [cmd EXCEPT !.pc = "write", !.services = S]
    BY <1>0, <1>1 DEF ReadServices, Services
  <2>2. "write" \in CmdSteps
    BY Steps
  <2> QED BY <1>0, <2>1, <2>2, CmdUpdates, ZenonT(40)
<1>2. CASE StopDispatch \/ GiveUp
  <2>1. \/ \E pc \in CmdSteps : cmd' = [cmd EXCEPT !.pc = pc]
        \/ \E pc \in CmdSteps : cmd' = [cmd EXCEPT !.pc = pc, !.todo = Kinds]
    BY <1>2 DEF StopDispatch, GiveUp, CmdTo, CmdSteps
  <2>2. Kinds \in SUBSET Kinds
    OBVIOUS
  <2> QED BY <1>0, <2>1, <2>2, CmdUpdates, ZenonT(40)
<1>3. CASE RoundNow
  <2>1. cmd' = [cmd EXCEPT !.pc = "round"]
    BY <1>3 DEF RoundNow, CmdTo
  <2> QED BY <1>0, <2>1, CmdUpdates DEF CmdSteps
<1>4. CASE Round
  <2>1. CASE cmd' = [cmd EXCEPT !.pc = "now", !.quiet = 0]
    <3>1. "now" \in CmdSteps
      BY Steps
    <3>2. 0 \in 0 .. 2
      OBVIOUS
    <3> QED BY <1>0, <2>1, <3>1, <3>2, CmdUpdates
  <2>2. CASE cmd' # [cmd EXCEPT !.pc = "now", !.quiet = 0]
    <3>1. cmd.ready \in 0 .. 2 /\ cmd.quiet \in 0 .. 1
      <4>1. cmd.pc = "round"
        BY <1>4 DEF Round, CmdAt
      <4> QED BY <1>0, <4>1 DEF Commands, WaitFits, WaitBegins
    <3>2. PICK obs \in Inspections :
            LET known == cmd.known \/ wake # "prompting" \/ Gone
                ready == IF obs \in {"ready", "rested"} /\ cmd.known /\ cmd.settled THEN IF cmd.ready = 2 THEN 2 ELSE cmd.ready + 1 ELSE 0
                busy == agent.alive /\ (Woken(known, ready) \/ Working(obs) \/ obs = "busy")
                quiet == IF busy THEN 0 ELSE cmd.quiet + 1
            IN  cmd' = [cmd EXCEPT !.pc = IF quiet = 2 THEN "facts" ELSE "now",
                                   !.known = known, !.ready = ready, !.quiet = quiet]
      BY <1>4, <2>2 DEF Round
    <3> DEFINE known == cmd.known \/ wake # "prompting" \/ Gone
               ready == IF obs \in {"ready", "rested"} /\ cmd.known /\ cmd.settled THEN IF cmd.ready = 2 THEN 2 ELSE cmd.ready + 1 ELSE 0
               busy == agent.alive /\ (Woken(known, ready) \/ Working(obs) \/ obs = "busy")
               quiet == IF busy THEN 0 ELSE cmd.quiet + 1
               pc == IF quiet = 2 THEN "facts" ELSE "now"
    <3>3. cmd' = [cmd EXCEPT !.pc = pc, !.known = known, !.ready = ready, !.quiet = quiet]
      BY <3>2
    <3>4. known \in BOOLEAN
      BY <1>0 DEF Commands
    <3>5. ready \in 0 .. 2
      BY <3>1
    <3>6. quiet \in 0 .. 2
      BY <3>1
    <3>7. pc \in CmdSteps
      BY DEF CmdSteps
    <3> HIDE DEF known, ready, busy, quiet, pc
    <3> QED BY <1>0, <3>3, <3>4, <3>5, <3>6, <3>7, CmdUpdates
  <2> QED BY <2>1, <2>2
<1>5. CASE Facts
  <2>1. cmd' = [cmd EXCEPT !.pc = "stops", !.todo = active, !.taken = clock] /\ clock \in 0 .. clock
    BY <1>0, <1>5 DEF Facts
  <2> QED BY <1>0, <2>1, CmdUpdates DEF CmdSteps
<1>6. CASE Stops
  <2>1. cmd.todo \subseteq Kinds
    BY <1>0 DEF Commands
  <2>2. \/ cmd' = [cmd EXCEPT !.pc = "file"]
        \/ \E k \in Kinds : cmd' = [cmd EXCEPT !.todo = @ \ {k}]
    BY <1>6, <2>1 DEF Stops, CmdTo
  <2> QED BY <1>0, <2>2, CmdUpdates DEF CmdSteps
<1>7. CASE WriteSnapshot \/ Cancel \/ Kill
  BY <1>0, <1>7, Records DEF WriteSnapshot, Cancel, Kill, Leave
<1>8. CASE StartAgain
  <2>1. cmd.todo \subseteq Kinds
    BY <1>0 DEF Commands
  <2>2. \/ cmd' = NoCmd
        \/ cmd' = [cmd EXCEPT !.pc = "cancel"]
        \/ \E k \in Kinds : cmd' = [cmd EXCEPT !.todo = @ \ {k}]
        \/ \E k \in Kinds : cmd' = [cmd EXCEPT !.todo = @ \ {k}, !.failed = TRUE]
    BY <1>8, <2>1, Zenon DEF StartAgain, Starting, Leave, CmdTo
  <2> QED BY <1>0, <2>2, CmdUpdates, Records, ZenonT(40) DEF CmdSteps
<1>9. CASE Settle
  <2>1. cmd' = [cmd EXCEPT !.settled = TRUE]
    BY <1>9 DEF Settle
  <2> QED BY <1>0, <2>1, CmdUpdates
<1> QED BY <1>1, <1>2, <1>3, <1>4, <1>5, <1>6, <1>7, <1>8, <1>9 DEF Suspending

\* The same of a resume.
LEMMA ResumingCmd ==
    ASSUME TypeOK, Resuming
    PROVE  cmd' \in Commands
<1>0. cmd \in Commands /\ clock \in Nat
  BY DEF TypeOK
<1>1. CASE Start
  <2>1. cmd.todo \subseteq Kinds
    BY <1>0 DEF Commands
  <2>2. \/ cmd' = [cmd EXCEPT !.pc = "up"]
        \/ \E k \in Kinds : cmd' = [cmd EXCEPT !.todo = @ \ {k}]
        \/ \E k \in Kinds : cmd' = [cmd EXCEPT !.todo = @ \ {k}, !.failed = TRUE]
    BY <1>1, <2>1, Zenon DEF Start, Starting, Unreadable, CmdTo
  <2> QED BY <1>0, <2>2, CmdUpdates DEF CmdSteps
<1>2. CASE Up \/ Proof \/ Lift \/ SetAside
  <2>1. cmd' = NoCmd \/ \E pc \in CmdSteps : cmd' = [cmd EXCEPT !.pc = pc]
    BY <1>2 DEF Up, Proof, Lift, SetAside, Leave, CmdTo, CmdSteps
  <2> QED BY <1>0, <2>1, CmdUpdates, Records
<1> QED BY <1>1, <1>2 DEF Resuming

\* What a person types, a deadline and a reboot keep the types.
LEMMA PersonType == TypeOK /\ (Person \/ Overdue \/ Reboot) => TypeOK'
<1> SUFFICES ASSUME TypeOK, Person \/ Overdue \/ Reboot PROVE TypeOK'
  OBVIOUS
<1>0. cmd \in Commands /\ clock \in Nat /\ active \in SUBSET Kinds /\ left \in Budget
  BY DEF TypeOK, Budget
<1>1. CASE SetPause
  <2>1. /\ pause' = [NoPause EXCEPT !.kind = "pause", !.id = clock + 1]
        /\ clock' = clock + 1 /\ left' \in Budget
        /\ UNCHANGED <<due, active, lease, disp, wake, agent, snap, file, cmd, hist>>
    BY <1>0, <1>1, Spending DEF SetPause, dispatcher, panes
  <2>2. cmd' \in Commands'
    BY <1>0, <2>1 DEF Commands
  <2>3. pause' \in [kind : {"none", "pause", "suspend"}, id : 0 .. clock', services : Services, prev : 0 .. clock']
    <3>1. clock + 1 \in 0 .. clock'
      BY <1>0, <2>1
    <3>2. NoPause \in [kind : {"none", "pause", "suspend"}, id : 0 .. clock', services : Services, prev : 0 .. clock']
      BY <1>0, <2>1, Records
    <3> QED BY <2>1, <3>1, <3>2
  <2> HIDE <1>1
  <2> QED BY <2>1, <2>2, <2>3 DEF TypeOK, Budget
<1>2. CASE EndByHand
  <2>1. pause' = NoPause /\ UNCHANGED <<clock, due, active, lease, disp, wake, agent, snap, file, cmd, left, hist>>
    BY <1>2 DEF EndByHand, dispatcher, panes
  <2> HIDE <1>2
  <2> QED BY <2>1, Records DEF TypeOK, Commands
<1>3. CASE BeginSuspend
  <2>1. UNCHANGED <<project, dispatcher, panes, active, file, hist>> /\ left' \in Budget
    BY <1>0, <1>3, Spending DEF BeginSuspend, things
  <2>2. /\ pause.id \in 0 .. clock /\ pause.services \in Services /\ file.taken \in 0 .. clock
    BY DEF TypeOK
  <2>3. cmd' \in Commands
    <3>1. PICK insist \in BOOLEAN :
            LET mine == [NoCmd EXCEPT !.raw = pause.id, !.services = pause.services, !.insist = insist]
            IN  \/ cmd' = [mine EXCEPT !.pc = "stops", !.todo = active, !.taken = file.taken]
                \/ cmd' = [mine EXCEPT !.pc = "stop"]
                \/ cmd' = [NoCmd EXCEPT !.pc = "services", !.insist = insist]
      BY <1>3 DEF BeginSuspend
    <3> DEFINE mine == [NoCmd EXCEPT !.raw = pause.id, !.services = pause.services, !.insist = insist]
    <3>2. NoCmd \in Commands
      BY <1>0, Records
    <3>3. mine \in Commands
      BY <2>2, <3>2 DEF Commands
    <3>4. [NoCmd EXCEPT !.pc = "services", !.insist = insist] \in Commands
      BY <3>2 DEF Commands, CmdSteps
    <3> HIDE DEF mine
    <3>5. [mine EXCEPT !.pc = "stops", !.todo = active, !.taken = file.taken] \in Commands
      BY <1>0, <2>2, <3>3 DEF Commands, CmdSteps
    <3>6. [mine EXCEPT !.pc = "stop"] \in Commands
      BY <3>3 DEF Commands, CmdSteps
    <3> QED BY <3>1, <3>4, <3>5, <3>6 DEF mine
  <2> HIDE <1>3
  <2> QED BY <2>1, <2>3 DEF TypeOK, Commands, Budget, project, dispatcher, panes
<1>4. CASE BeginResume
  <2>1. UNCHANGED <<project, dispatcher, panes, active, file, left, hist>>
    BY <1>4 DEF BeginResume, things
  <2>2. /\ pause.id \in 0 .. clock /\ pause.services \in Services
    BY DEF TypeOK
  <2>3. Current \in BOOLEAN
    BY DEF Current
  <2>4. cmd' \in Commands
    <3>1. PICK partial \in BOOLEAN :
            cmd' = [NoCmd EXCEPT !.pc = "start", !.raw = pause.id, !.services = pause.services,
                                 !.have = Current, !.insist = partial, !.todo = Kinds]
      BY <1>4 DEF BeginResume
    <3>2. NoCmd \in Commands
      BY <1>0, Records
    <3> HIDE <1>4
    <3> QED BY <2>2, <2>3, <3>1, <3>2 DEF Commands, CmdSteps
  <2> HIDE <1>4
  <2> QED BY <2>1, <2>4 DEF TypeOK, Commands, project, dispatcher, panes
<1>5. CASE Overdue
  <2>1. due' \subseteq 1 .. clock
    BY <1>5 DEF Overdue, TypeOK
  <2>2. UNCHANGED <<pause, clock, active, lease, disp, wake, agent, snap, file, cmd, left, hist>>
    BY <1>5 DEF Overdue, dispatcher, panes
  <2> HIDE <1>5
  <2> QED BY <2>1, <2>2 DEF TypeOK, Commands
<1>6. CASE Reboot
  <2>1. /\ active' = {} /\ disp' = Resting /\ cmd' = NoCmd /\ left' \in Budget
        /\ UNCHANGED <<pause, clock, due, lease, wake, snap, file, hist>>
    BY <1>0, <1>6, Spending DEF Reboot, Leave, project
  <2>2. agent' \in [alive : BOOLEAN, turn : {"none", "own", "wake"}, input : BOOLEAN]
    BY <1>6 DEF Reboot
  <2>3. cmd' \in Commands
    BY <1>0, <2>1, Records
  <2> HIDE <1>6
  <2> QED BY <2>1, <2>2, <2>3, Records DEF TypeOK, Commands, Budget
<1> QED BY <1>1, <1>2, <1>3, <1>4, <1>5, <1>6 DEF Person

\* A suspend keeps the types.
LEMMA SuspendingType == TypeOK /\ CmdFits /\ WaitFits /\ (Suspending \/ Settle \/ Kill) => TypeOK'
<1> SUFFICES ASSUME TypeOK, CmdFits, WaitFits, Suspending \/ Settle \/ Kill PROVE TypeOK'
  OBVIOUS
<1>0. cmd \in Commands /\ clock \in Nat /\ active \in SUBSET Kinds /\ left \in Budget
  BY DEF TypeOK, Budget
<1>1. left' \in Budget
  <2>1. left' = left \/ Fault
    BY Zenon DEF Suspending, Settle, Kill, ReadServices, WriteSuspend, StopDispatch, RoundNow, Round, GiveUp, Facts, Stops,
       WriteSnapshot, StartAgain, Starting, Cancel
  <2> QED BY <1>0, <2>1, Spending DEF Fault
<1>2. CASE WriteSuspend
  <2>1. /\ clock' = clock + 1
        /\ pause' = [kind |-> "suspend", id |-> clock + 1, services |-> cmd.services, prev |-> pause.id]
        /\ hist' = [hist EXCEPT !.ran = active]
        /\ cmd' = [cmd EXCEPT !.pc = "stop", !.raw = clock + 1]
        /\ UNCHANGED <<due, lease, disp, wake, agent, snap, active, file>>
    BY <1>2 DEF WriteSuspend, dispatcher, panes
  <2>2. cmd' \in Commands'
    <3>1. cmd \in [pc : CmdSteps, raw : 0 .. clock', services : Services, have : BOOLEAN, insist : BOOLEAN, todo : SUBSET Kinds,
                    failed : BOOLEAN, taken : 0 .. clock', known : BOOLEAN, settled : BOOLEAN, ready : 0 .. 2, quiet : 0 .. 2]
      BY <1>0, <2>1 DEF Commands
    <3>2. clock + 1 \in 0 .. clock' /\ "stop" \in CmdSteps
      BY <1>0, <2>1 DEF CmdSteps
    <3> HIDE <1>2
    <3> QED BY <2>1, <3>1, <3>2 DEF Commands
  <2>3. pause' \in [kind : {"none", "pause", "suspend"}, id : 0 .. clock', services : Services, prev : 0 .. clock']
    <3>1. cmd.services \in Services
      BY <1>0 DEF Commands
    <3>2. pause.id \in 0 .. clock
      BY DEF TypeOK
    <3> QED BY <1>0, <2>1, <3>1, <3>2
  <2> HIDE <1>2
  <2> QED BY <1>0, <1>1, <2>1, <2>2, <2>3 DEF TypeOK, Budget
<1>3. CASE ~WriteSuspend
  <2>1. cmd' \in Commands
    BY <1>3, SuspendingCmd
  <2>2. UNCHANGED <<clock, due, wake, agent>>
    BY <1>3 DEF Suspending, Settle, Kill, ReadServices, StopDispatch, RoundNow, Round, GiveUp, Facts, Stops,
       WriteSnapshot, StartAgain, Cancel, things, dispatcher, panes, project
  <2>3. active' \subseteq Kinds /\ lease' \in BOOLEAN /\ (disp' = disp \/ disp' = Resting)
    <3>1. /\ disp' = disp \/ disp' = Resting
          /\ lease' = lease \/ lease' = FALSE
      BY <1>3 DEF Suspending, Settle, Kill, ReadServices, StopDispatch, RoundNow, Round, GiveUp, Facts, Stops, Stopping,
         WriteSnapshot, StartAgain, Cancel, things, dispatcher, panes, project
    <3>2. active' \subseteq active \union cmd.todo
      BY <1>3 DEF Suspending, Settle, Kill, ReadServices, StopDispatch, RoundNow, Round, GiveUp, Facts, Stops, Stopping,
         WriteSnapshot, StartAgain, Starting, Cancel, things
    <3>3. cmd.todo \subseteq Kinds /\ lease \in BOOLEAN
      BY <1>0 DEF Commands, TypeOK
    <3> QED BY <1>0, <3>1, <3>2, <3>3
  <2>4. pause' = pause \/ pause' = NoPause \/ pause' = [NoPause EXCEPT !.kind = "pause", !.id = pause.prev]
    BY <1>3 DEF Suspending, Settle, Kill, ReadServices, StopDispatch, RoundNow, Round, GiveUp, Facts, Stops,
       WriteSnapshot, StartAgain, Cancel, Unsuspend, things, project
  <2>5. snap' = snap \/ snap' = [snap EXCEPT !.late = @ /\ cmd.known]
    BY <1>3 DEF Suspending, Settle, Kill, ReadServices, StopDispatch, RoundNow, Round, GiveUp, Facts, Stops,
       WriteSnapshot, StartAgain, Cancel, things, panes
  <2>6. file' \in [taken : 0 .. clock, services : SUBSET Kinds]
    <3>1. \/ file' = file
          \/ file' = [taken |-> cmd.taken, services |-> IF cmd.services = Unread THEN {} ELSE cmd.services]
      BY <1>3 DEF Suspending, Settle, Kill, ReadServices, StopDispatch, RoundNow, Round, GiveUp, Facts, Stops,
         WriteSnapshot, StartAgain, Cancel
    <3>2. cmd.taken \in 0 .. clock /\ cmd.services \in Services /\ file \in [taken : 0 .. clock, services : SUBSET Kinds]
      BY <1>0 DEF Commands, TypeOK
    <3> QED BY <3>1, <3>2 DEF Services
  <2>7. hist' \in Histories
    <3>1. CASE StopDispatch
      <4>1. cmd.raw \in 1 .. clock
        BY <3>1 DEF StopDispatch, CmdAt, CmdFits
      <4>2. hist' = [hist EXCEPT !.stopped = IF "dispatch" \in active' THEN @ \ {cmd.raw} ELSE @ \union {cmd.raw},
                                 !.quiet = @ \ {cmd.raw}, !.said = @ \ {cmd.raw}]
        BY <3>1 DEF StopDispatch
      <4> HIDE <3>1
      <4> QED BY <4>1, <4>2 DEF TypeOK, Histories
    <3>2. CASE Facts
      <4>1. cmd.raw \in 1 .. clock
        BY <3>2 DEF Facts, CmdAt, CmdFits
      <4>2. \/ hist' = [hist EXCEPT !.quiet = @ \union {cmd.raw}]
            \/ hist' = [hist EXCEPT !.forced = @ \union {cmd.raw}]
        BY <3>2 DEF Facts
      <4> HIDE <3>2
      <4> QED BY <4>1, <4>2 DEF TypeOK, Histories
    <3>3. CASE ~StopDispatch /\ ~Facts
      <4>1. hist' = hist
        BY <1>3, <3>3 DEF Suspending, Settle, Kill, ReadServices, RoundNow, Round, GiveUp, Stops, WriteSnapshot, StartAgain, Cancel
      <4> QED BY <1>3, <4>1 DEF TypeOK, Histories
    <3> QED BY <3>1, <3>2, <3>3
  <2>8. pause' \in [kind : {"none", "pause", "suspend"}, id : 0 .. clock, services : Services, prev : 0 .. clock]
    <3>1. NoPause \in [kind : {"none", "pause", "suspend"}, id : 0 .. clock, services : Services, prev : 0 .. clock]
      BY <1>0, Records
    <3>2. pause \in [kind : {"none", "pause", "suspend"}, id : 0 .. clock, services : Services, prev : 0 .. clock]
      BY DEF TypeOK
    <3> QED BY <2>4, <3>1, <3>2
  <2>9. snap' \in Snaps
    <3>1. snap \in Snaps /\ (snap.late /\ cmd.known) \in BOOLEAN
      BY DEF TypeOK, Snaps
    <3> QED BY <2>5, <3>1 DEF Snaps
  <2>10. disp' \in [pc : {"off", "pass", "end", "reserve", "type", "record"}, raw : 0 .. clock]
    <3>1. disp \in [pc : {"off", "pass", "end", "reserve", "type", "record"}, raw : 0 .. clock]
      BY DEF TypeOK
    <3> QED BY <1>0, <2>3, <3>1, Records
  <2> HIDE <1>3
  <2> QED BY <1>1, <2>1, <2>2, <2>3, <2>6, <2>7, <2>8, <2>9, <2>10 DEF TypeOK, Commands, Budget, Snaps, Histories
<1> QED BY <1>2, <1>3

\* A resume keeps the types.
LEMMA ResumingType == TypeOK /\ Resuming => TypeOK'
<1> SUFFICES ASSUME TypeOK, Resuming PROVE TypeOK'
  OBVIOUS
<1>0. cmd \in Commands /\ clock \in Nat /\ active \in SUBSET Kinds /\ left \in Budget
  BY DEF TypeOK, Budget
<1>1. left' \in Budget
  <2>1. left' = left \/ Fault
    BY Zenon DEF Resuming, Start, Starting, Unreadable, Up, Proof, Lift, SetAside
  <2> QED BY <1>0, <2>1, Spending DEF Fault
<1>2. cmd' \in Commands
  BY ResumingCmd
<1>3. UNCHANGED <<clock, due, lease, disp, wake, snap, hist>>
  BY DEF Resuming, Start, Up, Proof, Lift, SetAside, things, dispatcher, panes, project
<1>4. agent' = agent \/ agent' = [agent EXCEPT !.alive = TRUE]
  BY DEF Resuming, Start, Up, Proof, Lift, SetAside, things, panes
<1>5. active' \subseteq Kinds
  <2>1. active' \subseteq active \union cmd.todo
    BY DEF Resuming, Start, Up, Proof, Lift, SetAside, Starting, Unreadable
  <2>2. cmd.todo \subseteq Kinds
    BY <1>0 DEF Commands
  <2> QED BY <1>0, <2>1, <2>2
<1>6. file' = file \/ file' = NoFile
  BY DEF Resuming, Start, Up, Proof, Lift, SetAside
<1>7. pause' \in [kind : {"none", "pause", "suspend"}, id : 0 .. clock, services : Services, prev : 0 .. clock]
  <2>1. pause' = pause \/ pause' = NoPause \/ pause' = [NoPause EXCEPT !.kind = "pause", !.id = pause.prev]
    BY DEF Resuming, Start, Up, Proof, Lift, SetAside, Unsuspend, things, project
  <2>2. NoPause \in [kind : {"none", "pause", "suspend"}, id : 0 .. clock, services : Services, prev : 0 .. clock]
    BY <1>0, Records
  <2>3. pause \in [kind : {"none", "pause", "suspend"}, id : 0 .. clock, services : Services, prev : 0 .. clock]
    BY DEF TypeOK
  <2> QED BY <2>1, <2>2, <2>3
<1>8. agent' \in [alive : BOOLEAN, turn : {"none", "own", "wake"}, input : BOOLEAN]
  BY <1>4 DEF TypeOK
<1>9. file' \in [taken : 0 .. clock, services : SUBSET Kinds]
  <2>1. file \in [taken : 0 .. clock, services : SUBSET Kinds]
    BY DEF TypeOK
  <2> QED BY <1>0, <1>6, <2>1, Records
<1> QED BY <1>1, <1>2, <1>3, <1>5, <1>7, <1>8, <1>9 DEF TypeOK, Commands, Budget

\* So does every step.
LEMMA TypeStep == TypeOK /\ CmdFits /\ WaitFits /\ [Next]_vars => TypeOK'
<1>1. TypeOK /\ UNCHANGED vars => TypeOK'
  BY DEF TypeOK, Commands, vars
<1> QED BY <1>1, AgentType, DispatcherType, PersonType, SuspendingType, ResumingType DEF Next

-----------------------------------------------------------------------------
(* A command works on the suspend of the bus.                               *)

\* What a dispatcher, an agent or a person without a command does to a suspend:
\* nothing.
LEMMA Bystanders ==
    ASSUME TypeOK, Agent \/ Dispatcher \/ Overdue \/ SetPause \/ EndByHand
    PROVE  /\ UNCHANGED <<cmd, file, active>>
           /\ Dispatcher \/ Overdue \/ SetPause \/ EndByHand => hist' = hist
           /\ UNCHANGED <<hist.quiet, hist.forced, hist.stopped, hist.ran>>
           /\ Suspended => UNCHANGED <<pause, clock>>
           /\ ~Suspended => pause'.kind # "suspend"
<1>0. Dispatcher \/ Overdue \/ SetPause \/ EndByHand => hist' = hist
  BY DEF Dispatcher, Acquire, Pass, EndPause, Reserve, Type, Record, CrashDispatch, Expire, Overdue, SetPause, EndByHand, beside
<1>1. CASE Agent
  <2>1. UNCHANGED <<cmd, file, active, pause, clock>>
    BY <1>1 DEF Agent, OwnTurn, WokenTurn, EndTurn, Declare, around, project
  <2>2. hist' = hist \/ \E S : hist' = [hist EXCEPT !.said = S]
    BY <1>1 DEF Agent, OwnTurn, WokenTurn, EndTurn, Declare
  <2>3. UNCHANGED <<hist.quiet, hist.forced, hist.stopped, hist.ran>>
    BY <2>2 DEF TypeOK
  <2> QED BY <1>0, <2>1, <2>3 DEF Suspended
<1>2. CASE Dispatcher /\ ~EndPause
  BY <1>0, <1>2 DEF Dispatcher, Acquire, Pass, Reserve, Type, Record, CrashDispatch, Expire, beside, Suspended
<1>3. CASE EndPause
  BY <1>0, <1>3 DEF EndPause, beside, Dispatcher, Suspended, NoPause
<1>4. CASE Overdue
  BY <1>0, <1>4 DEF Overdue, Suspended
<1>5. CASE SetPause
  BY <1>0, <1>5 DEF SetPause, Suspended, NoPause
<1>6. CASE EndByHand
  BY <1>0, <1>6 DEF EndByHand, Suspended, NoPause
<1> QED BY <1>1, <1>2, <1>3, <1>4, <1>5, <1>6

\* What is lifted is gone; another pause is left alone.
LEMMA UnsuspendEnds == ASSUME TypeOK, Unsuspend PROVE pause' = pause \/ pause'.kind # "suspend"
<1>1. NoPause \in [kind : {"none", "pause", "suspend"}, id : 0 .. clock, services : Services, prev : 0 .. clock]
  BY Records DEF TypeOK
<1>2. NoPause.kind = "none"
  BY DEF NoPause
<1>3. [NoPause EXCEPT !.kind = "pause", !.id = pause.prev].kind = "pause"
  BY <1>1
<1> QED BY <1>2, <1>3 DEF Unsuspend

\* The last step of a cancel or a resume.
LEMMA SuspendEnds ==
    ASSUME TypeOK, Cancel \/ Lift
    PROVE  /\ pause' = pause \/ pause'.kind # "suspend"
           /\ cmd'.pc \in {"off", "aside"} /\ UNCHANGED <<active, file, hist, clock>>
BY UnsuspendEnds DEF Cancel, Lift, CmdTo, Leave, NoCmd, TypeOK, Commands

\* A command that is done, or killed, leaves the suspend as it is.
LEMMA CommandEnds ==
    ASSUME Reboot \/ Kill \/ WriteSnapshot \/ SetAside
    PROVE  cmd'.pc = "off" /\ UNCHANGED <<pause, clock, hist>>
BY DEF Reboot, Kill, WriteSnapshot, SetAside, Leave, NoCmd, things, project

\* How a suspend and a resume begin.
Fresh(c) == ~c.known /\ ~c.settled /\ ~c.failed /\ c.ready = 0 /\ c.quiet = 0
LEMMA FreshNoCmd == Fresh(NoCmd) /\ NoCmd.pc = "off"
BY DEF NoCmd, Fresh

LEMMA SuspendBegins ==
    ASSUME TypeOK, BeginSuspend
    PROVE  /\ CmdAt("off") /\ UNCHANGED <<things, active, file, hist>> /\ Fresh(cmd')
           /\ \/ /\ Suspended /\ cmd'.pc \in {"stops", "stop"} /\ cmd'.raw = pause.id /\ cmd'.services = pause.services
                 /\ cmd'.pc = "stops" <=> Current
              \/ ~Suspended /\ cmd'.pc = "services"
<1>1. PICK insist \in BOOLEAN :
        LET mine == [NoCmd EXCEPT !.raw = pause.id, !.services = pause.services, !.insist = insist]
        IN  \/ /\ Suspended /\ Current /\ active # {}
               /\ cmd' = [mine EXCEPT !.pc = "stops", !.todo = active, !.taken = file.taken]
            \/ Suspended /\ ~Current /\ cmd' = [mine EXCEPT !.pc = "stop"]
            \/ ~Suspended /\ cmd' = [NoCmd EXCEPT !.pc = "services", !.insist = insist]
  BY DEF BeginSuspend
<1>2. NoCmd \in Commands
  BY Records DEF TypeOK
<1> DEFINE mine == [NoCmd EXCEPT !.raw = pause.id, !.services = pause.services, !.insist = insist]
<1>3. /\ DOMAIN mine = DOMAIN NoCmd /\ Fresh(mine)
      /\ mine.raw = pause.id /\ mine.services = pause.services
      /\ mine = [c \in DOMAIN NoCmd |-> mine[c]]
  BY <1>2, FreshNoCmd DEF Fresh, Commands
<1>4. \/ /\ Suspended /\ Current
         /\ cmd' = [mine EXCEPT !.pc = "stops", !.todo = active, !.taken = file.taken]
      \/ Suspended /\ ~Current /\ cmd' = [mine EXCEPT !.pc = "stop"]
      \/ ~Suspended /\ cmd' = [NoCmd EXCEPT !.pc = "services", !.insist = insist]
  BY <1>1
<1>5. CmdAt("off") /\ UNCHANGED <<things, active, file, hist>>
  BY DEF BeginSuspend
<1> HIDE DEF mine
<1>6. CASE /\ Suspended /\ Current
           /\ cmd' = [mine EXCEPT !.pc = "stops", !.todo = active, !.taken = file.taken]
  <2>1. Fresh(cmd') /\ cmd'.pc = "stops" /\ cmd'.raw = pause.id /\ cmd'.services = pause.services
    BY <1>2, <1>3, <1>6 DEF Fresh, Commands
  <2> QED BY <1>5, <1>6, <2>1
<1>7. CASE Suspended /\ ~Current /\ cmd' = [mine EXCEPT !.pc = "stop"]
  <2>1. Fresh(cmd') /\ cmd'.pc = "stop" /\ cmd'.raw = pause.id /\ cmd'.services = pause.services
    BY <1>2, <1>3, <1>7 DEF Fresh, Commands
  <2> QED BY <1>5, <1>7, <2>1
<1>8. CASE ~Suspended /\ cmd' = [NoCmd EXCEPT !.pc = "services", !.insist = insist]
  <2>1. Fresh(cmd') /\ cmd'.pc = "services"
    BY <1>2, <1>8, FreshNoCmd DEF Fresh, Commands
  <2> QED BY <1>5, <1>8, <2>1
<1> QED BY <1>4, <1>6, <1>7, <1>8

LEMMA ResumeBegins ==
    ASSUME TypeOK, BeginResume
    PROVE  /\ CmdAt("off") /\ Suspended /\ UNCHANGED <<things, active, file, hist>>
           /\ Fresh(cmd') /\ cmd'.pc = "start" /\ cmd'.raw = pause.id /\ cmd'.services = pause.services /\ cmd'.todo = Kinds
<1>1. PICK partial \in BOOLEAN :
        cmd' = [NoCmd EXCEPT !.pc = "start", !.raw = pause.id, !.services = pause.services,
                             !.have = Current, !.insist = partial, !.todo = Kinds]
  BY DEF BeginResume
<1>2. NoCmd \in Commands
  BY Records DEF TypeOK
<1>3. Fresh(cmd') /\ cmd'.pc = "start" /\ cmd'.raw = pause.id /\ cmd'.services = pause.services /\ cmd'.todo = Kinds
  BY <1>1, <1>2, FreshNoCmd DEF Fresh, Commands
<1> QED BY <1>3 DEF BeginResume

\* A round of the wait: what is read, and what it makes of it.
RoundSets(obs) ==
    /\ cmd'.known <=> cmd.known \/ wake # "prompting" \/ Gone
    /\ cmd'.settled = cmd.settled /\ cmd'.raw = cmd.raw /\ cmd'.services = cmd.services
    /\ cmd'.ready > 0 => obs \in {"ready", "rested"} /\ cmd.known /\ cmd.settled
    /\ \/ /\ ~(agent.alive /\ (Woken(cmd'.known, cmd'.ready) \/ Working(obs) \/ obs = "busy"))
          /\ cmd'.pc \in {"facts", "now"} /\ (cmd'.pc = "now" => cmd'.quiet < 2)
       \/ cmd'.pc = "now" /\ cmd'.quiet = 0
LEMMA RoundReads ==
    ASSUME TypeOK, WaitFits, Round
    PROVE  cmd' = [cmd EXCEPT !.pc = "now", !.quiet = 0] \/ \E obs \in Inspections : RoundSets(obs)
<1> SUFFICES ASSUME cmd' # [cmd EXCEPT !.pc = "now", !.quiet = 0] PROVE \E obs \in Inspections : RoundSets(obs)
  OBVIOUS
<1>1. PICK obs \in Inspections :
        LET known == cmd.known \/ wake # "prompting" \/ Gone
            ready == IF obs \in {"ready", "rested"} /\ cmd.known /\ cmd.settled THEN IF cmd.ready = 2 THEN 2 ELSE cmd.ready + 1 ELSE 0
            busy == agent.alive /\ (Woken(known, ready) \/ Working(obs) \/ obs = "busy")
            quiet == IF busy THEN 0 ELSE cmd.quiet + 1
        IN  cmd' = [cmd EXCEPT !.pc = IF quiet = 2 THEN "facts" ELSE "now",
                               !.known = known, !.ready = ready, !.quiet = quiet]
  BY DEF Round
<1> DEFINE known == cmd.known \/ wake # "prompting" \/ Gone
           ready == IF obs \in {"ready", "rested"} /\ cmd.known /\ cmd.settled THEN IF cmd.ready = 2 THEN 2 ELSE cmd.ready + 1 ELSE 0
           busy == agent.alive /\ (Woken(known, ready) \/ Working(obs) \/ obs = "busy")
           quiet == IF busy THEN 0 ELSE cmd.quiet + 1
           pc == IF quiet = 2 THEN "facts" ELSE "now"
<1>2. cmd' = [cmd EXCEPT !.pc = pc, !.known = known, !.ready = ready, !.quiet = quiet]
  BY <1>1
<1>3. cmd.quiet \in 0 .. 1 /\ cmd.ready \in 0 .. 2
  <2>1. cmd.pc = "round"
    BY DEF Round, CmdAt
  <2> QED BY <2>1 DEF TypeOK, Commands, WaitFits, WaitBegins
<1>4. /\ known <=> cmd.known \/ wake # "prompting" \/ Gone
      /\ ready > 0 => obs \in {"ready", "rested"} /\ cmd.known /\ cmd.settled
  OBVIOUS
<1>5. IF busy THEN quiet = 0 /\ pc = "now" ELSE pc \in {"facts", "now"} /\ (pc = "now" => quiet < 2)
  BY <1>3
<1>6. busy <=> agent.alive /\ (Woken(known, ready) \/ Working(obs) \/ obs = "busy")
  OBVIOUS
<1> HIDE DEF known, ready, busy, quiet, pc
<1>7. /\ cmd'.pc = pc /\ cmd'.known = known /\ cmd'.ready = ready /\ cmd'.quiet = quiet
      /\ cmd'.settled = cmd.settled /\ cmd'.raw = cmd.raw /\ cmd'.services = cmd.services
  BY <1>2 DEF TypeOK, Commands
<1>8. RoundSets(obs)
  BY <1>4, <1>5, <1>6, <1>7 DEF RoundSets
<1> QED BY <1>8

\* The steps of a command under way: it leaves, or goes on with the same suspend.
Onward == StopDispatch \/ RoundNow \/ Round \/ GiveUp \/ Facts \/ Stops \/ StartAgain \/ Start \/ Up \/ Proof
GoesOn ==
    /\ cmd'.raw = cmd.raw /\ cmd'.services = cmd.services
    /\ cmd'.pc \notin {"off", "services", "write", "stop", "aside"}
    /\ cmd'.pc \in {"now", "round", "facts"} => cmd.pc \in {"stop", "now", "round"}
    /\ cmd'.pc \in {"stops", "file"} => cmd.pc \in {"facts", "stops"}
LEMMA OnwardSteps ==
    ASSUME TypeOK, WaitFits, Onward
    PROVE  /\ UNCHANGED <<pause, clock, file>>
           /\ cmd.pc \in {"stop", "now", "round", "facts", "stops", "start again", "start", "up", "proof"}
           /\ (cmd.pc = "stop" => StopDispatch) /\ (cmd.pc = "facts" => Facts)
           /\ cmd' = NoCmd \/ GoesOn
<1>1. UNCHANGED <<pause, clock, file>>
  BY DEF Onward, StopDispatch, RoundNow, Round, GiveUp, Facts, Stops, StartAgain, Start, Up, Proof, things, project
<1>2. cmd.pc \in {"stop", "now", "round", "facts", "stops", "start again", "start", "up", "proof"}
  BY DEF Onward, StopDispatch, RoundNow, Round, GiveUp, Facts, Stops, StartAgain, Start, Up, Proof, CmdAt
<1>3. (cmd.pc = "stop" => StopDispatch) /\ (cmd.pc = "facts" => Facts)
  <2>1. RoundNow \/ Round \/ GiveUp \/ Stops \/ StartAgain \/ Start \/ Up \/ Proof => cmd.pc \notin {"stop", "facts"}
    BY DEF RoundNow, Round, GiveUp, Stops, StartAgain, Start, Up, Proof, CmdAt
  <2>2. StopDispatch => cmd.pc # "facts"
    BY DEF StopDispatch, CmdAt
  <2>3. Facts => cmd.pc # "stop"
    BY DEF Facts, CmdAt
  <2> QED BY <2>1, <2>2, <2>3 DEF Onward
<1>4. cmd \in Commands
  BY DEF TypeOK
<1>5. CASE Round
  <2>1. cmd.pc = "round"
    BY <1>5 DEF Round, CmdAt
  <2>2. \/ cmd'.raw = cmd.raw /\ cmd'.services = cmd.services /\ cmd'.pc \in {"facts", "now"}
        \/ cmd' = [cmd EXCEPT !.pc = "now", !.quiet = 0]
    BY <1>5, RoundReads DEF RoundSets
  <2>3. cmd'.raw = cmd.raw /\ cmd'.services = cmd.services /\ cmd'.pc \in {"facts", "now"}
    BY <1>4, <2>2 DEF Commands
  <2>4. GoesOn
    BY <2>1, <2>3 DEF GoesOn
  <2> QED BY <1>1, <1>2, <1>3, <2>4
<1>6. CASE StopDispatch \/ RoundNow \/ GiveUp \/ Facts \/ Up \/ Proof
  <2>1. \/ cmd' = NoCmd
        \/ \E pc \in {"now", "round", "facts", "stops", "start again", "proof", "lift"} :
             /\ \/ cmd' = [cmd EXCEPT !.pc = pc]
                \/ \E todo : cmd' = [cmd EXCEPT !.pc = pc, !.todo = todo]
                \/ \E todo, n : cmd' = [cmd EXCEPT !.pc = pc, !.todo = todo, !.taken = n]
             /\ pc \in {"now", "round", "facts"} => cmd.pc \in {"stop", "now"}
             /\ pc = "stops" => cmd.pc = "facts"
    <3>1. CASE StopDispatch
      BY <3>1 DEF StopDispatch, CmdAt, CmdTo
    <3>2. CASE RoundNow
      BY <3>2 DEF RoundNow, CmdAt, CmdTo
    <3>3. CASE GiveUp
      BY <3>3 DEF GiveUp, CmdAt, CmdTo
    <3>4. CASE Facts
      BY <3>4 DEF Facts, CmdAt
    <3>5. CASE Up \/ Proof
      BY <3>5 DEF Up, Proof, CmdTo, Leave
    <3> QED BY <1>6, <3>1, <3>2, <3>3, <3>4, <3>5
  <2>2. cmd' = NoCmd \/ GoesOn
    BY <1>4, <2>1 DEF Commands, GoesOn
  <2> QED BY <1>1, <1>2, <1>3, <2>2
<1>7. CASE Stops
  <2>1. /\ cmd.pc = "stops"
        /\ \/ cmd' = [cmd EXCEPT !.pc = "file"]
           \/ \E k : cmd' = [cmd EXCEPT !.todo = @ \ {k}]
    BY <1>7 DEF Stops, CmdTo, CmdAt
  <2>2. GoesOn
    BY <1>4, <2>1 DEF Commands, GoesOn
  <2> QED BY <1>1, <1>2, <1>3, <2>2
<1>8. CASE StartAgain
  <2>1. /\ cmd.pc = "start again"
        /\ \/ cmd' = NoCmd
           \/ cmd' = [cmd EXCEPT !.pc = "cancel"]
           \/ \E k : \/ cmd' = [cmd EXCEPT !.todo = @ \ {k}]
                     \/ cmd' = [cmd EXCEPT !.todo = @ \ {k}, !.failed = TRUE]
    BY <1>8, Zenon DEF StartAgain, Starting, Leave, CmdTo, CmdAt
  <2>2. cmd' = NoCmd \/ GoesOn
    BY <1>4, <2>1 DEF Commands, GoesOn
  <2> QED BY <1>1, <1>2, <1>3, <2>2
<1>9. CASE Start
  <2>1. /\ cmd.pc = "start"
        /\ \/ cmd' = [cmd EXCEPT !.pc = "up"]
           \/ \E k : \/ cmd' = [cmd EXCEPT !.todo = @ \ {k}]
                     \/ cmd' = [cmd EXCEPT !.todo = @ \ {k}, !.failed = TRUE]
    BY <1>9, Zenon DEF Start, Starting, Unreadable, CmdTo, CmdAt
  <2>2. GoesOn
    BY <1>4, <2>1 DEF Commands, GoesOn
  <2> QED BY <1>1, <1>2, <1>3, <2>2
<1> QED BY <1>5, <1>6, <1>7, <1>8, <1>9 DEF Onward

\* No step takes the suspend from under the command that works on it.
LEMMA CmdFitsStep == TypeOK /\ WaitFits /\ CmdFits /\ [Next]_vars => CmdFits'
<1> SUFFICES ASSUME TypeOK, WaitFits, CmdFits, [Next]_vars PROVE CmdFits'
  OBVIOUS
<1>1. CASE UNCHANGED vars
  BY <1>1 DEF vars, CmdFits, Suspended
<1>2. CASE Agent \/ Dispatcher \/ Overdue \/ SetPause \/ EndByHand
  BY <1>2, Bystanders DEF CmdFits, Suspended
<1>3. CASE BeginSuspend
  BY <1>3, SuspendBegins DEF things, project, CmdFits, Suspended
<1>4. CASE BeginResume
  BY <1>4, ResumeBegins DEF things, project, CmdFits, Suspended
<1>5. CASE WriteSuspend
  BY <1>5 DEF WriteSuspend, CmdAt, CmdFits, Suspended, TypeOK, Commands
<1>6. CASE Cancel \/ Lift
  BY <1>6, UnsuspendEnds DEF Cancel, Lift, CmdAt, CmdTo, Leave, NoCmd, CmdFits, Suspended, TypeOK, Commands
<1>7. CASE Reboot \/ Kill \/ WriteSnapshot \/ SetAside
  BY <1>7 DEF Reboot, Kill, WriteSnapshot, SetAside, Leave, NoCmd, things, project, CmdFits, Suspended
<1>8. CASE ReadServices
  BY <1>8 DEF ReadServices, CmdAt, things, project, CmdFits, Suspended, TypeOK, Commands
<1>9. CASE Settle
  BY <1>9 DEF Settle, things, project, CmdFits, Suspended, TypeOK, Commands
<1>10. CASE Onward
  BY <1>10, OnwardSteps, FreshNoCmd DEF CmdFits, Suspended, GoesOn
<1> QED BY <1>1, <1>2, <1>3, <1>4, <1>5, <1>6, <1>7, <1>8, <1>9, <1>10 DEF Next, Person, Suspending, Resuming, Onward

-----------------------------------------------------------------------------
(* A snapshot stands for a suspend only after the wait of that suspend.     *)

LEMMA FileFitsStep ==
    TypeOK /\ CmdFits /\ WaitFits /\ FileFits /\ StopsOnlyWhenQuiet /\ [Next]_vars => FileFits' /\ StopsOnlyWhenQuiet'
<1> SUFFICES ASSUME TypeOK, CmdFits, WaitFits, FileFits, StopsOnlyWhenQuiet, [Next]_vars
             PROVE  FileFits' /\ StopsOnlyWhenQuiet'
  OBVIOUS
<1> USE DEF FileFits, StopsOnlyWhenQuiet, Judged, Current, Suspended
<1>1. CASE UNCHANGED vars
  BY <1>1 DEF vars
<1>2. CASE Agent \/ Dispatcher \/ Overdue \/ SetPause \/ EndByHand
  <2>1. cmd.pc \in {"stop", "now", "round", "facts"} => Suspended
    BY DEF CmdFits
  <2> QED BY <1>2, <2>1, Bystanders
<1>3. CASE BeginSuspend
  BY <1>3, SuspendBegins DEF things, project
<1>4. CASE BeginResume
  BY <1>4, ResumeBegins DEF things, project
<1>5. CASE WriteSuspend
  <2>1. /\ pause'.id = clock + 1 /\ file' = file /\ cmd'.pc = "stop"
    BY <1>5 DEF WriteSuspend, TypeOK, Commands
  <2>2. file.taken \in 0 .. clock /\ clock \in Nat
    BY DEF TypeOK
  <2> QED BY <2>1, <2>2
<1>6. CASE Cancel \/ Lift
  BY <1>6, SuspendEnds
<1>7. CASE Reboot \/ Kill
  BY <1>7 DEF Reboot, Kill, Leave, NoCmd, things, project
<1>8. CASE WriteSnapshot
  BY <1>8 DEF WriteSnapshot, CmdAt, Leave, NoCmd, things, project, CmdFits
<1>9. CASE SetAside
  BY <1>9 DEF SetAside, Leave, NoCmd, NoFile, things, project, CmdFits
<1>10. CASE ReadServices
  <2>1. cmd'.pc = "write" /\ UNCHANGED <<pause, file, hist>>
    BY <1>10 DEF ReadServices, things, project, TypeOK, Commands
  <2> QED BY <2>1
<1>11. CASE Settle
  <2>1. cmd'.pc = cmd.pc /\ cmd'.raw = cmd.raw /\ UNCHANGED <<pause, file, hist>>
    BY <1>11 DEF Settle, things, project, TypeOK, Commands
  <2> QED BY <2>1
<1>12. CASE StopDispatch
  <2>1. UNCHANGED <<pause, file>> /\ cmd.pc = "stop"
    BY <1>12 DEF StopDispatch, CmdAt, project
  <2>2. \/ cmd' = [cmd EXCEPT !.pc = "now"]
        \/ cmd' = [cmd EXCEPT !.pc = "start again", !.todo = Kinds]
    BY <1>12 DEF StopDispatch, CmdTo
  <2>3. cmd'.pc \in {"now", "start again"}
    BY <2>2 DEF TypeOK, Commands
  <2> HIDE <1>12
  <2> QED BY <2>1, <2>3
<1>13. CASE Facts
  <2>1. /\ cmd.pc = "facts" /\ UNCHANGED <<pause, file>> /\ cmd'.raw = cmd.raw /\ cmd'.pc = "stops"
        /\ Judged(cmd.raw)'
    BY <1>13 DEF Facts, CmdAt, things, project, TypeOK, Commands
  <2> QED BY <2>1
<1>14. CASE Onward /\ ~StopDispatch /\ ~Facts
  <2>1. /\ UNCHANGED <<pause, file, hist>>
        /\ cmd'.pc \in {"stop", "now", "round", "facts"} => cmd.pc \in {"now", "round"}
        /\ cmd'.pc \in {"stops", "file"} => cmd.pc \in {"stops", "file"} /\ cmd'.raw = cmd.raw
    <3>1. UNCHANGED hist
      BY <1>14 DEF Onward, RoundNow, Round, GiveUp, Stops, StartAgain, Start, Up, Proof
    <3> QED BY <1>14, <3>1, OnwardSteps, FreshNoCmd DEF GoesOn
  <2> QED BY <2>1
<1> QED BY <1>1, <1>2, <1>3, <1>4, <1>5, <1>6, <1>7, <1>8, <1>9, <1>10, <1>11, <1>12, <1>13, <1>14
        DEF Next, Person, Suspending, Resuming, Onward

-----------------------------------------------------------------------------
(* What ran is recorded, and runs again before a suspend is lifted.         *)

LEMMA ServicesFitStep ==
    TypeOK /\ CmdFits /\ WaitFits /\ ServicesFit /\ [Next]_vars => ServicesFit'
<1> SUFFICES ASSUME TypeOK, CmdFits, WaitFits, ServicesFit, [Next]_vars PROVE ServicesFit'
  OBVIOUS
<1>0. cmd \in Commands /\ clock \in Nat /\ active \subseteq Kinds /\ pause.services \in Services
  BY DEF TypeOK
<1> USE DEF ServicesFit, Runs, Suspended
<1>1. CASE UNCHANGED vars
  BY <1>1 DEF vars
<1>2. CASE Agent \/ Dispatcher \/ Overdue \/ SetPause \/ EndByHand
  BY <1>2, Bystanders
<1>3. CASE BeginSuspend
  BY <1>3, SuspendBegins DEF things, project
<1>4. CASE BeginResume
  BY <1>0, <1>4, ResumeBegins DEF things, project, Services
<1>5. CASE ReadServices
  <2>1. cmd'.pc = "write" /\ cmd'.services \in {Unread, active} /\ UNCHANGED <<pause, hist, active>>
    BY <1>0, <1>5 DEF ReadServices, things, project, Commands
  <2> QED BY <2>1
<1>6. CASE WriteSuspend
  <2>1. /\ cmd.services \in {Unread, active} /\ pause'.services = cmd.services /\ cmd'.pc = "stop"
        /\ hist'.ran = active
    BY <1>0, <1>6 DEF WriteSuspend, CmdAt, Commands, TypeOK
  <2> QED BY <2>1
<1>7. CASE Cancel \/ Lift
  BY <1>7, SuspendEnds
<1>8. CASE Reboot \/ Kill \/ WriteSnapshot \/ SetAside
  BY <1>8, CommandEnds
<1>9. CASE Settle
  <2>1. /\ cmd' = [cmd EXCEPT !.settled = TRUE] /\ UNCHANGED <<pause, hist, active>>
    BY <1>9 DEF Settle, things, project
  <2> QED BY <1>0, <2>1 DEF Commands
<1>10. CASE Onward
  <2>1. pause' = pause /\ hist'.ran = hist.ran
    <3>1. UNCHANGED hist \/ StopDispatch \/ Facts
      BY <1>10 DEF Onward, RoundNow, Round, GiveUp, Stops, StartAgain, Start, Up, Proof
    <3>2. StopDispatch \/ Facts => hist'.ran = hist.ran
      BY ZenonT(40) DEF StopDispatch, Facts, TypeOK
    <3> QED BY <1>10, <3>1, <3>2, OnwardSteps
  <2>2. cmd' = NoCmd \/ GoesOn
    BY <1>10, OnwardSteps
  <2>3. CASE StopDispatch \/ GiveUp
    <3>1. \/ cmd'.pc \in {"now", "facts"}
          \/ cmd'.pc = "start again" /\ cmd'.todo = Kinds /\ cmd'.services = cmd.services
      BY <1>0, <2>3 DEF StopDispatch, GiveUp, CmdTo, Commands
    <3>2. cmd.services \in Services
      BY <1>0 DEF Commands
    <3> QED BY <2>1, <3>1, <3>2 DEF Services
  <2>4. CASE RoundNow \/ Round \/ Facts \/ Stops
    <3>1. CASE Round
      <4>1. cmd' = [cmd EXCEPT !.pc = "now", !.quiet = 0] \/ cmd'.pc \in {"facts", "now"}
        BY <3>1, RoundReads DEF RoundSets
      <4> QED BY <1>0, <2>1, <4>1 DEF Commands
    <3>2. CASE RoundNow \/ Facts
      <4>1. cmd'.pc \in {"round", "stops"}
        BY <1>0, <3>2 DEF RoundNow, Facts, CmdTo, Commands
      <4> QED BY <2>1, <4>1
    <3>3. CASE Stops
      <4>1. /\ cmd.pc = "stops"
            /\ \/ cmd' = [cmd EXCEPT !.pc = "file"]
               \/ \E k : cmd' = [cmd EXCEPT !.todo = @ \ {k}]
        BY <3>3 DEF Stops, CmdTo, CmdAt
      <4>2. cmd'.pc \in {"stops", "file"}
        BY <1>0, <4>1 DEF Commands
      <4> QED BY <2>1, <4>2
    <3> QED BY <2>4, <3>1, <3>2, <3>3
  <2>5. CASE StartAgain \/ Start
    <3>1. CASE cmd.todo = {}
      <4>1. \/ cmd' = NoCmd
            \/ cmd.pc = "start again" /\ ~cmd.failed /\ cmd' = [cmd EXCEPT !.pc = "cancel"]
            \/ cmd.pc = "start" /\ cmd' = [cmd EXCEPT !.pc = "up"]
        BY <2>5, <3>1 DEF StartAgain, Start, CmdAt, CmdTo, Leave
      <4>2. active' = active
        BY <2>5, <3>1 DEF StartAgain, Start
      <4>3. cmd.services # Unread => \A k \in cmd.services : k \in active \/ cmd.failed
        BY <2>5, <3>1 DEF StartAgain, Start, CmdAt
      <4> QED BY <1>0, <2>1, <3>1, <4>1, <4>2, <4>3, FreshNoCmd DEF Commands
    <3>2. CASE cmd.todo # {}
      <4>1. PICK k \in cmd.todo :
              \/ StartAgain /\ Starting(k, cmd.services # Unread /\ k \in cmd.services)
              \/ Start /\ (Starting(k, k \in Wanted) \/ Unreadable(k))
        BY <2>5, <3>2, Zenon DEF StartAgain, Start
      <4>2. cmd.services # Unread => Wanted = cmd.services
        BY DEF Wanted
      <4>3. \/ /\ cmd' = [cmd EXCEPT !.todo = @ \ {k}]
               /\ active' = active \union {k} \/ (active' = active /\ (cmd.services # Unread => k \notin cmd.services))
            \/ cmd' = [cmd EXCEPT !.todo = @ \ {k}, !.failed = TRUE] /\ active' = active
        BY <4>1, <4>2 DEF Starting, Unreadable
      <4>4. Runs /\ cmd.pc \in {"start again", "start"}
        BY <2>5 DEF StartAgain, Start, CmdAt
      <4>5. Runs' /\ cmd'.pc = cmd.pc /\ cmd'.services = cmd.services
        BY <1>0, <4>3, <4>4, ZenonT(40) DEF Commands
      <4> HIDE DEF Runs
      <4> QED BY <2>1, <4>4, <4>5
    <3> QED BY <3>1, <3>2
  <2>6. CASE Up
    <3>1. cmd' = [cmd EXCEPT !.pc = "proof"] /\ active' = active
      BY <2>6 DEF Up, CmdTo
    <3> QED BY <1>0, <2>1, <2>6, <3>1 DEF Commands, Up, CmdAt
  <2>7. CASE Proof
    <3>1. \/ cmd' = NoCmd
          \/ ~cmd.failed /\ cmd' = [cmd EXCEPT !.pc = "lift"]
      BY <2>7 DEF Proof, CmdTo, Leave
    <3>2. active' = active /\ cmd.pc = "proof"
      BY <2>7 DEF Proof, CmdAt
    <3> QED BY <1>0, <2>1, <3>1, <3>2, FreshNoCmd DEF Commands
  <2> QED BY <1>10, <2>3, <2>4, <2>5, <2>6, <2>7 DEF Onward
<1> QED BY <1>1, <1>2, <1>3, <1>4, <1>5, <1>6, <1>7, <1>8, <1>9, <1>10
        DEF Next, Person, Suspending, Resuming, Onward

-----------------------------------------------------------------------------
(* The pane: without a dispatcher nothing is typed, without an agent nothing *)
(* runs, and without a wake record nothing was typed.                        *)

\* A command types nothing, and stops the dispatcher's process with its service.
LEMMA CommandMoves ==
    ASSUME Suspending \/ Resuming
    PROVE  /\ wake' = wake /\ (agent' = agent \/ agent' = [agent EXCEPT !.alive = TRUE])
           /\ \/ disp'.pc = "off"
              \/ disp' = disp /\ ("dispatch" \in active => "dispatch" \in active')
<1>1. wake' = wake
  BY DEF Suspending, ReadServices, WriteSuspend, StopDispatch, RoundNow, Round, GiveUp, Facts, Stops, WriteSnapshot, StartAgain,
     Cancel, Resuming, Start, Up, Proof, Lift, SetAside, things, dispatcher
<1>2. agent' = agent \/ agent' = [agent EXCEPT !.alive = TRUE]
  BY DEF Suspending, ReadServices, WriteSuspend, StopDispatch, RoundNow, Round, GiveUp, Facts, Stops, WriteSnapshot, StartAgain,
     Cancel, Resuming, Start, Up, Proof, Lift, SetAside, things, panes
<1>3. CASE StopDispatch \/ Stops
  <2>1. CASE StopDispatch
    <3>1. \/ disp' = Resting
          \/ active' = active /\ disp' = disp
      BY <2>1 DEF StopDispatch, Stopping
    <3> QED BY <1>1, <1>2, <3>1 DEF Resting
  <2>2. CASE Stops
    <3>1. \/ disp' = Resting
          \/ active' = active /\ disp' = disp
          \/ \E k : k # "dispatch" /\ active' = active \ {k} /\ disp' = disp
      BY <2>2 DEF Stops, Stopping
    <3> QED BY <1>1, <1>2, <3>1 DEF Resting
  <2> QED BY <1>3, <2>1, <2>2
<1>4. CASE StartAgain \/ Start
  BY <1>1, <1>2, <1>4 DEF StartAgain, Start, Starting, Unreadable, things, dispatcher
<1>5. CASE ~(StopDispatch \/ Stops \/ StartAgain \/ Start)
  <2>1. active' = active /\ disp' = disp
    BY <1>5 DEF Suspending, ReadServices, WriteSuspend, RoundNow, Round, GiveUp, Facts, WriteSnapshot,
       Cancel, Resuming, Up, Proof, Lift, SetAside, things, dispatcher
  <2> QED BY <1>1, <1>2, <2>1
<1> QED BY <1>3, <1>4, <1>5

LEMMA PaneFitsStep ==
    TypeOK /\ PaneFits /\ [Next]_vars => PaneFits'
<1> SUFFICES ASSUME TypeOK, PaneFits, [Next]_vars PROVE PaneFits'
  OBVIOUS
<1> USE DEF PaneFits, Calm
<1>1. CASE UNCHANGED vars
  BY <1>1 DEF vars, DispAt
<1>2. CASE OwnTurn
  BY <1>2 DEF OwnTurn, around, dispatcher, TypeOK, DispAt
<1>3. CASE WokenTurn
  BY <1>3 DEF WokenTurn, around, dispatcher, TypeOK, DispAt
<1>4. CASE EndTurn
  BY <1>4 DEF EndTurn, around, dispatcher, TypeOK, DispAt
<1>5. CASE Acquire \/ Pass \/ EndPause
  BY <1>5 DEF Acquire, Pass, EndPause, panes, beside, TypeOK, DispAt, DispTo
<1>6. CASE Reserve \/ Record \/ Expire
  BY <1>6 DEF Reserve, Record, Expire, panes, beside, TypeOK, DispAt, DispTo
<1>7. CASE Type
  BY <1>7 DEF Type, beside, TypeOK, DispAt, DispTo
<1>8. CASE CrashDispatch
  BY <1>8 DEF CrashDispatch, Died, Resting, panes, beside, DispAt
<1>9. CASE Reboot
  BY <1>9 DEF Reboot, Resting, DispAt
<1>10. CASE SetPause \/ EndByHand \/ Overdue \/ BeginSuspend \/ BeginResume \/ Settle \/ Kill
  BY <1>10 DEF SetPause, EndByHand, Overdue, BeginSuspend, BeginResume, Settle, Kill, things, dispatcher, panes, DispAt
<1>11. CASE Suspending \/ Resuming
  BY <1>11, CommandMoves DEF TypeOK, DispAt
<1>12. CASE Declare
  BY <1>12 DEF Declare, around, dispatcher, DispAt
<1> QED BY <1>1, <1>2, <1>3, <1>4, <1>5, <1>6, <1>7, <1>8, <1>9, <1>10, <1>11, <1>12
        DEF Next, Person, Agent, Dispatcher

-----------------------------------------------------------------------------
(* The wait.                                                                *)

\* The counts of the wait.
LEMMA WaitBeginsStep ==
    TypeOK /\ CmdFits /\ WaitFits /\ [Next]_vars => WaitBegins'
<1> SUFFICES ASSUME TypeOK, CmdFits, WaitFits, [Next]_vars PROVE WaitBegins'
  OBVIOUS
<1>0. cmd \in Commands /\ WaitBegins
  BY DEF TypeOK, WaitFits
<1> USE DEF WaitBegins
<1>1. CASE UNCHANGED <<cmd>>
  BY <1>0, <1>1
<1>2. CASE Agent \/ Dispatcher \/ Overdue \/ SetPause \/ EndByHand
  BY <1>0, <1>2, Bystanders
<1>3. CASE BeginSuspend \/ BeginResume
  BY <1>3, SuspendBegins, ResumeBegins DEF Fresh
<1>4. CASE ReadServices
  <2>1. cmd.pc = "services" /\ \E S : cmd' = [cmd EXCEPT !.pc = "write", !.services = S]
    BY <1>4 DEF ReadServices, CmdAt
  <2> QED BY <1>0, <2>1 DEF Commands
<1>5. CASE WriteSuspend
  <2>1. cmd.pc = "write" /\ cmd' = [cmd EXCEPT !.pc = "stop", !.raw = clock + 1]
    BY <1>5 DEF WriteSuspend, CmdAt
  <2> QED BY <1>0, <2>1 DEF Commands
<1>6. CASE Cancel \/ Lift
  BY <1>6, SuspendEnds
<1>7. CASE Reboot \/ Kill \/ WriteSnapshot \/ SetAside
  BY <1>7, CommandEnds
<1>8. CASE Settle
  <2>1. cmd.known /\ cmd' = [cmd EXCEPT !.settled = TRUE]
    BY <1>8 DEF Settle
  <2> QED BY <1>0, <2>1 DEF Commands
<1>9. CASE StopDispatch
  <2>1. /\ cmd.pc = "stop"
        /\ \/ cmd' = [cmd EXCEPT !.pc = "now"]
           \/ cmd' = [cmd EXCEPT !.pc = "start again", !.todo = Kinds]
    BY <1>9 DEF StopDispatch, CmdAt, CmdTo
  <2>2. CASE cmd' = [cmd EXCEPT !.pc = "now"]
    <3>1. cmd'.pc = "now" /\ cmd'.quiet = cmd.quiet
      BY <1>0, <2>2 DEF Commands
    <3> QED BY <1>0, <2>1, <3>1
  <2>3. CASE cmd' = [cmd EXCEPT !.pc = "start again", !.todo = Kinds]
    <3>1. cmd'.pc = "start again"
      BY <1>0, <2>3 DEF Commands
    <3> QED BY <3>1
  <2> QED BY <2>1, <2>2, <2>3
<1>10. CASE RoundNow
  <2>1. cmd.pc = "now" /\ cmd' = [cmd EXCEPT !.pc = "round"]
    BY <1>10 DEF RoundNow, CmdAt, CmdTo
  <2> QED BY <1>0, <2>1 DEF Commands
<1>11. CASE Round
  <2>1. CASE cmd' = [cmd EXCEPT !.pc = "now", !.quiet = 0]
    BY <1>0, <2>1 DEF Commands
  <2>2. CASE \E obs \in Inspections : RoundSets(obs)
    BY <2>2 DEF RoundSets
  <2> QED BY <1>11, <2>1, <2>2, RoundReads
<1>12. CASE Onward /\ ~(StopDispatch \/ RoundNow \/ Round)
  <2>1. cmd.pc \notin {"now", "round"} \/ GiveUp
    BY <1>12 DEF Onward, Facts, Stops, StartAgain, Start, Up, Proof, CmdAt
  <2>2. GiveUp => cmd'.pc \in {"start again", "facts"}
    BY <1>0 DEF GiveUp, CmdTo, Commands
  <2>3. cmd.pc \notin {"services", "write", "stop"}
    BY <1>12, OnwardSteps
  <2> QED BY <1>12, <2>1, <2>2, <2>3, OnwardSteps, FreshNoCmd DEF GoesOn
<1> QED BY <1>1, <1>2, <1>3, <1>4, <1>5, <1>6, <1>7, <1>8, <1>9, <1>10, <1>11, <1>12
        DEF Next, Person, Suspending, Resuming, Onward, vars

\* A step of the budget leaves its hooks alone, so what misled a wait still does.
LEMMA HooksStay == ASSUME TypeOK, [Next]_vars PROVE left'.hooks = left.hooks
<1>1. left \in Budget
  BY DEF TypeOK, Budget
<1>2. left' = left \/ \E what \in {"suspends", "pauses", "wakes", "turns", "declares", "faults", "reboots"} : Spend(what)
  <2>1. CASE UNCHANGED vars
    BY <2>1 DEF vars
  <2>2. CASE Agent \/ Dispatcher
    BY <2>2, Zenon DEF Agent, OwnTurn, WokenTurn, EndTurn, Declare, Dispatcher, Acquire, Pass, EndPause, Reserve, Type, Record,
       CrashDispatch, Expire, Fault
  <2>3. CASE Overdue \/ Person \/ Settle \/ Kill \/ Reboot
    BY <2>3, Zenon DEF Overdue, Person, SetPause, EndByHand, BeginSuspend, BeginResume, Settle, Kill, Reboot, Fault
  <2>4. CASE Suspending
    BY <2>4, Zenon DEF Suspending, ReadServices, WriteSuspend, StopDispatch, RoundNow, Round, GiveUp, Facts, Stops, WriteSnapshot,
       StartAgain, Starting, Cancel, Fault
  <2>5. CASE Resuming
    BY <2>5, Zenon DEF Resuming, Start, Starting, Unreadable, Up, Proof, Lift, SetAside, Fault
  <2> QED BY <2>1, <2>2, <2>3, <2>4, <2>5 DEF Next
<1>3. ASSUME NEW what \in {"suspends", "pauses", "wakes", "turns", "declares", "faults", "reboots"}, Spend(what)
      PROVE  left'.hooks = left.hooks
  BY <1>1, <1>3, Spending
<1> QED BY <1>2, <1>3

\* Where the hooks run, a turn's start leaves working, or a state they never flip.
LEMMA HooksRun ==
    ASSUME left.hooks = 1, NEW s \in Snaps
    PROVE  /\ \A t \in Hooked({s}, "working") : t.state = "working" \/ t = s
           /\ \A t \in Hooked(Hooked({s}, "idle"), "working") : t.state = "working" \/ t = s
<1>1. \A state \in {"idle", "working"}, t \in Snaps : Hooked({t}, state) = {Flip(t, state)}
  BY DEF Hooked
<1>2. Flip(s, "working").state = "working" \/ Flip(s, "working") = s
  BY DEF Flip
<1>3. Flip(s, "idle") \in Snaps /\ Hooked(Hooked({s}, "idle"), "working") = {Flip(Flip(s, "idle"), "working")}
  BY <1>1, Records
<1>4. Flip(Flip(s, "idle"), "working").state = "working" \/ Flip(Flip(s, "idle"), "working") = s
  <2>1. CASE s.state \in {"idle", "working"}
    <3>1. Flip(s, "idle").state = "idle"
      BY <2>1 DEF Flip
    <3> QED BY <3>1 DEF Flip
  <2>2. CASE s.state \notin {"idle", "working"}
    BY <2>2 DEF Flip
  <2> QED BY <2>1, <2>2
<1> QED BY <1>1, <1>2, <1>3, <1>4

\* What the agent does in a suspend: calm stays calm, a turn that ends without
\* input leaves calm, and what answers a wake in the middle of a turn was said.
LEMMA AgentCalm ==
    ASSUME TypeOK, CmdFits, Agent
    PROVE  /\ ~agent.input => ~agent'.input
           /\ Calm => Calm'
           /\ UNCHANGED <<pause, cmd, disp>> /\ left'.hooks = left.hooks
           /\ hist.said \subseteq hist'.said /\ hist'.quiet = hist.quiet /\ hist'.stopped = hist.stopped
           /\ Judging /\ Rested => Rested'
<1>0. left'.hooks = left.hooks /\ snap \in Snaps
  BY HooksStay DEF Next, TypeOK, Snaps
<1> USE DEF Calm, Rested, Misled
<1>1. CASE OwnTurn
  <2>1. ~agent'.input /\ agent'.turn = "own" /\ UNCHANGED <<pause, hist, cmd, disp>>
    BY <1>1 DEF OwnTurn, around, project, dispatcher, TypeOK
  <2> QED BY <1>0, <2>1
<1>2. CASE WokenTurn
  <2>1. agent.input /\ agent.turn = "none" /\ ~agent'.input /\ agent'.turn = "wake" /\ UNCHANGED <<pause, hist, cmd, disp>>
    BY <1>2 DEF WokenTurn, around, project, dispatcher, TypeOK
  <2>2. left.hooks = 1 => snap' = snap \/ snap'.state = "working"
    BY <1>0, <1>2, HooksRun DEF WokenTurn
  <2> QED BY <1>0, <2>1, <2>2
<1>3. CASE EndTurn
  <2>1. ~agent'.input /\ agent'.turn = (IF agent.input THEN "wake" ELSE "none") /\ UNCHANGED <<pause, hist, cmd, disp>>
    BY <1>3 DEF EndTurn, around, project, dispatcher, TypeOK
  <2>2. left.hooks = 1 /\ agent.input => snap' = snap \/ snap'.state = "working"
    BY <1>0, <1>3, HooksRun DEF EndTurn
  <2> QED BY <1>0, <2>1, <2>2
<1>4. CASE Declare
  <2>1. agent.turn # "none"
    BY <1>4 DEF Declare
  <2> QED BY <1>4, <2>1, SaysOfWait
<1> QED BY <1>1, <1>2, <1>3, <1>4 DEF Agent

\* A dispatcher that is not typing types nothing into a suspend.
LEMMA DispatcherCalm ==
    ASSUME TypeOK, Dispatcher, Suspended, ~DispAt("type")
    PROVE  UNCHANGED <<agent, snap>> /\ ~DispAt("type")'
<1>1. CASE Acquire \/ Pass \/ EndPause
  BY <1>1 DEF Acquire, Pass, EndPause, panes, DispAt, DispTo, TypeOK
<1>2. CASE Reserve
  BY <1>2 DEF Reserve, Suspended, panes, DispAt, DispTo, TypeOK
<1>3. CASE Record \/ Expire
  BY <1>3 DEF Record, Expire, panes, DispAt, DispTo, TypeOK
<1>4. CASE CrashDispatch
  BY <1>4 DEF CrashDispatch, Died, Resting, panes, DispAt
<1> QED BY <1>1, <1>2, <1>3, <1>4 DEF Dispatcher, Type

\* A round that finds no one busy found calm, or was told it.
LEMMA RoundCalm ==
    ASSUME TypeOK, PaneFits, CountsCalm, RestAnswers, Stood, CmdAt("round"),
           NEW obs \in Inspections, RoundSets(obs), cmd'.ready \in 0 .. 2
    PROVE  /\ cmd'.ready > 0 => Calm
           /\ ~(agent.alive /\ (Woken(cmd'.known, cmd'.ready) \/ Working(obs) \/ obs = "busy")) => Calm \/ Misled
<1>1. cmd'.ready > 0 => Calm
  <2>1. obs \in {"ready", "rested"} => agent.turn = "none"
    BY DEF Inspections
  <2> QED BY <2>1 DEF RoundSets, CountsCalm, Calm, CmdAt
<1>2. ~agent.alive => Calm
  BY DEF PaneFits
<1>3. ~Woken(cmd'.known, cmd'.ready) /\ obs # "busy" => Calm \/ Misled
  <2>1. wake = "none" => Calm
    BY DEF PaneFits
  <2>2. obs # "busy" => agent.turn = "none" \/ left.hooks = 1
    BY DEF Inspections
  <2>3. obs # "busy" /\ snap.state # "working" /\ snap.late => Calm \/ Misled
    BY <2>2 DEF RestAnswers, Rested, Judging
  <2>4. cmd'.ready >= 2 => Calm
    BY <1>1
  <2> QED BY <2>1, <2>3, <2>4 DEF Woken
<1> QED BY <1>1, <1>2, <1>3

\* No step disturbs the calm, and the wait counts nothing else.
LEMMA CalmStep ==
    SuspendInv /\ TypeOK' /\ PaneFits' /\ [Next]_vars => StaysCalm' /\ CountsCalm' /\ RestAnswers'
<1> SUFFICES ASSUME SuspendInv, TypeOK', PaneFits', [Next]_vars PROVE StaysCalm' /\ CountsCalm' /\ RestAnswers'
  OBVIOUS
<1>0. /\ TypeOK /\ CmdFits /\ PaneFits /\ WaitFits /\ WaitBegins /\ StaysCalm /\ CountsCalm /\ RestAnswers
      /\ cmd \in Commands /\ cmd' \in Commands' /\ hist.stopped \subseteq 1 .. clock /\ clock \in Nat
      /\ left'.hooks = left.hooks
  BY HooksStay DEF SuspendInv, WaitFits, TypeOK
<1> USE DEF StaysCalm, CountsCalm, RestAnswers, Stood
<1>1. CASE UNCHANGED vars
  BY <1>0, <1>1 DEF vars, Suspended, Calm, Misled, Rested, Judging, CmdAt, DispAt
<1>2. CASE Agent
  <2>1. Stood' <=> Stood
    BY <1>0, <1>2, AgentCalm DEF Suspended
  <2>2. /\ Judging' <=> Judging
        /\ Misled => Misled'
        /\ DispAt("type")' <=> DispAt("type")
    BY <1>0, <1>2, AgentCalm DEF Judging, Misled, CmdAt, DispAt
  <2> QED BY <1>0, <1>2, <2>1, <2>2, AgentCalm DEF CmdAt
<1>3. CASE Dispatcher
  BY <1>0, <1>3, Bystanders, DispatcherCalm DEF Suspended, Calm, Misled, Rested, Judging, CmdAt
<1>4. CASE Overdue \/ SetPause \/ EndByHand
  <2>1. UNCHANGED <<agent, snap, disp>>
    BY <1>4 DEF Overdue, SetPause, EndByHand, panes, dispatcher
  <2> QED BY <1>0, <1>4, <2>1, Bystanders DEF Suspended, Calm, Misled, Rested, Judging, CmdAt, DispAt
<1>5. CASE BeginSuspend \/ BeginResume \/ ReadServices
  <2>1. UNCHANGED <<pause, hist, agent, snap, disp>> /\ cmd'.pc \notin {"now", "round", "facts"}
    <3>1. UNCHANGED <<things, hist>> /\ cmd'.pc \notin {"now", "round", "facts"}
      <4>1. CASE ReadServices
        BY <1>0, <4>1 DEF ReadServices, Commands
      <4> QED BY <1>0, <1>5, <4>1, SuspendBegins, ResumeBegins
    <3> QED BY <3>1 DEF things, project, dispatcher, panes
  <2> QED BY <1>0, <2>1 DEF Suspended, Calm, Misled, Rested, Judging, CmdAt, DispAt
<1>6. CASE Reboot \/ Kill \/ WriteSnapshot \/ SetAside
  <2>1. \/ UNCHANGED <<agent, disp>>
        \/ Calm' /\ disp'.pc = "off"
    BY <1>6 DEF Reboot, Kill, WriteSnapshot, SetAside, things, dispatcher, panes, Resting, Calm
  <2> QED BY <1>0, <1>6, <2>1, CommandEnds DEF Suspended, Calm, Misled, Rested, Judging, CmdAt, DispAt
<1>7. CASE Cancel \/ Lift
  <2>1. UNCHANGED <<agent, disp>>
    BY <1>7 DEF Cancel, Lift, dispatcher, panes
  <2> QED BY <1>0, <1>7, <2>1, SuspendEnds DEF Suspended, Calm, Misled, Rested, Judging, CmdAt, DispAt
<1>8. CASE WriteSuspend
  <2>1. pause'.id = clock + 1 /\ hist'.stopped = hist.stopped
    BY <1>0, <1>8 DEF WriteSuspend, TypeOK
  <2> QED BY <1>0, <2>1
<1>9. CASE Settle
  <2>1. /\ ~agent.input /\ UNCHANGED <<pause, hist, agent, snap, disp>>
        /\ cmd'.pc = cmd.pc /\ cmd'.known = cmd.known /\ cmd'.ready = cmd.ready /\ cmd'.quiet = cmd.quiet
    BY <1>0, <1>9 DEF Settle, things, project, dispatcher, panes, Commands
  <2> QED BY <1>0, <2>1 DEF Suspended, Calm, Misled, Rested, Judging, CmdAt, DispAt
<1>10. CASE StopDispatch
  <2>1. cmd.pc = "stop" /\ cmd.raw = pause.id /\ UNCHANGED <<pause, agent, snap>>
    BY <1>0, <1>10 DEF StopDispatch, CmdAt, project, panes, CmdFits
  <2>2. Stood' => "dispatch" \notin active' /\ pause.id \notin hist'.quiet
    BY <1>0, <1>10, <2>1 DEF StopDispatch, TypeOK
  <2>3. ~DispAt("type")' \/ "dispatch" \in active'
    BY DEF PaneFits, DispAt
  <2>4. ~cmd.known /\ ~cmd.settled /\ cmd.ready = 0 /\ cmd.quiet = 0
    BY <1>0, <2>1 DEF WaitBegins
  <2>5. \/ cmd' = [cmd EXCEPT !.pc = "now"]
        \/ cmd' = [cmd EXCEPT !.pc = "start again", !.todo = Kinds]
    BY <1>10 DEF StopDispatch, CmdTo
  <2>6. ~cmd'.known /\ ~cmd'.settled /\ cmd'.ready = 0 /\ cmd'.quiet = 0 /\ cmd'.pc # "round"
    BY <1>0, <2>4, <2>5 DEF Commands
  <2> QED BY <2>1, <2>2, <2>3, <2>6 DEF Judging, CmdAt
<1>11. CASE RoundNow
  <2>1. /\ cmd.pc = "now" /\ cmd' = [cmd EXCEPT !.pc = "round"] /\ UNCHANGED <<pause, hist, agent, disp>>
        /\ snap' = [snap EXCEPT !.late = @ /\ cmd.known]
    BY <1>11 DEF RoundNow, CmdAt, CmdTo, project, dispatcher
  <2>2. /\ cmd'.pc = "round" /\ cmd'.settled = cmd.settled /\ cmd'.ready = cmd.ready /\ cmd'.quiet = cmd.quiet
    BY <1>0, <2>1 DEF Commands
  <2>3. snap'.state = snap.state /\ (snap'.late => snap.late /\ cmd.known)
    BY <1>0, <2>1 DEF TypeOK
  <2> QED BY <1>0, <2>1, <2>2, <2>3 DEF Suspended, Calm, Misled, Rested, Judging, CmdAt, DispAt
<1>12. CASE Round
  <2>1. cmd.pc = "round" /\ UNCHANGED <<pause, hist, agent, snap, disp>>
    BY <1>12 DEF Round, CmdAt, things, project, dispatcher, panes
  <2>2. CASE cmd' = [cmd EXCEPT !.pc = "now", !.quiet = 0]
    <3>1. cmd'.pc = "now" /\ cmd'.settled = cmd.settled /\ cmd'.ready = cmd.ready /\ cmd'.quiet = 0
      BY <1>0, <2>2 DEF Commands
    <3> QED BY <1>0, <2>1, <3>1 DEF Suspended, Calm, Misled, Rested, Judging, CmdAt, DispAt
  <2>3. ASSUME NEW obs \in Inspections, RoundSets(obs) PROVE StaysCalm' /\ CountsCalm' /\ RestAnswers'
    <3>1. /\ cmd'.settled = cmd.settled /\ cmd'.ready \in 0 .. 2 /\ cmd'.quiet \in 0 .. 2
      BY <1>0, <2>3 DEF RoundSets, Commands
    <3>2. Stood => (cmd'.ready > 0 => Calm) /\ (cmd'.quiet > 0 => Calm \/ Misled)
      BY <1>0, <2>1, <2>3, <3>1, RoundCalm DEF RoundSets, CmdAt
    <3> QED BY <1>0, <2>1, <3>1, <3>2 DEF Suspended, Calm, Misled, Rested, Judging, CmdAt, DispAt
  <2> QED BY <1>0, <1>12, <2>2, <2>3, RoundReads
<1>13. CASE GiveUp
  <2>1. cmd.pc = "now" /\ UNCHANGED <<pause, hist, agent, snap, disp>>
    BY <1>13 DEF GiveUp, CmdAt, things, project, dispatcher, panes
  <2>2. \/ cmd' = [cmd EXCEPT !.pc = "facts"]
        \/ cmd' = [cmd EXCEPT !.pc = "start again", !.todo = Kinds]
    BY <1>13 DEF GiveUp, CmdTo
  <2>3. cmd'.pc \in {"facts", "start again"} /\ cmd'.settled = cmd.settled /\ cmd'.ready = cmd.ready /\ cmd'.quiet = cmd.quiet
    BY <1>0, <2>2 DEF Commands
  <2> QED BY <1>0, <2>1, <2>3 DEF Suspended, Calm, Misled, Rested, Judging, CmdAt, DispAt
<1>14. CASE Facts
  <2>1. cmd.pc = "facts" /\ UNCHANGED <<pause, agent, snap, disp>>
    BY <1>14 DEF Facts, CmdAt, things, project, dispatcher, panes
  <2>2. cmd' = [cmd EXCEPT !.pc = "stops", !.todo = active, !.taken = clock]
    BY <1>14 DEF Facts
  <2>3. cmd'.pc = "stops"
    BY <1>0, <2>2 DEF Commands
  <2>4. /\ hist'.stopped = hist.stopped
        /\ cmd.quiet # 2 => hist'.quiet = hist.quiet
    BY <1>0, <1>14 DEF Facts, TypeOK
  <2>5. cmd.quiet = 2 /\ Stood => Calm \/ Misled
    BY <1>0, <2>1
  <2>6. hist'.said = hist.said
    BY <1>14 DEF Facts, TypeOK
  <2>7. (Stood' <=> Stood) /\ (Calm' <=> Calm) /\ (Misled' <=> Misled) /\ (DispAt("type")' <=> DispAt("type"))
    BY <1>0, <2>1, <2>4, <2>6 DEF Suspended, Calm, Misled, DispAt
  <2>8. CountsCalm' /\ RestAnswers'
    BY <2>3 DEF Judging, CmdAt
  <2>9. pause.id \in hist'.quiet => pause.id \in hist.quiet \/ cmd.quiet = 2
    BY <2>4
  <2>10. StaysCalm'
    BY <1>0, <2>1, <2>5, <2>7, <2>9
  <2> QED BY <2>8, <2>10
<1>15. CASE Stops \/ StartAgain \/ Start \/ Up \/ Proof
  <2>1. pause' = pause /\ hist' = hist /\ (cmd' = NoCmd \/ GoesOn)
    <3>1. hist' = hist
      BY <1>15 DEF Stops, StartAgain, Start, Up, Proof
    <3> QED BY <1>0, <1>15, <3>1, OnwardSteps DEF Onward
  <2>2. cmd.pc \notin {"stop", "now", "round"}
    BY <1>15 DEF Stops, StartAgain, Start, Up, Proof, CmdAt
  <2>3. cmd'.pc \notin {"now", "round", "facts"}
    BY <2>1, <2>2, FreshNoCmd DEF GoesOn
  <2>4. (Calm => Calm') /\ (DispAt("type")' => DispAt("type"))
    BY <1>0, <1>15, CommandMoves DEF Suspending, Resuming, Calm, DispAt, TypeOK
  <2> QED BY <1>0, <2>1, <2>3, <2>4 DEF Suspended, Misled, Judging, CmdAt
<1> QED BY <1>1, <1>2, <1>3, <1>4, <1>5, <1>6, <1>7, <1>8, <1>9, <1>10, <1>11, <1>12, <1>13, <1>14, <1>15
        DEF Next, Person, Suspending, Resuming

-----------------------------------------------------------------------------
(* The invariant, and what follows from it.                                 *)

\* The invariant holds at first.
LEMMA InvInit == Init => SuspendInv
<1> SUFFICES ASSUME Init PROVE SuspendInv
  OBVIOUS
<1>1. /\ pause.kind = "none" /\ cmd.pc = "off" /\ agent.alive /\ ~agent.input /\ agent.turn = "none"
      /\ disp.pc = "off"
  BY DEF Init, NoPause, NoCmd, Resting
<1>2. CmdFits /\ FileFits /\ StopsOnlyWhenQuiet /\ ServicesFit
  BY <1>1 DEF CmdFits, FileFits, StopsOnlyWhenQuiet, ServicesFit, Suspended
<1>3. PaneFits /\ WaitFits
  BY <1>1 DEF PaneFits, Calm, WaitFits, WaitBegins, StaysCalm, CountsCalm, RestAnswers, Stood, Suspended, DispAt, CmdAt
<1> QED BY <1>2, <1>3, TypeInit DEF SuspendInv

\* Each step keeps it: its parts one after the other.
LEMMA InvStep == SuspendInv /\ [Next]_vars => SuspendInv'
<1> SUFFICES ASSUME SuspendInv, [Next]_vars PROVE SuspendInv'
  OBVIOUS
<1>0. TypeOK /\ CmdFits /\ FileFits /\ StopsOnlyWhenQuiet /\ ServicesFit /\ PaneFits /\ WaitFits
  BY DEF SuspendInv
<1>1. TypeOK' /\ CmdFits'
  BY <1>0, TypeStep, CmdFitsStep
<1>2. FileFits' /\ StopsOnlyWhenQuiet' /\ ServicesFit' /\ PaneFits'
  BY <1>0, FileFitsStep, ServicesFitStep, PaneFitsStep
<1>3. WaitFits'
  BY <1>0, <1>1, <1>2, WaitBeginsStep, CalmStep DEF WaitFits
<1> QED BY <1>1, <1>2, <1>3 DEF SuspendInv

\* The invariant holds in every state, whatever the budget.
THEOREM InvCorrect == Spec => []SuspendInv
BY InvInit, InvStep, PTL DEF Spec

\* Types: every reachable state has them, and a suspend is never taken for another.
THEOREM TypeCorrect == Spec => []TypeOK
<1>1. SuspendInv => TypeOK
  BY DEF SuspendInv
<1> QED BY <1>1, InvCorrect, PTL

\* Services are stopped only after the wait of the suspend at hand, or by force.
THEOREM StopsCorrect == Spec => []StopsOnlyWhenQuiet
<1>1. SuspendInv => StopsOnlyWhenQuiet
  BY DEF SuspendInv
<1> QED BY <1>1, InvCorrect, PTL

\* A project judged quiet, its dispatcher stopped, stays quiet until the suspend is lifted.
THEOREM QuietCorrect == Spec => []QuietMeansQuiet
<1>1. SuspendInv => QuietMeansQuiet
  BY DEF SuspendInv, WaitFits, StaysCalm, Stood, QuietMeansQuiet
<1> QED BY <1>1, InvCorrect, PTL

\* What a step that changes the pause under a suspend is: a cancel or a lift.
LEMMA WhoLifts ==
    ASSUME SuspendInv, [Next]_vars, Suspended, pause' # pause
    PROVE  Cancel \/ Lift
<1>0. TypeOK /\ CmdFits /\ WaitFits
  BY DEF SuspendInv
<1>1. ~UNCHANGED vars
  BY DEF vars
<1>2. ~(Agent \/ Dispatcher \/ Overdue \/ SetPause \/ EndByHand)
  BY <1>0, Bystanders
<1>3. ~(BeginSuspend \/ BeginResume \/ ReadServices \/ Settle)
  BY DEF BeginSuspend, BeginResume, ReadServices, Settle, things, project
<1>4. ~WriteSuspend
  BY <1>0 DEF WriteSuspend, CmdAt, CmdFits
<1>5. ~(Reboot \/ Kill \/ WriteSnapshot \/ SetAside)
  BY CommandEnds
<1>6. ~Onward
  BY <1>0, OnwardSteps
<1> QED BY <1>1, <1>2, <1>3, <1>4, <1>5, <1>6 DEF Next, Person, Suspending, Resuming, Onward

\* Only a command on that very suspend ends it.
THEOREM LiftCorrect == Spec => OnlyCommandsLift
<1>1. SuspendInv /\ [Next]_vars => [Suspended /\ pause' # pause => cmd.pc \in {"cancel", "lift"} /\ cmd.raw = pause.id]_vars
  <2> SUFFICES ASSUME SuspendInv, [Next]_vars, Suspended, pause' # pause
               PROVE  cmd.pc \in {"cancel", "lift"} /\ cmd.raw = pause.id
    OBVIOUS
  <2>1. cmd.pc \in {"cancel", "lift"}
    BY WhoLifts DEF Cancel, Lift, CmdAt
  <2> QED BY <2>1 DEF SuspendInv, CmdFits
<1> QED BY <1>1, InvCorrect, PTL DEF Spec, OnlyCommandsLift

\* Whatever was killed and whatever failed, what ran when the suspend was written
\* runs when it is lifted.
THEOREM ServicesCorrect == Spec => ServicesComeBack
<1>1. SuspendInv /\ [Next]_vars
        => [Suspended /\ pause.services # Unread /\ pause'.kind # "suspend" => hist.ran \subseteq active]_vars
  <2> SUFFICES ASSUME SuspendInv, [Next]_vars, Suspended, pause.services # Unread, pause'.kind # "suspend"
               PROVE  hist.ran \subseteq active
    OBVIOUS
  <2>1. cmd.pc \in {"cancel", "lift"}
    BY WhoLifts DEF Cancel, Lift, CmdAt, Suspended
  <2> QED BY <2>1 DEF SuspendInv, CmdFits, ServicesFit
<1> QED BY <1>1, InvCorrect, PTL DEF Spec, ServicesComeBack
=============================================================================
