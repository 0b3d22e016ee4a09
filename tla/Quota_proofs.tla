---------------------------- MODULE Quota_proofs ----------------------------
(***************************************************************************)
(* Why a release resumes each interrupted agent once and leaves nobody,    *)
(* for every number of agents and every budget: the invariant QuotaInv,    *)
(* one lemma for each of its parts, and what follows from it.              *)
(***************************************************************************)
EXTENDS Quota, TLAPS

Releasing == disp.pc \in {"owed", "check", "send", "told", "back", "drop"}

\* The least episode any later send may be of: holds never go back.
Floor ==
    IF marks.hold # 0 THEN marks.hold
    ELSE IF disp.pc \in {"forget", "hold"} THEN disp.ep ELSE limit.window

\* What a pass has in hand, of the hold and of its own position.
PassFits ==
    /\ disp.ep <= limit.window
    /\ disp.pc \in {"forget", "hold"} => disp.ep # 0 /\ marks.hold <= disp.ep
    /\ disp.pc = "forget" => marks.hold = 0
    /\ Releasing => marks.hold # 0 /\ disp.ep = marks.hold
    /\ disp.pc \in {"check", "send"} => disp.i \in DOMAIN Order
    /\ disp.pc = "send" => Order[disp.i] \in disp.owed
    /\ disp.pc = "drop" => disp.complete
    /\ disp.err => ~disp.complete

\* What the snapshots and the board tell of the agents.
ClientFits(a) ==
    /\ snap[a].proc <= agent[a].proc
    /\ agent[a].on \in {"p", "none"} => snap[a].on = "p"
    /\ agent[a].on # "none" /\ snap[a].proc = agent[a].proc => snap[a].on = agent[a].on
    /\ agent[a].on # "p" => agent[a].by = 0
    /\ agent[a].turn # "none" => a \in accepted \/ snap[a].working
ClientsFit == \A a \in Agents : ClientFits(a)

\* Where a swap is, its agent is, and the release keeps off it.
Considered(a) == Releasing /\ a \in disp.here \union disp.owed
SwapFits ==
    /\ swap.pc \in {"begin", "close"} => agent[Role].on = "p"
    /\ swap.pc = "launch" => agent[Role].on = "none"
    /\ swap.pc \in {"prove", "finish", "work", "queued", "resume"} => agent[Role].on = "q"
    /\ swap.pc \in {"finish", "work", "queued", "resume"} => snap[Role].on = "q"
    /\ swap.pc \notin {"off", "begin"} => Role \in intent
    /\ swap.pc \in {"queued", "resume"} =>
           /\ swap.ep <= Floor
           /\ Considered(Role) => swap.ep = disp.ep
    /\ swap.pc = "resume" =>
           \A i \in DOMAIN queue[Role] :
               queue[Role][i].by = "release" /\ queue[Role][i].ep = marks.resumed[Role] => queue[Role][i].st = "read"

\* An agent a swap has sent its resume to: nothing more is sent to it.
Moved(a) == \E i \in DOMAIN queue[a] : queue[a][i].by = "swap"
MovedFits(a) ==
    Moved(a) =>
        /\ agent[a].on = "q" /\ snap[a].on = "q"
        /\ swap.role = a => swap.pc \in {"off", "end"}
        /\ Considered(a) => marks.resumed[a] = disp.ep
        /\ \A i, j \in DOMAIN queue[a] : queue[a][i].by = "swap" /\ queue[a][j].by = "swap" => i = j
AllMovedFit == \A a \in Agents : MovedFits(a)

\* The resumes an agent has, against the mark.
MarkFits(a) ==
    /\ marks.resumed[a] <= Floor
    /\ \A i \in DOMAIN queue[a] : queue[a][i].ep <= Floor /\ (queue[a][i].by = "release" => queue[a][i].ep # 0)
    /\ ~Moved(a) => \A i \in DOMAIN queue[a] : queue[a][i].ep = Floor => marks.resumed[a] = Floor
    /\ ~Moved(a) /\ disp.pc = "forget" /\ a \in disp.stale => marks.resumed[a] # disp.ep
    /\ \A i, j \in DOMAIN queue[a] :
           /\ queue[a][i].ep = queue[a][j].ep
           /\ \/ queue[a][i].by = "release" /\ queue[a][j].by = "release"
              \/ queue[a][i].ep = Floor
           => i = j
MarksFit == \A a \in Agents : MarkFits(a)

\* An agent cut before the release was judged, that has not gone on.
Waits(a) == a \in disp.cut /\ agent[a].turn = "cut" /\ agent[a].by # 0
Served(a) == marks.resumed[a] = disp.ep \/ ~disp.complete
ReleaseFits ==
    /\ disp.pc = "owed" => \A a \in Agents : Waits(a) => a \in disp.here /\ a \in accepted \union disp.working
    /\ disp.pc \in {"check", "send"} =>
           /\ \A a \in Agents : Waits(a) => a \in disp.owed
           /\ \A j \in DOMAIN Order : j < disp.i /\ Waits(Order[j]) => Served(Order[j])
    /\ disp.pc \in {"told", "back", "drop"} => \A a \in Agents : Waits(a) => Served(a)

QuotaInv ==
    TypeOK /\ PassFits /\ ClientsFit /\ SwapFits /\ AllMovedFit /\ MarksFit /\ NoSecondResume /\ ReleaseFits

-----------------------------------------------------------------------------
(* Types.                                                                   *)

AgentRec == [proc : Procs, on : {"p", "q", "none"}, turn : {"none", "run", "cut"}, by : Nat]
SnapRec == [proc : Procs, on : {"p", "q"}, working : BOOLEAN]
MarkRec == [hold : Nat, notice : Nat, resumed : [Agents -> Nat], back : [Agents -> Nat]]
SwapSteps == {"off", "begin", "close", "launch", "prove", "finish", "work", "queued", "resume", "end"}
SwapRec == [pc : SwapSteps, role : Agents, old : Nat, working : BOOLEAN, held : Nat, ep : Nat]
PassSteps == {"pass", "forget", "hold", "owed", "check", "send", "told", "back", "drop"}
Index == 0 .. Len(Order) + 1
PassRec == [pc : PassSteps, here : SUBSET Agents, working : SUBSET Agents, owed : SUBSET Agents, ep : Nat,
            i : Index, complete : BOOLEAN, err : BOOLEAN, told : BOOLEAN, stale : SUBSET Agents, cut : SUBSET Agents]
LeftRec == [{"turns", "swaps", "hits", "faults"} -> Nat]
LimitRec == [window : Nat \ {0}, full : BOOLEAN]

LEMMA Types ==
    TypeOK <=> /\ limit \in LimitRec /\ agent \in [Agents -> AgentRec] /\ snap \in [Agents -> SnapRec]
               /\ accepted \subseteq Agents /\ intent \subseteq Agents /\ excused \subseteq Agents
               /\ queue \in [Agents -> Seq(Entries)] /\ marks.hold <= limit.window /\ marks \in MarkRec
               /\ fallback \in [Agents -> Nat] /\ swap \in SwapRec /\ disp \in PassRec /\ left \in LeftRec
BY DEF TypeOK, AgentRec, SnapRec, MarkRec, SwapSteps, SwapRec, PassSteps, Index, PassRec, LeftRec, LimitRec, Snapshots

LEMMA TypesNext ==
    ASSUME limit' \in LimitRec, agent' \in [Agents -> AgentRec], snap' \in [Agents -> SnapRec],
           accepted' \subseteq Agents, intent' \subseteq Agents, excused' \subseteq Agents,
           queue' \in [Agents -> Seq(Entries)], marks'.hold <= limit'.window, marks' \in MarkRec,
           fallback' \in [Agents -> Nat], swap' \in SwapRec, disp' \in PassRec, left' \in LeftRec
    PROVE  TypeOK'
BY DEF TypeOK, AgentRec, SnapRec, MarkRec, SwapSteps, SwapRec, PassSteps, Index, PassRec, LeftRec, LimitRec, Snapshots

LEMMA Names ==
    /\ Len(Order) \in Nat /\ Len(Order) >= 1 /\ DOMAIN Order = 1 .. Len(Order) /\ 1 \in DOMAIN Order
    /\ \A i \in DOMAIN Order : Order[i] \in Agents
    /\ \A a \in Agents : \E i \in DOMAIN Order : Order[i] = a
    /\ Order[1] \in Agents
<1>1. Order \in Seq(Agents) /\ Order # <<>>
  BY QuotaAssumption
<1>2. Len(Order) \in Nat /\ DOMAIN Order = 1 .. Len(Order) /\ Len(Order) # 0
  BY <1>1
<1> QED BY <1>2 DEF Agents

LEMMA NextIndex == \A n \in DOMAIN Order : n \in Nat /\ n >= 1 /\ n <= Len(Order) /\ n \in Index /\ n + 1 \in Index
<1>1. Len(Order) \in Nat /\ DOMAIN Order = 1 .. Len(Order)
  BY Names
<1> DEFINE L == Len(Order)
<1> HIDE DEF L
<1>2. L \in Nat /\ DOMAIN Order = 1 .. L /\ Index = 0 .. L + 1
  BY <1>1 DEF L, Index
<1> QED BY <1>2 DEF L

LEMMA Spending ==
    ASSUME left \in LeftRec, NEW what \in {"turns", "swaps", "hits", "faults"}, Spend(what)
    PROVE  left' \in LeftRec
BY DEF LeftRec, Spend

LEMMA Rests ==
    /\ Idle \in PassRec /\ Idle.pc = "pass" /\ Idle.ep = 0 /\ Idle.i = 0 /\ Idle.complete = TRUE /\ Idle.err = FALSE
    /\ Idle.here = {} /\ Idle.working = {} /\ Idle.owed = {} /\ Idle.stale = {} /\ Idle.cut = {}
    /\ NoSwap \in SwapRec /\ NoSwap.pc = "off"
<1>1. 0 \in Index
  BY Names DEF Index
<1> QED BY <1>1, Names DEF Idle, PassRec, PassSteps, NoSwap, SwapRec, SwapSteps

LEMMA TypeInit == Init => TypeOK
<1> SUFFICES ASSUME Init PROVE TypeOK
  OBVIOUS
<1>1. limit \in LimitRec /\ agent \in [Agents -> AgentRec] /\ snap \in [Agents -> SnapRec]
  BY DEF Init, LimitRec, AgentRec, SnapRec, Procs
<1>2. queue \in [Agents -> Seq(Entries)] /\ marks \in MarkRec /\ marks.hold <= limit.window /\ fallback \in [Agents -> Nat]
  BY DEF Init, MarkRec
<1>3. swap \in SwapRec /\ disp \in PassRec
  BY Rests DEF Init
<1>4. left \in LeftRec
  BY QuotaAssumption DEF Init, LeftRec
<1> QED BY <1>1, <1>2, <1>3, <1>4, Types DEF Init

\* The agents, the provider and the swap leave the pass as it is, but for the turns
\* cut anew; the pass leaves the rest.
Pass == Dispatcher \/ CrashPass
Others == Hit \/ Reset \/ Lift \/ Die \/ Swapper \/ \E a \in Agents : Agent(a) \/ Preflight(a)

LEMMA Updates ==
    ASSUME agent \in [Agents -> AgentRec], snap \in [Agents -> SnapRec], NEW a \in Agents
    PROVE  /\ agent[a] \in AgentRec /\ snap[a] \in SnapRec
           /\ agent[a].proc \in Procs /\ agent[a].proc + 1 \in Procs /\ agent[a].by \in Nat
           /\ \A x \in AgentRec : [agent EXCEPT ![a] = x] \in [Agents -> AgentRec]
           /\ \A x \in SnapRec : [snap EXCEPT ![a] = x] \in [Agents -> SnapRec]
           /\ \A t \in {"none", "run", "cut"} : [agent[a] EXCEPT !.turn = t] \in AgentRec
           /\ \A n \in {"p", "q", "none"} : [agent[a] EXCEPT !.on = n] \in AgentRec
           /\ \A p \in Procs : [snap[a] EXCEPT !.proc = p] \in SnapRec
           /\ \A n \in {"p", "q"} : [snap[a] EXCEPT !.on = n] \in SnapRec
<1>1. agent[a] \in AgentRec /\ snap[a] \in SnapRec
  OBVIOUS
<1>2. agent[a].proc \in Procs /\ agent[a].proc + 1 \in Procs /\ agent[a].by \in Nat
  BY <1>1 DEF AgentRec, Procs
<1> QED BY <1>1, <1>2 DEF AgentRec, SnapRec

LEMMA EntriesAre ==
    ASSUME queue \in [Agents -> Seq(Entries)], NEW a \in Agents
    PROVE  /\ queue[a] \in Seq(Entries) /\ Len(queue[a]) \in Nat /\ DOMAIN queue[a] = 1 .. Len(queue[a])
           /\ \A i \in DOMAIN queue[a] : queue[a][i] \in Entries /\ queue[a][i].ep \in Nat
<1>1. queue[a] \in Seq(Entries)
  OBVIOUS
<1>2. \A i \in DOMAIN queue[a] : queue[a][i] \in Entries
  BY <1>1
<1> QED BY <1>1, <1>2 DEF Entries

\* An entry that is taken or read: its episode and its sender stay.
Marked(a, i, st) == queue' = [queue EXCEPT ![a][i].st = st]
LEMMA MarkedDoes ==
    ASSUME queue \in [Agents -> Seq(Entries)], NEW a \in Agents, NEW i \in DOMAIN queue[a],
           NEW st \in {"pending", "read"}, Marked(a, i, st)
    PROVE  /\ queue' \in [Agents -> Seq(Entries)]
           /\ \A b \in Agents : b # a => queue'[b] = queue[b]
           /\ DOMAIN queue'[a] = DOMAIN queue[a]
           /\ \A j \in DOMAIN queue[a] : j # i => queue'[a][j] = queue[a][j]
           /\ queue'[a][i].ep = queue[a][i].ep /\ queue'[a][i].by = queue[a][i].by /\ queue'[a][i].st = st
<1> DEFINE e == [queue[a][i] EXCEPT !.st = st]
<1> DEFINE q == [queue[a] EXCEPT ![i] = e]
<1>1. queue[a] \in Seq(Entries) /\ queue[a][i] \in Entries /\ Len(queue[a]) \in Nat /\ DOMAIN queue[a] = 1 .. Len(queue[a])
  BY EntriesAre
<1>2. queue' = [queue EXCEPT ![a] = q]
  BY DEF Marked
<1>3. e \in Entries /\ e.ep = queue[a][i].ep /\ e.by = queue[a][i].by /\ e.st = st
  BY <1>1 DEF Entries
<1> HIDE DEF e
<1>4. q \in Seq(Entries) /\ DOMAIN q = DOMAIN queue[a] /\ q[i] = e /\ \A j \in DOMAIN queue[a] : j # i => q[j] = queue[a][j]
  BY <1>1, <1>3
<1> HIDE DEF q
<1>5. queue'[a] = q /\ queue' \in [Agents -> Seq(Entries)] /\ \A b \in Agents : b # a => queue'[b] = queue[b]
  BY <1>2, <1>4
<1> QED BY <1>3, <1>4, <1>5

LEMMA SendDoes ==
    ASSUME queue \in [Agents -> Seq(Entries)], NEW a \in Agents, NEW e \in Entries, Send(a, e)
    PROVE  /\ queue' \in [Agents -> Seq(Entries)]
           /\ \A b \in Agents : b # a => queue'[b] = queue[b]
           /\ DOMAIN queue'[a] = DOMAIN queue[a] \union {Len(queue[a]) + 1} /\ Len(queue[a]) + 1 \notin DOMAIN queue[a]
           /\ \A j \in DOMAIN queue[a] : queue'[a][j] = queue[a][j]
           /\ queue'[a][Len(queue[a]) + 1] = e
<1>1. queue[a] \in Seq(Entries) /\ Len(queue[a]) \in Nat /\ DOMAIN queue[a] = 1 .. Len(queue[a])
  BY EntriesAre
<1> DEFINE q == Append(queue[a], e)
<1>2. q \in Seq(Entries) /\ DOMAIN q = 1 .. (Len(queue[a]) + 1) /\ (\A j \in 1 .. Len(queue[a]) : q[j] = queue[a][j])
      /\ q[Len(queue[a]) + 1] = e
  BY <1>1
<1>3. queue' = [queue EXCEPT ![a] = q]
  BY DEF Send
<1> HIDE DEF q
<1>4. queue'[a] = q /\ queue' \in [Agents -> Seq(Entries)] /\ \A b \in Agents : b # a => queue'[b] = queue[b]
  BY <1>2, <1>3
<1> QED BY <1>1, <1>2, <1>4

LEMMA EntryType == \A ep \in Nat, by \in {"release", "swap"} : Entry(ep, by) \in Entries /\ Entry(ep, by).ep = ep /\ Entry(ep, by).by = by
BY DEF Entry, Entries

LEMMA EntryOnceDoes ==
    ASSUME queue \in [Agents -> Seq(Entries)], marks \in MarkRec, NEW a \in Agents, NEW ep \in Nat, NEW by \in {"release", "swap"},
           EntryOnce(a, ep, by)
    PROVE  /\ queue' \in [Agents -> Seq(Entries)] /\ marks' \in MarkRec
           /\ marks'.hold = marks.hold /\ marks'.resumed[a] = ep
           /\ \A b \in Agents : b # a => marks'.resumed[b] = marks.resumed[b]
           /\ marks.resumed[a] = ep => UNCHANGED <<queue, marks>>
           /\ marks.resumed[a] # ep => Send(a, Entry(ep, by))
<1>1. CASE marks.resumed[a] = ep
  BY <1>1 DEF EntryOnce
<1>2. CASE marks.resumed[a] # ep
  <2>1. Send(a, Entry(ep, by)) /\ marks' = [marks EXCEPT !.resumed = [marks.resumed EXCEPT ![a] = ep]]
    BY <1>2 DEF EntryOnce
  <2>2. queue' \in [Agents -> Seq(Entries)]
    BY <2>1, EntryType, SendDoes
  <2>3. marks.resumed \in [Agents -> Nat]
    BY DEF MarkRec
  <2> DEFINE r == [marks.resumed EXCEPT ![a] = ep]
  <2>4. r \in [Agents -> Nat] /\ r[a] = ep /\ \A b \in Agents : b # a => r[b] = marks.resumed[b]
    BY <2>3
  <2> HIDE DEF r
  <2>5. marks' \in MarkRec /\ marks'.hold = marks.hold /\ marks'.resumed = r
    BY <2>1, <2>4 DEF MarkRec, r
  <2> QED BY <1>2, <2>1, <2>2, <2>4, <2>5
<1> QED BY <1>1, <1>2

LEMMA AgentTypes ==
    ASSUME TypeOK, NEW a \in Agents, Agent(a)
    PROVE  /\ UNCHANGED <<limit, marks, fallback, swap>>
           /\ agent' \in [Agents -> AgentRec] /\ snap' \in [Agents -> SnapRec] /\ queue' \in [Agents -> Seq(Entries)]
           /\ accepted' \subseteq Agents /\ intent' \subseteq Agents /\ excused' \subseteq Agents
           /\ disp' \in PassRec /\ left' \in LeftRec
<1>0. /\ agent \in [Agents -> AgentRec] /\ snap \in [Agents -> SnapRec] /\ queue \in [Agents -> Seq(Entries)]
      /\ disp \in PassRec /\ left \in LeftRec /\ limit \in LimitRec
      /\ accepted \subseteq Agents /\ intent \subseteq Agents /\ excused \subseteq Agents
  BY Types
<1>u. /\ agent[a] \in AgentRec /\ snap[a] \in SnapRec
      /\ agent[a].proc \in Procs /\ agent[a].proc + 1 \in Procs
      /\ \A x \in AgentRec : [agent EXCEPT ![a] = x] \in [Agents -> AgentRec]
      /\ \A x \in SnapRec : [snap EXCEPT ![a] = x] \in [Agents -> SnapRec]
      /\ \A t \in {"none", "run", "cut"} : [agent[a] EXCEPT !.turn = t] \in AgentRec
  BY <1>0, Updates
<1>on. Running(a) => agent[a].on \in {"p", "q"}
  BY <1>u DEF Running, AgentRec
<1>1. CASE StartTurn(a)
  <2>1. agent' = [agent EXCEPT ![a] = [agent[a] EXCEPT !.turn = "run"]]
    BY <1>1, <1>0 DEF StartTurn
  <2>2. agent' \in [Agents -> AgentRec]
    BY <2>1, <1>u
  <2>3. [proc |-> agent[a].proc, on |-> agent[a].on, working |-> TRUE] \in SnapRec
    BY <1>1, <1>u, <1>on DEF StartTurn, SnapRec
  <2>4. snap' \in [Agents -> SnapRec]
    BY <2>3, <1>1, <1>u, <1>0 DEF StartTurn
  <2>5. left' \in LeftRec
    BY <1>1, <1>0, Spending DEF StartTurn
  <2> QED BY <2>2, <2>4, <2>5, <1>1, <1>0 DEF StartTurn, bus
<1>2. CASE Finish(a)
  <2>1. agent' = [agent EXCEPT ![a] = [agent[a] EXCEPT !.turn = "none"]]
    BY <1>2, <1>0 DEF Finish
  <2>2. agent' \in [Agents -> AgentRec]
    BY <2>1, <1>u
  <2>3. [proc |-> agent[a].proc, on |-> agent[a].on, working |-> FALSE] \in SnapRec
    BY <1>2, <1>u, <1>on DEF Finish, SnapRec
  <2>4. snap' \in [Agents -> SnapRec]
    BY <2>3, <1>2, <1>u, <1>0 DEF Finish
  <2> QED BY <2>2, <2>4, <1>2, <1>0 DEF Finish, bus
<1>3. CASE Cut(a)
  <2>1. agent' = [agent EXCEPT ![a] = [[agent[a] EXCEPT !.turn = "cut"] EXCEPT !.by = limit.window]]
    BY <1>3, <1>0 DEF Cut
  <2>2. limit.window \in Nat
    BY <1>0 DEF LimitRec
  <2>3. [[agent[a] EXCEPT !.turn = "cut"] EXCEPT !.by = limit.window] \in AgentRec
    BY <1>u, <2>2 DEF AgentRec
  <2>4. agent' \in [Agents -> AgentRec]
    BY <2>1, <2>3, <1>u
  <2>5. disp' \in PassRec
    BY <1>3, <1>0 DEF Cut, PassRec
  <2> QED BY <2>4, <2>5, <1>3, <1>0 DEF Cut, bus
<1>4. CASE Take(a)
  <2>1. PICK i \in DOMAIN queue[a] : Marked(a, i, "pending")
    BY <1>4 DEF Take, Marked
  <2>2. queue' \in [Agents -> Seq(Entries)]
    BY <2>1, <1>0, MarkedDoes
  <2> QED BY <2>2, <1>4, <1>0 DEF Take, clients, bus
<1>5. CASE Read(a)
  <2>1. PICK i \in DOMAIN queue[a] : Marked(a, i, "read")
    BY <1>5 DEF Read, Marked
  <2>2. queue' \in [Agents -> Seq(Entries)]
    BY <2>1, <1>0, MarkedDoes
  <2>3. agent' = agent \/ agent' = [agent EXCEPT ![a] = [agent[a] EXCEPT !.turn = "run"]]
    BY <1>5, <1>0 DEF Read
  <2>4. agent' \in [Agents -> AgentRec]
    BY <2>3, <1>u, <1>0
  <2> QED BY <2>2, <2>4, <1>5, <1>0 DEF Read, bus
<1>6. CASE Register(a)
  <2> DEFINE y == [[snap[a] EXCEPT !.proc = agent[a].proc] EXCEPT !.on = agent[a].on]
  <2>1. snap' = [snap EXCEPT ![a] = y]
    BY <1>6, <1>0 DEF Register
  <2>2. y \in SnapRec
    BY <1>6, <1>u, <1>on DEF Register, SnapRec
  <2>3. snap' \in [Agents -> SnapRec]
    BY <2>1, <2>2, <1>u
  <2> QED BY <2>3, <1>6, <1>0 DEF Register, bus
<1>7. CASE Respawn(a)
  <2> DEFINE y == [[agent[a] EXCEPT !.proc = agent[a].proc + 1] EXCEPT !.on = "p"]
  <2>1. agent' = [agent EXCEPT ![a] = y]
    BY <1>7, <1>0 DEF Respawn
  <2>2. y \in AgentRec
    BY <1>u DEF AgentRec
  <2>3. agent' \in [Agents -> AgentRec]
    BY <2>1, <2>2, <1>u
  <2> QED BY <2>3, <1>7, <1>0 DEF Respawn, bus
<1>8. CASE Expire(a)
  BY <1>8, <1>0 DEF Expire, others, clients
<1> QED BY <1>1, <1>2, <1>3, <1>4, <1>5, <1>6, <1>7, <1>8 DEF Agent

LEMMA LimitTypes ==
    ASSUME TypeOK, Hit \/ Reset \/ Lift
    PROVE  /\ UNCHANGED <<clients, queue, bus, swap, disp, excused>>
           /\ limit' \in LimitRec /\ limit.window <= limit'.window /\ left' \in LeftRec
<1>0. limit \in LimitRec /\ left \in LeftRec /\ limit.window \in Nat \ {0}
  BY Types DEF LimitRec
<1>e. \A b \in BOOLEAN : [limit EXCEPT !.full = b] \in LimitRec /\ [limit EXCEPT !.full = b].window = limit.window
  BY <1>0 DEF LimitRec
<1>w. limit.window <= limit.window
  BY <1>0
<1>1. CASE Hit
  <2>1. left' \in LeftRec
    BY <1>1, <1>0, Spending DEF Hit
  <2> QED BY <2>1, <1>1, <1>e, <1>w DEF Hit
<1>2. CASE Reset
  BY <1>2, <1>0 DEF Reset, LimitRec
<1>3. CASE Lift
  BY <1>3, <1>0, <1>e, <1>w DEF Lift
<1> QED BY <1>1, <1>2, <1>3

LEMMA SwapTypes ==
    ASSUME TypeOK, Swapper \/ Die \/ \E a \in Agents : Preflight(a)
    PROVE  /\ UNCHANGED <<limit, disp, accepted, snap>>
           /\ agent' \in [Agents -> AgentRec] /\ queue' \in [Agents -> Seq(Entries)]
           /\ intent' \subseteq Agents /\ excused' \subseteq Agents
           /\ marks' \in MarkRec /\ marks'.hold = marks.hold /\ fallback' \in [Agents -> Nat]
           /\ swap' \in SwapRec /\ left' \in LeftRec
<1>0. /\ agent \in [Agents -> AgentRec] /\ queue \in [Agents -> Seq(Entries)] /\ snap \in [Agents -> SnapRec]
      /\ left \in LeftRec /\ marks \in MarkRec /\ swap \in SwapRec /\ fallback \in [Agents -> Nat]
      /\ intent \subseteq Agents /\ excused \subseteq Agents
  BY Types
<1>r. Role \in Agents /\ swap.ep \in Nat /\ swap.held \in Nat /\ marks.hold \in Nat
  BY <1>0 DEF SwapRec, MarkRec, Role
<1>u. /\ agent[Role] \in AgentRec
      /\ agent[Role].proc \in Procs /\ agent[Role].proc + 1 \in Procs
      /\ \A x \in AgentRec : [agent EXCEPT ![Role] = x] \in [Agents -> AgentRec]
  BY <1>0, <1>r, Updates
<1>t. \A pc \in SwapSteps : To(pc) => swap' \in SwapRec
  BY <1>0 DEF To, SwapRec
<1>f. Fault => left' \in LeftRec
  BY <1>0, Spending DEF Fault
<1>e. Excuse(Role) \/ LeaveToRelease(Role) => excused' \subseteq Agents
  BY <1>0, <1>r DEF Excuse, LeaveToRelease
<1>n. NoSwap \in SwapRec
  BY Rests
<1>1. CASE BeginSwap
  <2>1. swap' \in SwapRec
    BY <1>1, <1>t, <1>n DEF BeginSwap, SwapSteps
  <2>2. intent' \subseteq Agents
    BY <1>1, <1>0, <1>r DEF BeginSwap
  <2> QED BY <2>1, <2>2, <1>1, <1>0 DEF BeginSwap, others, clients
<1>2. CASE ClosePane
  <2>1. swap' \in SwapRec
    BY <1>2, <1>t DEF ClosePane, SwapSteps
  <2> DEFINE t == IF agent[Role].turn = "none" THEN agent[Role].turn ELSE "cut"
  <2>2. Lost(Role) = [agent EXCEPT ![Role] = [[[agent[Role] EXCEPT !.on = "none"] EXCEPT !.by = 0] EXCEPT !.turn = t]]
    BY <1>0, <1>r DEF Lost
  <2>3. t \in {"none", "run", "cut"}
    BY <1>u DEF AgentRec
  <2> HIDE DEF t
  <2>4. [[[agent[Role] EXCEPT !.on = "none"] EXCEPT !.by = 0] EXCEPT !.turn = t] \in AgentRec
    BY <1>u, <2>3 DEF AgentRec
  <2>5. agent' \in [Agents -> AgentRec]
    BY <2>2, <2>4, <1>u, <1>2, <1>0 DEF ClosePane
  <2>6. left' \in LeftRec
    BY <1>2, <1>f, <1>0 DEF ClosePane
  <2> QED BY <2>1, <2>5, <2>6, <1>2, <1>0 DEF ClosePane, others, bus
<1>3. CASE Launch
  <2>1. swap' \in SwapRec
    BY <1>3, <1>t DEF Launch, SwapSteps
  <2> DEFINE y == [[agent[Role] EXCEPT !.proc = agent[Role].proc + 1] EXCEPT !.on = "q"]
  <2>2. y \in AgentRec
    BY <1>u DEF AgentRec
  <2>3. agent' = agent \/ agent' = [agent EXCEPT ![Role] = y]
    BY <1>3, <1>0 DEF Launch
  <2>4. agent' \in [Agents -> AgentRec]
    BY <2>2, <2>3, <1>u, <1>0
  <2>5. left' \in LeftRec /\ excused' \subseteq Agents
    BY <1>3, <1>f, <1>e, <1>0 DEF Launch
  <2> QED BY <2>1, <2>4, <2>5, <1>3, <1>0 DEF Launch, others, bus
<1>4. CASE Prove
  <2>1. swap' \in SwapRec
    BY <1>4, <1>t DEF Prove, SwapSteps
  <2>2. left' \in LeftRec /\ excused' \subseteq Agents
    BY <1>4, <1>f, <1>e, <1>0 DEF Prove
  <2> QED BY <2>1, <2>2, <1>4, <1>0 DEF Prove, others, clients, bus
<1>5. CASE FinishSwap
  <2>1. swap' \in SwapRec
    BY <1>5, <1>t, <1>n DEF FinishSwap, SwapSteps
  <2>2. left' \in LeftRec /\ excused' \subseteq Agents
    BY <1>5, <1>f, <1>e, <1>0 DEF FinishSwap
  <2>3. fallback' \in [Agents -> Nat]
    BY <1>5, <1>0, <1>r DEF FinishSwap
  <2> QED BY <2>1, <2>2, <2>3, <1>5, <1>0 DEF FinishSwap, others, clients
<1>6. CASE Work
  <2>1. [[swap EXCEPT !.pc = "queued"] EXCEPT !.ep = marks.hold] \in SwapRec
    BY <1>0, <1>r DEF SwapRec, SwapSteps
  <2>2. swap' = [[swap EXCEPT !.pc = "queued"] EXCEPT !.ep = marks.hold] \/ To("end")
    BY <1>6 DEF Work
  <2>3. swap' \in SwapRec
    BY <2>1, <2>2, <1>t DEF SwapSteps
  <2>4. excused' \subseteq Agents
    BY <1>6, <1>e, <1>0 DEF Work
  <2> QED BY <2>3, <2>4, <1>6, <1>0 DEF Work, others, clients, bus
<1>7. CASE Queued
  <2>1. swap' \in SwapRec
    BY <1>7, <1>t DEF Queued, SwapSteps
  <2> QED BY <2>1, <1>7, <1>0 DEF Queued, others, clients, bus
<1>8. CASE SwapResume
  <2>1. swap' \in SwapRec
    BY <1>8, <1>t DEF SwapResume, SwapSteps
  <2>2. left' \in LeftRec /\ excused' \subseteq Agents
    BY <1>8, <1>f, <1>e, <1>0 DEF SwapResume
  <2>3. queue' \in [Agents -> Seq(Entries)] /\ marks' \in MarkRec /\ marks'.hold = marks.hold
    <3>1. CASE EntryOnce(Role, swap.ep, "swap")
      BY <3>1, <1>0, <1>r, EntryOnceDoes
    <3>2. CASE Send(Role, Entry(0, "swap")) /\ UNCHANGED marks
      <4>1. Entry(0, "swap") \in Entries
        BY EntryType
      <4> QED BY <4>1, <3>2, <1>0, <1>r, SendDoes
    <3>3. CASE UNCHANGED <<queue, marks>>
      BY <3>3, <1>0
    <3> QED BY <3>1, <3>2, <3>3, <1>8 DEF SwapResume
  <2> QED BY <2>1, <2>2, <2>3, <1>8, <1>0 DEF SwapResume, others, clients
<1>9. CASE EndSwap
  BY <1>9, <1>0, <1>n DEF EndSwap, others, clients
<1>10. CASE Die
  <2>1. left' \in LeftRec
    BY <1>10, <1>f DEF Die
  <2>2. excused' \subseteq Agents
    <3>1. CASE swap.pc \in {"close", "end"}
      BY <3>1, <1>10, <1>0 DEF Die
    <3>2. CASE swap.pc = "launch"
      BY <3>2, <1>10, <1>e DEF Die
    <3>3. CASE swap.pc \notin {"close", "end", "launch"}
      BY <3>3, <1>10, <1>e DEF Die
    <3> QED BY <3>1, <3>2, <3>3
  <2> QED BY <2>1, <2>2, <1>10, <1>0, <1>n DEF Die, others, clients, bus
<1>11. ASSUME NEW a \in Agents, Preflight(a)
       PROVE  swap' \in SwapRec /\ left' \in LeftRec /\ UNCHANGED <<others, clients, queue, bus, excused>>
  <2>1. left' \in LeftRec
    BY <1>11, <1>0, Spending DEF Preflight
  <2>2. snap[a].proc \in Nat /\ snap[a].working \in BOOLEAN
    BY <1>0 DEF SnapRec, Procs
  <2>3. swap' \in SwapRec
    BY <2>2, <1>11, <1>r DEF Preflight, SwapRec, SwapSteps
  <2> QED BY <2>1, <2>3, <1>11 DEF Preflight
<1> QED BY <1>0, <1>1, <1>2, <1>3, <1>4, <1>5, <1>6, <1>7, <1>8, <1>9, <1>10, <1>11 DEF Swapper, others, clients, bus

\* The steps of a pass, on the record it has in hand.
LEMMA PassMoves ==
    ASSUME disp \in PassRec
    PROVE  /\ \A pc \in PassSteps : [disp EXCEPT !.pc = pc] \in PassRec
           /\ \A n \in Index : [disp EXCEPT !.i = n] \in PassRec
           /\ \A b \in BOOLEAN : [disp EXCEPT !.complete = b] \in PassRec /\ [disp EXCEPT !.told = b] \in PassRec
                                 /\ [disp EXCEPT !.err = b] \in PassRec
           /\ disp.i \in Index /\ disp.ep \in Nat /\ disp.complete \in BOOLEAN /\ disp.err \in BOOLEAN
           /\ disp.here \subseteq Agents /\ disp.working \subseteq Agents /\ disp.owed \subseteq Agents
           /\ disp.pc \in PassSteps
BY DEF PassRec

\* A recipient that is passed over.
LEMMA SkipDoes ==
    ASSUME disp \in PassRec, disp.i \in DOMAIN Order, NEW why \in {"not owed", "swap", "earlier error", "error"}, Skip(why)
    PROVE  /\ disp' \in PassRec
           /\ disp'.pc = Onward /\ disp'.i = disp.i + 1
           /\ disp'.here = disp.here /\ disp'.owed = disp.owed /\ disp'.ep = disp.ep /\ disp'.cut = disp.cut
           /\ disp'.stale = disp.stale
           /\ disp'.complete = (disp.complete /\ why = "not owed")
           /\ disp'.err = (disp.err \/ why = "error")
<1>1. disp.i + 1 \in Index
  BY NextIndex
<1>p. Onward \in PassSteps
  BY DEF Onward, PassSteps
<1>2. disp.complete \in BOOLEAN /\ disp.err \in BOOLEAN
  BY PassMoves
<1> DEFINE c == IF why = "not owed" THEN disp.complete ELSE FALSE
           e == disp.err \/ why = "error"
<1>3. disp' = [[[[disp EXCEPT !.pc = Onward] EXCEPT !.i = disp.i + 1] EXCEPT !.complete = c] EXCEPT !.err = e]
  BY DEF Skip, PassRec
<1>4. c \in BOOLEAN /\ e \in BOOLEAN /\ c = (disp.complete /\ why = "not owed")
  BY <1>2
<1> HIDE DEF c
<1> QED BY <1>1, <1>p, <1>3, <1>4 DEF PassRec

LEMMA JudgeDoes ==
    ASSUME TypeOK, Judge
    PROVE  /\ disp.pc = "pass" /\ UNCHANGED <<rest, queue, bus, left>> /\ disp' \in PassRec
           /\ \/ /\ HoldNow /\ disp'.ep = limit.window /\ disp'.here = {} /\ disp'.owed = {} /\ disp'.cut = {}
                 /\ disp'.stale = {a \in Agents : marks.resumed[a] \notin {0, limit.window}}
                 /\ disp'.pc = "hold" \/ (disp'.pc = "forget" /\ marks.hold = 0)
                 /\ ~disp'.err
              \/ /\ marks.hold # 0 /\ disp'.pc = "owed" /\ disp'.ep = marks.hold
                 /\ disp'.here = {a \in Agents : snap[a].on = "p"}
                 /\ disp'.working = {a \in Agents : snap[a].working} /\ disp'.owed = {}
                 /\ disp'.cut = {a \in Agents : agent[a].turn = "cut" /\ agent[a].by \in 1 .. marks.hold}
                 /\ disp'.complete /\ ~disp'.err
              \/ disp' = Idle
<1>0. limit.window \in Nat /\ marks.hold \in Nat /\ Idle \in PassRec
  BY Types, Rests DEF LimitRec, MarkRec
<1> DEFINE J(known) == CASE known /\ HoldNow -> [Idle EXCEPT !.ep = limit.window,
                        !.stale = {a \in Agents : marks.resumed[a] \notin {0, limit.window}},
                        !.pc = IF marks.hold = 0 /\ OtherEpisodes(limit.window) THEN "forget" ELSE "hold"]
                  [] ReleaseNow(known) -> [Idle EXCEPT !.ep = marks.hold, !.pc = "owed",
                        !.here = {a \in Agents : snap[a].on = "p"},
                        !.working = {a \in Agents : snap[a].working},
                        !.cut = {a \in Agents : agent[a].turn = "cut" /\ agent[a].by \in 1 .. marks.hold}]
                  [] OTHER -> Idle
<1>1. PICK known \in BOOLEAN : disp' = J(known)
  BY DEF Judge
<1>2. ~((known /\ HoldNow) /\ ReleaseNow(known))
  BY DEF HoldNow, ReleaseNow
<1>3. disp.pc = "pass" /\ UNCHANGED <<rest, queue, bus, left>>
  BY DEF Judge, At
<1>4. CASE known /\ HoldNow
  <2> DEFINE pc == IF marks.hold = 0 /\ OtherEpisodes(limit.window) THEN "forget" ELSE "hold"
             st == {a \in Agents : marks.resumed[a] \notin {0, limit.window}}
  <2>1. disp' = [[[Idle EXCEPT !.ep = limit.window] EXCEPT !.stale = st] EXCEPT !.pc = pc]
    BY <1>1, <1>2, <1>4, <1>0 DEF PassRec
  <2>2. pc \in {"forget", "hold"} /\ (pc = "forget" => marks.hold = 0) /\ st \subseteq Agents
    OBVIOUS
  <2> HIDE DEF pc
  <2> QED BY <2>1, <2>2, <1>0, <1>3, <1>4, Rests DEF PassRec, PassSteps
<1>5. CASE ReleaseNow(known)
  <2> DEFINE h == {a \in Agents : snap[a].on = "p"}
             w == {a \in Agents : snap[a].working}
             c == {a \in Agents : agent[a].turn = "cut" /\ agent[a].by \in 1 .. marks.hold}
  <2>1. disp' = [[[[[Idle EXCEPT !.ep = marks.hold] EXCEPT !.pc = "owed"] EXCEPT !.here = h] EXCEPT !.working = w] EXCEPT !.cut = c]
    BY <1>1, <1>2, <1>5, <1>0 DEF PassRec
  <2>2. h \subseteq Agents /\ w \subseteq Agents /\ c \subseteq Agents /\ marks.hold # 0
    BY <1>5 DEF ReleaseNow
  <2> HIDE DEF h, w, c
  <2>3. /\ disp' \in PassRec /\ disp'.pc = "owed" /\ disp'.ep = marks.hold /\ disp'.here = h /\ disp'.working = w
        /\ disp'.cut = c /\ disp'.owed = {} /\ disp'.complete /\ ~disp'.err
    BY <2>1, <2>2, <1>0, Rests DEF PassRec, PassSteps
  <2> QED BY <2>2, <2>3, <1>3 DEF h, w, c
<1>6. CASE ~(known /\ HoldNow) /\ ~ReleaseNow(known)
  BY <1>0, <1>1, <1>3, <1>6
<1> QED BY <1>4, <1>5, <1>6

\* What the pass does after its judgement, to its own record and to the hold.
LEMMA PassTypes ==
    ASSUME TypeOK, PassFits, Pass
    PROVE  /\ UNCHANGED rest /\ UNCHANGED <<fallback, intent>>
           /\ disp' \in PassRec /\ marks' \in MarkRec /\ queue' \in [Agents -> Seq(Entries)] /\ left' \in LeftRec
           /\ marks'.hold = marks.hold \/ (Hold /\ marks'.hold = disp.ep) \/ (Drop /\ marks'.hold = 0)
<1>0. disp \in PassRec /\ marks \in MarkRec /\ queue \in [Agents -> Seq(Entries)] /\ left \in LeftRec /\ accepted \subseteq Agents
  BY Types
<1>m. /\ \A pc \in PassSteps : [disp EXCEPT !.pc = pc] \in PassRec
      /\ \A b \in BOOLEAN : [disp EXCEPT !.complete = b] \in PassRec /\ [disp EXCEPT !.told = b] \in PassRec
      /\ disp.i \in Index /\ disp.ep \in Nat /\ disp.complete \in BOOLEAN /\ disp.err \in BOOLEAN
      /\ disp.here \subseteq Agents /\ disp.working \subseteq Agents /\ disp.owed \subseteq Agents
      /\ Idle \in PassRec
  BY <1>0, PassMoves, Rests
<1>f. Fault => left' \in LeftRec
  BY <1>0, Spending DEF Fault
<1>k. /\ marks.hold \in Nat /\ marks.notice \in Nat /\ marks.resumed \in [Agents -> Nat] /\ marks.back \in [Agents -> Nat]
      /\ \A n \in Nat : [marks EXCEPT !.hold = n] \in MarkRec /\ [marks EXCEPT !.hold = n].hold = n
      /\ \A n \in Nat : [marks EXCEPT !.notice = n] \in MarkRec /\ [marks EXCEPT !.notice = n].hold = marks.hold
      /\ \A b \in [Agents -> Nat] : [marks EXCEPT !.back = b] \in MarkRec /\ [marks EXCEPT !.back = b].hold = marks.hold
  BY <1>0 DEF MarkRec
<1>1. CASE Judge
  BY <1>1, <1>0, JudgeDoes DEF bus
<1>2. CASE Forget
  <2> DEFINE r == [a \in Agents |-> IF a \in disp.stale THEN 0 ELSE marks.resumed[a]]
             b == [a \in Agents |-> Kept(marks.back[a])]
             n == Kept(marks.notice)
  <2>1. r \in [Agents -> Nat] /\ b \in [Agents -> Nat] /\ n \in Nat
    BY <1>k DEF Kept
  <2>2. marks' = [hold |-> marks.hold, notice |-> n, resumed |-> r, back |-> b]
    BY <1>2 DEF Forget
  <2> HIDE DEF r, b, n
  <2>3. marks' \in MarkRec /\ marks'.hold = marks.hold
    BY <2>1, <2>2, <1>k DEF MarkRec
  <2>4. disp' \in PassRec
    BY <1>2, <1>m DEF Forget, PassSteps
  <2> QED BY <2>3, <2>4, <1>2, <1>0 DEF Forget
<1>3. CASE Hold
  BY <1>3, <1>m, <1>k, <1>0 DEF Hold
<1>4. CASE Owed
  <2> DEFINE o == disp.here \intersect (accepted \union disp.working)
  <2> DEFINE x == [[[[[disp EXCEPT !.pc = "check"] EXCEPT !.i = 1] EXCEPT !.here = {}] EXCEPT !.working = {}] EXCEPT !.owed = o]
             y == [[disp EXCEPT !.pc = "back"] EXCEPT !.complete = FALSE]
  <2>1. disp' = x \/ disp' = y
    BY <1>4 DEF Owed
  <2>2. 1 \in Index /\ o \subseteq Agents
    BY <1>m, Names DEF Index
  <2> HIDE DEF o
  <2>3. x \in PassRec /\ y \in PassRec
    BY <2>2, <1>0 DEF PassRec, PassSteps
  <2> HIDE DEF x, y
  <2>4. left' \in LeftRec /\ UNCHANGED <<rest, queue, bus>>
    BY <1>4, <1>f, <1>0 DEF Owed
  <2> QED BY <2>1, <2>3, <2>4, <1>0 DEF bus
<1>5. CASE Check
  <2>1. disp.i \in DOMAIN Order
    BY <1>5 DEF Check, At, PassFits
  <2>2. disp' \in PassRec
    <3>1. (\E why \in {"not owed", "swap", "earlier error", "error"} : Skip(why)) \/ disp' = [disp EXCEPT !.pc = "send"]
      BY <1>5 DEF Check
    <3> QED BY <3>1, <2>1, <1>0, <1>m, SkipDoes DEF PassSteps
  <2> QED BY <2>2, <1>5, <1>0 DEF Check, bus
<1>6. CASE SendResume
  <2>1. disp.i \in DOMAIN Order /\ Order[disp.i] \in Agents
    BY <1>6, Names DEF SendResume, At, PassFits
  <2>2. disp' \in PassRec
    <3> DEFINE x == [[[disp EXCEPT !.pc = Onward] EXCEPT !.i = disp.i + 1] EXCEPT !.told = TRUE]
    <3>0. disp.i \in 1 .. Len(Order) /\ Len(Order) \in Nat
      BY <2>1, Names
    <3>1. disp.i + 1 \in Index /\ Onward \in PassSteps
      BY <3>0 DEF Index, Onward, PassSteps
    <3>2. x \in PassRec
      BY <3>1, <1>0 DEF PassRec
    <3>3. Skip("error") \/ disp' = x
      BY <1>6 DEF SendResume
    <3> QED BY <3>2, <3>3, <2>1, <1>0, SkipDoes
  <2>3. EntryOnce(Order[disp.i], disp.ep, "release") \/ UNCHANGED <<queue, marks>>
    BY <1>6 DEF SendResume
  <2>4. queue' \in [Agents -> Seq(Entries)] /\ marks' \in MarkRec /\ marks'.hold = marks.hold
    BY <2>1, <2>3, <1>0, <1>m, EntryOnceDoes
  <2>5. left' \in LeftRec
    BY <1>6, <1>f, <1>0 DEF SendResume
  <2> QED BY <2>2, <2>4, <2>5, <1>6 DEF SendResume
<1>7. CASE Notice
  <2> DEFINE y == [[disp EXCEPT !.pc = "back"] EXCEPT !.complete = FALSE]
             z == [disp EXCEPT !.pc = "back"]
  <2>1. y \in PassRec /\ z \in PassRec
    BY <1>0 DEF PassRec, PassSteps
  <2>2. disp' = y \/ disp' = z
    BY <1>7 DEF Notice
  <2> HIDE DEF y, z
  <2>3. marks' \in MarkRec /\ marks'.hold = marks.hold
    BY <1>7, <1>k, <1>m, <1>0 DEF Notice
  <2>4. left' \in LeftRec
    BY <1>7, <1>f, <1>0 DEF Notice
  <2> QED BY <2>1, <2>2, <2>3, <2>4, <1>7, <1>0 DEF Notice
<1>8. CASE Back
  <2> DEFINE b == [a \in Agents |-> IF fallback[a] = disp.ep THEN disp.ep ELSE marks.back[a]]
  <2>1. b \in [Agents -> Nat]
    BY <1>k, <1>m
  <2>2. marks' = [marks EXCEPT !.back = b] \/ marks' = marks
    BY <1>8 DEF Back
  <2> HIDE DEF b
  <2>3. marks' \in MarkRec /\ marks'.hold = marks.hold
    BY <2>1, <2>2, <1>0 DEF MarkRec
  <2>4. disp' \in PassRec
    BY <1>8, <1>m DEF Back, After, PassSteps
  <2>5. left' \in LeftRec
    BY <1>8, <1>f, <1>0 DEF Back
  <2> QED BY <2>3, <2>4, <2>5, <1>8, <1>0 DEF Back
<1>9. CASE Drop
  BY <1>9, <1>m, <1>k, <1>0 DEF Drop
<1>10. CASE CrashPass
  BY <1>10, <1>m, <1>f, <1>0 DEF CrashPass, bus
<1> QED BY <1>1, <1>2, <1>3, <1>4, <1>5, <1>6, <1>7, <1>8, <1>9, <1>10 DEF Pass, Dispatcher

LEMMA TypeStep == TypeOK /\ PassFits /\ [Next]_vars => TypeOK'
<1> SUFFICES ASSUME TypeOK, PassFits, [Next]_vars PROVE TypeOK'
  OBVIOUS
<1>0. marks.hold <= limit.window /\ disp.ep <= limit.window /\ limit.window \in Nat /\ marks.hold \in Nat
  BY Types DEF PassFits, LimitRec, MarkRec
<1>t. /\ limit \in LimitRec /\ agent \in [Agents -> AgentRec] /\ snap \in [Agents -> SnapRec]
      /\ accepted \subseteq Agents /\ intent \subseteq Agents /\ excused \subseteq Agents
      /\ queue \in [Agents -> Seq(Entries)] /\ marks \in MarkRec
      /\ fallback \in [Agents -> Nat] /\ swap \in SwapRec /\ disp \in PassRec /\ left \in LeftRec
  BY Types
<1>1. CASE UNCHANGED vars
  BY <1>1, <1>0, <1>t, TypesNext DEF vars
<1>2. CASE Hit \/ Reset \/ Lift
  <2>1. limit' \in LimitRec /\ limit'.window \in Nat /\ limit.window <= limit'.window /\ left' \in LeftRec
    BY <1>2, LimitTypes DEF LimitRec
  <2>2. UNCHANGED <<agent, snap, accepted, queue, marks, fallback, intent, swap, disp, excused>>
    BY <1>2, LimitTypes DEF clients, bus
  <2>3. marks'.hold <= limit'.window
    BY <2>1, <2>2, <1>0
  <2> QED BY <2>1, <2>2, <2>3, <1>t, TypesNext
<1>3. CASE Swapper \/ Die \/ \E a \in Agents : Preflight(a)
  <2>1. marks'.hold <= limit'.window
    BY <1>3, <1>0, SwapTypes
  <2> QED BY <2>1, <1>3, <1>t, SwapTypes, TypesNext
<1>4. CASE \E a \in Agents : Agent(a)
  <2>1. marks'.hold <= limit'.window
    BY <1>4, <1>0, AgentTypes
  <2> QED BY <2>1, <1>4, <1>t, AgentTypes, TypesNext
<1>5. CASE Pass
  <2>1. UNCHANGED <<limit, agent, snap, accepted, swap, excused, fallback, intent>>
    BY <1>5, PassTypes DEF rest, clients
  <2>2. marks'.hold <= limit'.window
    BY <2>1, <1>0, <1>5, PassTypes
  <2> QED BY <2>1, <2>2, <1>5, <1>t, PassTypes, TypesNext
<1> QED BY <1>1, <1>2, <1>3, <1>4, <1>5 DEF Next, Pass

-----------------------------------------------------------------------------
(* What each step of a pass does to its record, the marks and the queues.   *)

LEMMA ForgetDoes ==
    ASSUME TypeOK, Forget
    PROVE  /\ disp.pc = "forget" /\ disp'.pc = "hold" /\ UNCHANGED <<rest, queue, fallback, intent>>
           /\ disp'.ep = disp.ep /\ disp'.here = disp.here /\ disp'.owed = disp.owed /\ disp'.cut = disp.cut
           /\ disp'.err = disp.err /\ disp'.complete = disp.complete /\ disp'.stale = disp.stale
           /\ marks'.hold = marks.hold
           /\ \A a \in Agents : marks'.resumed[a] = IF a \in disp.stale THEN 0 ELSE marks.resumed[a]
<1>1. disp \in PassRec /\ disp.pc = "forget" /\ disp' = [disp EXCEPT !.pc = "hold"]
  BY Types DEF Forget, At
<1>2. /\ disp'.pc = "hold" /\ disp'.ep = disp.ep /\ disp'.here = disp.here /\ disp'.owed = disp.owed /\ disp'.cut = disp.cut
      /\ disp'.err = disp.err /\ disp'.complete = disp.complete /\ disp'.stale = disp.stale
  BY <1>1 DEF PassRec
<1> QED BY <1>1, <1>2 DEF Forget

LEMMA HoldDoes ==
    ASSUME TypeOK, Hold
    PROVE  /\ disp.pc = "hold" /\ disp' = Idle /\ UNCHANGED <<rest, queue, fallback, intent>>
           /\ marks'.hold = disp.ep /\ marks'.resumed = marks.resumed
BY Types DEF Hold, At, MarkRec

LEMMA DropDoes ==
    ASSUME TypeOK, Drop
    PROVE  /\ disp.pc = "drop" /\ disp' = Idle /\ UNCHANGED <<rest, queue, fallback, intent>>
           /\ marks'.hold = 0 /\ marks'.resumed = marks.resumed
BY Types DEF Drop, At, MarkRec

LEMMA OwedDoes ==
    ASSUME TypeOK, Owed
    PROVE  /\ disp.pc = "owed" /\ UNCHANGED <<rest, queue, bus>>
           /\ disp'.ep = disp.ep /\ disp'.cut = disp.cut /\ disp'.err = disp.err
           /\ \/ /\ disp'.pc = "check" /\ disp'.i = 1 /\ disp'.here = {} /\ disp'.complete = disp.complete
                 /\ disp'.owed = disp.here \intersect (accepted \union disp.working)
              \/ disp'.pc = "back" /\ disp'.here = disp.here /\ disp'.owed = disp.owed /\ ~disp'.complete
<1> DEFINE o == disp.here \intersect (accepted \union disp.working)
           x == [[[[[disp EXCEPT !.pc = "check"] EXCEPT !.i = 1] EXCEPT !.here = {}] EXCEPT !.working = {}] EXCEPT !.owed = o]
           y == [[disp EXCEPT !.pc = "back"] EXCEPT !.complete = FALSE]
<1>0. disp \in PassRec
  BY Types
<1>1. disp' = x \/ disp' = y
  BY DEF Owed
<1>2. /\ x.pc = "check" /\ x.i = 1 /\ x.here = {} /\ x.complete = disp.complete /\ x.owed = o
      /\ x.ep = disp.ep /\ x.cut = disp.cut /\ x.err = disp.err
  BY <1>0 DEF PassRec
<1>3. /\ y.pc = "back" /\ y.here = disp.here /\ y.owed = disp.owed /\ ~y.complete
      /\ y.ep = disp.ep /\ y.cut = disp.cut /\ y.err = disp.err
  BY <1>0 DEF PassRec
<1> HIDE DEF x, y
<1> QED BY <1>1, <1>2, <1>3 DEF Owed, At

LEMMA CheckDoes ==
    ASSUME TypeOK, PassFits, Check
    PROVE  /\ disp.pc = "check" /\ disp.i \in DOMAIN Order /\ Order[disp.i] \in Agents /\ UNCHANGED <<rest, queue, bus>>
           /\ disp'.ep = disp.ep /\ disp'.cut = disp.cut /\ disp'.here = disp.here /\ disp'.owed = disp.owed
           /\ disp'.err => ~disp'.complete
           /\ \/ disp'.pc = "send" /\ disp'.i = disp.i /\ disp'.complete = disp.complete
                 /\ Order[disp.i] \in disp.owed /\ Order[disp.i] \notin intent
              \/ disp'.pc = Onward /\ disp'.i = disp.i + 1 /\ (disp'.complete => disp.complete)
                 /\ (Order[disp.i] \in disp.owed => ~disp'.complete)
<1>0. disp \in PassRec /\ disp.i \in DOMAIN Order /\ disp.pc = "check"
  BY Types DEF PassFits, Check, At
<1>1. Order[disp.i] \in Agents
  BY <1>0, Names
<1>2. (disp.err => ~disp.complete) /\ disp.complete \in BOOLEAN /\ disp.err \in BOOLEAN
  BY <1>0, PassMoves DEF PassFits
<1>3. ASSUME NEW why \in {"not owed", "swap", "earlier error"}, Skip(why), why = "not owed" => Order[disp.i] \notin disp.owed
      PROVE  /\ disp'.ep = disp.ep /\ disp'.cut = disp.cut /\ disp'.here = disp.here /\ disp'.owed = disp.owed
             /\ disp'.err => ~disp'.complete
             /\ disp'.pc = Onward /\ disp'.i = disp.i + 1 /\ (disp'.complete => disp.complete)
             /\ (Order[disp.i] \in disp.owed => ~disp'.complete)
  BY <1>0, <1>2, <1>3, SkipDoes
<1>4. CASE disp' = [disp EXCEPT !.pc = "send"] /\ InFlight(Order[disp.i]) /\ Order[disp.i] \notin intent
  <2>1. /\ disp'.ep = disp.ep /\ disp'.cut = disp.cut /\ disp'.here = disp.here /\ disp'.owed = disp.owed
        /\ disp'.err = disp.err /\ disp'.complete = disp.complete /\ disp'.pc = "send" /\ disp'.i = disp.i
    BY <1>0, <1>4 DEF PassRec
  <2> QED BY <2>1, <1>0, <1>1, <1>2, <1>4 DEF Check, InFlight
<1>5. CASE \E why \in {"not owed", "swap", "earlier error"} : Skip(why) /\ (why = "not owed" => Order[disp.i] \notin disp.owed)
  BY <1>5, <1>3, <1>0, <1>1 DEF Check
<1>6. \/ disp' = [disp EXCEPT !.pc = "send"] /\ InFlight(Order[disp.i]) /\ Order[disp.i] \notin intent
      \/ \E why \in {"not owed", "swap", "earlier error"} : Skip(why) /\ (why = "not owed" => Order[disp.i] \notin disp.owed)
  BY DEF Check, InFlight
<1> QED BY <1>4, <1>5, <1>6

LEMMA SendResumeDoes ==
    ASSUME TypeOK, PassFits, SendResume
    PROVE  /\ disp.pc = "send" /\ disp.i \in DOMAIN Order /\ Order[disp.i] \in Agents /\ Order[disp.i] \in disp.owed
           /\ UNCHANGED <<rest, fallback, intent>>
           /\ disp'.ep = disp.ep /\ disp'.cut = disp.cut /\ disp'.here = disp.here /\ disp'.owed = disp.owed
           /\ disp'.err => ~disp'.complete
           /\ disp'.pc = Onward /\ disp'.i = disp.i + 1 /\ (disp'.complete => disp.complete)
           /\ \/ Order[disp.i] \notin intent /\ EntryOnce(Order[disp.i], disp.ep, "release")
              \/ UNCHANGED <<queue, marks>> /\ ~disp'.complete
<1>0. disp \in PassRec /\ disp.i \in DOMAIN Order /\ disp.pc = "send" /\ Order[disp.i] \in disp.owed
  BY Types DEF PassFits, SendResume, At
<1>1. Order[disp.i] \in Agents
  BY <1>0, Names
<1>2. (disp.err => ~disp.complete) /\ disp.complete \in BOOLEAN /\ disp.err \in BOOLEAN
  BY <1>0, PassMoves DEF PassFits
<1>3. Skip("error") =>
             /\ disp'.ep = disp.ep /\ disp'.cut = disp.cut /\ disp'.here = disp.here /\ disp'.owed = disp.owed
             /\ disp'.err => ~disp'.complete
             /\ disp'.pc = Onward /\ disp'.i = disp.i + 1 /\ ~disp'.complete
  BY <1>0, <1>2, SkipDoes
<1> DEFINE x == [[[disp EXCEPT !.pc = Onward] EXCEPT !.i = disp.i + 1] EXCEPT !.told = TRUE]
<1>4. /\ x.ep = disp.ep /\ x.cut = disp.cut /\ x.here = disp.here /\ x.owed = disp.owed
      /\ x.err = disp.err /\ x.complete = disp.complete /\ x.pc = Onward /\ x.i = disp.i + 1
  BY <1>0 DEF PassRec
<1>5. \/ Skip("error") /\ UNCHANGED <<queue, marks>>
      \/ Order[disp.i] \notin intent /\ EntryOnce(Order[disp.i], disp.ep, "release") /\ (Skip("error") \/ disp' = x)
  BY DEF SendResume
<1> HIDE DEF x
<1>6. UNCHANGED <<rest, fallback, intent>>
  BY DEF SendResume
<1> QED BY <1>0, <1>1, <1>2, <1>3, <1>4, <1>5, <1>6

LEMMA NoticeDoes ==
    ASSUME TypeOK, Notice
    PROVE  /\ disp.pc = "told" /\ disp'.pc = "back" /\ UNCHANGED <<rest, queue, fallback, intent>>
           /\ disp'.ep = disp.ep /\ disp'.cut = disp.cut /\ disp'.here = disp.here /\ disp'.owed = disp.owed
           /\ disp'.err = disp.err /\ (disp'.complete => disp.complete)
           /\ marks'.hold = marks.hold /\ marks'.resumed = marks.resumed
<1>0. disp \in PassRec /\ marks \in MarkRec
  BY Types
<1> DEFINE y == [[disp EXCEPT !.pc = "back"] EXCEPT !.complete = FALSE]
           z == [disp EXCEPT !.pc = "back"]
<1>1. /\ y.pc = "back" /\ y.ep = disp.ep /\ y.cut = disp.cut /\ y.here = disp.here /\ y.owed = disp.owed
      /\ y.err = disp.err /\ ~y.complete
  BY <1>0 DEF PassRec
<1>2. /\ z.pc = "back" /\ z.ep = disp.ep /\ z.cut = disp.cut /\ z.here = disp.here /\ z.owed = disp.owed
      /\ z.err = disp.err /\ z.complete = disp.complete
  BY <1>0 DEF PassRec
<1>3. disp' = y \/ disp' = z
  BY DEF Notice
<1> HIDE DEF y, z
<1>4. marks'.hold = marks.hold /\ marks'.resumed = marks.resumed
  BY <1>0 DEF Notice, MarkRec
<1> QED BY <1>1, <1>2, <1>3, <1>4 DEF Notice, At

LEMMA BackDoes ==
    ASSUME TypeOK, Back
    PROVE  /\ disp.pc = "back" /\ UNCHANGED <<rest, queue, fallback, intent>>
           /\ marks'.hold = marks.hold /\ marks'.resumed = marks.resumed
           /\ \/ disp' = Idle
              \/ /\ disp'.pc = "drop" /\ disp.complete /\ disp'.complete
                 /\ disp'.ep = disp.ep /\ disp'.cut = disp.cut /\ disp'.here = disp.here /\ disp'.owed = disp.owed
                 /\ disp'.err = disp.err
<1>0. disp \in PassRec /\ marks \in MarkRec
  BY Types
<1> DEFINE z == [disp EXCEPT !.pc = "drop"]
           b == [a \in Agents |-> IF fallback[a] = disp.ep THEN disp.ep ELSE marks.back[a]]
<1>1. /\ z.pc = "drop" /\ z.ep = disp.ep /\ z.cut = disp.cut /\ z.here = disp.here /\ z.owed = disp.owed
      /\ z.err = disp.err /\ z.complete = disp.complete
  BY <1>0 DEF PassRec
<1>2. disp' = Idle \/ (disp' = z /\ disp.complete)
  BY DEF Back, After
<1>3. marks' = [marks EXCEPT !.back = b] \/ marks' = marks
  BY DEF Back
<1> HIDE DEF z, b
<1>4. marks'.hold = marks.hold /\ marks'.resumed = marks.resumed
  BY <1>0, <1>3 DEF MarkRec
<1> QED BY <1>1, <1>2, <1>4 DEF Back, At

LEMMA CrashDoes ==
    ASSUME CrashPass
    PROVE  disp.pc # "pass" /\ disp' = Idle /\ UNCHANGED <<rest, queue, bus>>
BY DEF CrashPass, At

\* The steps of a release that neither judge nor end it.
Goes == Owed \/ Check \/ SendResume \/ Notice

LEMMA OnwardIs ==
    ASSUME disp.i \in DOMAIN Order
    PROVE  /\ Onward = "check" => disp.i + 1 \in DOMAIN Order
           /\ Onward = "told" => \A j \in DOMAIN Order : j < disp.i + 1
           /\ Onward \in {"check", "told"}
<1> DEFINE L == Len(Order)
<1>1. L \in Nat /\ DOMAIN Order = 1 .. L
  BY Names
<1>2. Onward = IF disp.i < L THEN "check" ELSE "told"
  BY DEF Onward
<1> HIDE DEF L
<1> QED BY <1>1, <1>2

-----------------------------------------------------------------------------
(* The hold, the window and the position of a pass.                         *)

LEMMA PassFitsStep == TypeOK /\ PassFits /\ [Next]_vars => PassFits'
<1> SUFFICES ASSUME TypeOK, PassFits, [Next]_vars PROVE PassFits'
  OBVIOUS
<1>0. /\ marks.hold <= limit.window /\ limit.window \in Nat \ {0} /\ marks.hold \in Nat /\ disp.ep \in Nat
      /\ disp \in PassRec /\ disp.ep <= limit.window
  BY Types, PassMoves DEF PassFits, LimitRec, MarkRec
<1>i. Idle.pc = "pass" /\ Idle.ep = 0 /\ Idle.err = FALSE
  BY Rests
<1>1. CASE UNCHANGED vars
  BY <1>1 DEF vars, PassFits, Releasing
<1>2. CASE Hit \/ Reset \/ Lift
  <2>1. UNCHANGED <<disp, marks>> /\ limit.window <= limit'.window /\ limit'.window \in Nat
    BY <1>2, LimitTypes DEF bus, LimitRec
  <2>2. disp.ep <= limit'.window
    BY <2>1, <1>0
  <2> QED BY <2>1, <2>2 DEF PassFits, Releasing
<1>3. CASE Swapper \/ Die \/ \E a \in Agents : Preflight(a)
  <2>1. UNCHANGED <<limit, disp>> /\ marks'.hold = marks.hold
    BY <1>3, SwapTypes
  <2> QED BY <2>1 DEF PassFits, Releasing
<1>4. CASE \E a \in Agents : Agent(a)
  <2>1. UNCHANGED <<limit, marks>>
    BY <1>4, AgentTypes
  <2>2. \/ disp' = disp
        \/ \E a \in Agents : disp' = [disp EXCEPT !.cut = disp.cut \ {a}]
    BY <1>4 DEF Agent, StartTurn, Finish, Cut, Take, Read, Register, Respawn, Expire, others
  <2>3. /\ disp'.pc = disp.pc /\ disp'.ep = disp.ep /\ disp'.i = disp.i /\ disp'.owed = disp.owed
        /\ disp'.complete = disp.complete /\ disp'.err = disp.err
    BY <2>2, <1>0 DEF PassRec
  <2> QED BY <2>1, <2>3 DEF PassFits, Releasing
<1>5. CASE Judge
  BY <1>5, <1>0, <1>i, JudgeDoes DEF PassFits, Releasing, rest, bus
<1>6. CASE Forget
  BY <1>6, <1>0, ForgetDoes DEF PassFits, Releasing, rest
<1>7. CASE Hold \/ Drop \/ CrashPass
  <2>1. disp' = Idle /\ limit' = limit
    BY <1>7, HoldDoes, DropDoes, CrashDoes DEF rest
  <2> QED BY <2>1, <1>i, <1>0 DEF PassFits, Releasing
<1>8. CASE Owed
  BY <1>8, <1>0, OwedDoes, Names DEF PassFits, Releasing, rest, bus
<1>9. CASE Check
  <2>1. UNCHANGED <<limit, marks>> /\ marks.hold # 0 /\ disp.ep = marks.hold
    BY <1>9, CheckDoes DEF PassFits, Releasing, rest, bus
  <2>2. disp'.pc = "check" => disp'.i \in DOMAIN Order
    BY <1>9, CheckDoes, OnwardIs
  <2>3. disp'.pc \in {"check", "send", "told"} /\ (disp'.pc = "send" => disp'.i \in DOMAIN Order /\ Order[disp'.i] \in disp'.owed)
    BY <1>9, CheckDoes, OnwardIs
  <2>4. disp'.ep = disp.ep /\ (disp'.err => ~disp'.complete)
    BY <1>9, CheckDoes
  <2> QED BY <2>1, <2>2, <2>3, <2>4, <1>0 DEF PassFits, Releasing
<1>10. CASE SendResume
  <2>1. UNCHANGED limit /\ marks.hold # 0 /\ disp.ep = marks.hold
    BY <1>10, SendResumeDoes DEF PassFits, Releasing, rest
  <2>2. disp'.pc = "check" => disp'.i \in DOMAIN Order
    BY <1>10, SendResumeDoes, OnwardIs
  <2>3. disp'.pc \in {"check", "told"}
    BY <1>10, SendResumeDoes, OnwardIs
  <2>4. disp'.ep = disp.ep /\ (disp'.err => ~disp'.complete)
    BY <1>10, SendResumeDoes
  <2>5. marks'.hold = marks.hold
    BY <1>10, <2>3, PassTypes DEF Pass, Dispatcher, Hold, Drop, At, SendResume
  <2> QED BY <2>1, <2>2, <2>3, <2>4, <2>5, <1>0 DEF PassFits, Releasing
<1>11. CASE Notice
  BY <1>11, <1>0, NoticeDoes DEF PassFits, Releasing, rest
<1>12. CASE Back
  BY <1>12, <1>0, <1>i, BackDoes DEF PassFits, Releasing, rest
<1> QED BY <1>1, <1>2, <1>3, <1>4, <1>5, <1>6, <1>7, <1>8, <1>9, <1>10, <1>11, <1>12 DEF Next, Dispatcher

-----------------------------------------------------------------------------
(* The floor, and what a step does to the entries and the mark of an agent. *)

LEMMA FloorGrows ==
    ASSUME TypeOK, PassFits, [Next]_vars
    PROVE  /\ Floor \in Nat /\ Floor # 0 /\ Floor' \in Nat /\ Floor <= Floor' /\ Floor <= limit.window
           /\ Forget \/ Judge \/ SendResume => Floor' = Floor
<1>0. /\ marks.hold <= limit.window /\ limit.window \in Nat \ {0} /\ marks.hold \in Nat /\ disp.ep \in Nat
      /\ disp \in PassRec /\ disp.ep <= limit.window
  BY Types, PassMoves DEF PassFits, LimitRec, MarkRec
<1>n. /\ marks'.hold <= limit'.window /\ limit'.window \in Nat \ {0} /\ marks'.hold \in Nat /\ disp'.ep \in Nat
      /\ disp'.ep <= limit'.window
  <2>1. TypeOK' /\ PassFits'
    BY TypeStep, PassFitsStep
  <2> QED BY <2>1 DEF PassFits, TypeOK
<1>f. /\ Floor \in Nat /\ Floor # 0 /\ Floor' \in Nat /\ Floor <= limit.window
      /\ (disp.pc \in {"forget", "hold"} => marks.hold <= disp.ep) /\ Floor' <= limit'.window
  BY <1>0, <1>n DEF Floor, PassFits
<1>1. CASE marks'.hold = marks.hold /\ limit' = limit /\ (disp.pc \in {"forget", "hold"} <=> disp'.pc \in {"forget", "hold"})
           /\ (disp.pc \in {"forget", "hold"} => disp'.ep = disp.ep)
  BY <1>1, <1>f DEF Floor
<1>2. CASE UNCHANGED vars
  BY <1>1, <1>2 DEF vars
<1>3. CASE Hit \/ Reset \/ Lift
  <2>1. limit.window <= limit'.window /\ UNCHANGED <<disp, marks>>
    BY <1>3, LimitTypes DEF bus
  <2>2. Floor <= Floor'
    BY <2>1, <1>0, <1>n DEF Floor
  <2>3. ~Forget /\ ~Judge /\ ~SendResume
    <3>1. limit \in LimitRec
      BY Types
    <3>2. limit'.full # limit.full
      BY <3>1, <1>3 DEF Hit, Reset, Lift, LimitRec
    <3> QED BY <3>2 DEF Forget, Judge, SendResume, rest
  <2> QED BY <2>2, <2>3, <1>f
<1>4. CASE Swapper \/ Die \/ \E a \in Agents : Preflight(a)
  BY <1>4, <1>1, SwapTypes
<1>5. CASE \E a \in Agents : Agent(a)
  <2>1. UNCHANGED <<limit, marks>>
    BY <1>5, AgentTypes
  <2>2. \/ disp' = disp
        \/ \E a \in Agents : disp' = [disp EXCEPT !.cut = disp.cut \ {a}]
    BY <1>5 DEF Agent, StartTurn, Finish, Cut, Take, Read, Register, Respawn, Expire, others
  <2>3. disp'.pc = disp.pc /\ disp'.ep = disp.ep
    BY <2>2, <1>0 DEF PassRec
  <2> QED BY <2>1, <2>3, <1>1
<1>6. CASE Judge
  <2>1. limit' = limit /\ marks' = marks
    BY <1>6, JudgeDoes DEF rest, bus
  <2>2. disp.pc = "pass" /\ (disp'.pc \in {"forget", "hold"} => disp'.ep = limit.window)
    BY <1>6, JudgeDoes, Rests
  <2> QED BY <2>1, <2>2, <1>f DEF Floor
<1>7. CASE Forget
  BY <1>7, <1>1, ForgetDoes DEF rest
<1>8. CASE Hold
  <2>1. limit' = limit /\ marks'.hold = disp.ep /\ disp.pc = "hold" /\ disp.ep # 0
    BY <1>8, HoldDoes DEF rest, PassFits
  <2>2. Floor' = disp.ep /\ Floor <= Floor'
    BY <2>1, <1>0, <1>f DEF Floor
  <2> QED BY <2>1, <2>2, <1>f DEF Forget, Judge, SendResume, At
<1>9. CASE Drop
  <2>1. limit' = limit /\ marks'.hold = 0 /\ disp.pc = "drop" /\ disp'.pc = "pass"
    BY <1>9, DropDoes, Rests DEF rest
  <2>2. Floor' = limit.window
    BY <2>1 DEF Floor
  <2> QED BY <2>1, <2>2, <1>f DEF Forget, Judge, SendResume, At
<1>10. CASE CrashPass
  <2>1. limit' = limit /\ marks' = marks /\ disp'.pc = "pass"
    BY <1>10, CrashDoes, Rests DEF rest, bus
  <2>2. Floor <= Floor'
    BY <2>1, <1>0, <1>f DEF Floor
  <2>3. Forget \/ Judge \/ SendResume => Floor' = Floor
    <3>1. ~Forget /\ (Judge => disp.pc = "pass") /\ disp.pc # "pass"
      BY <1>10, <2>1, CrashDoes, ForgetDoes, JudgeDoes
    <3>2. SendResume => marks.hold # 0
      BY SendResumeDoes DEF PassFits, Releasing
    <3> QED BY <3>1, <3>2, <2>1 DEF Floor
  <2> QED BY <2>2, <2>3, <1>f
<1>11. CASE Owed \/ Check \/ SendResume \/ Notice \/ Back
  <2>1. limit' = limit /\ marks.hold # 0 /\ disp.pc \notin {"hold", "drop"}
    BY <1>11, OwedDoes, CheckDoes, SendResumeDoes, NoticeDoes, BackDoes DEF rest, PassFits, Releasing
  <2>2. marks'.hold = marks.hold
    BY <2>1, <1>11, PassTypes DEF Pass, Dispatcher, Hold, Drop, At
  <2> QED BY <2>1, <2>2, <1>f DEF Floor
<1> QED BY <1>2, <1>3, <1>4, <1>5, <1>6, <1>7, <1>8, <1>9, <1>10, <1>11 DEF Next, Dispatcher

\* The entries of an agent stay, but for being taken and read; or one more comes.
KeepsQueue(a) ==
    /\ DOMAIN queue'[a] = DOMAIN queue[a]
    /\ \A i \in DOMAIN queue[a] :
           /\ queue'[a][i].ep = queue[a][i].ep /\ queue'[a][i].by = queue[a][i].by
           /\ queue[a][i].st = "read" => queue'[a][i].st = "read"
Gets(a, ep, by) ==
    \E n \in Nat :
        /\ n \notin DOMAIN queue[a] /\ DOMAIN queue'[a] = DOMAIN queue[a] \union {n}
        /\ \A i \in DOMAIN queue[a] : queue'[a][i] = queue[a][i]
        /\ queue'[a][n].ep = ep /\ queue'[a][n].by = by
Keeps(a) == KeepsQueue(a) /\ marks'.resumed[a] = marks.resumed[a]
Forgets(a) == Forget /\ a \in disp.stale /\ queue' = queue /\ marks'.resumed[a] = 0
Releases(a) ==
    /\ SendResume /\ a = Order[disp.i] /\ a \in disp.owed /\ a \notin intent
    /\ marks.resumed[a] # disp.ep /\ marks'.resumed[a] = disp.ep /\ Gets(a, disp.ep, "release")
Resumes(a) ==
    /\ SwapResume /\ a = Role /\ swap'.pc = "end" /\ swap.pc = "resume"
    /\ \/ /\ swap.ep # 0 /\ marks.resumed[a] # swap.ep /\ marks'.resumed[a] = swap.ep
          /\ Gets(a, swap.ep, "swap")
       \/ /\ swap.ep = 0 \/ marks.resumed[a] = swap.ep
          /\ marks'.resumed[a] = marks.resumed[a] /\ Gets(a, 0, "swap")

LEMMA Sending ==
    ASSUME queue \in [Agents -> Seq(Entries)], NEW a \in Agents, NEW ep \in Nat, NEW by \in {"release", "swap"}, Send(a, Entry(ep, by))
    PROVE  Gets(a, ep, by) /\ \A b \in Agents : b # a => queue'[b] = queue[b]
<1>1. Entry(ep, by) \in Entries /\ Entry(ep, by).ep = ep /\ Entry(ep, by).by = by
  BY EntryType
<1>2. Len(queue[a]) + 1 \in Nat
  BY EntriesAre
<1> QED BY <1>1, <1>2, SendDoes DEF Gets

LEMMA SwapDoes ==
    ASSUME TypeOK, Swapper \/ Die \/ \E b \in Agents : Preflight(b), NEW a \in Agents
    PROVE  /\ Keeps(a) \/ Resumes(a)
           /\ ~SwapResume => UNCHANGED <<queue, marks>>
<1>0. queue \in [Agents -> Seq(Entries)] /\ marks \in MarkRec /\ Role \in Agents /\ swap.ep \in Nat /\ swap \in SwapRec
  BY Types DEF Role, SwapRec
<1>1. CASE SwapResume
  <2>1. swap.pc = "resume" /\ swap'.pc = "end"
    BY <1>1, <1>0 DEF SwapResume, To, SwapAt, SwapRec
  <2>2. CASE swap.ep # 0 /\ marks.resumed[Role] # swap.ep /\ EntryOnce(Role, swap.ep, "swap")
    <3>1. /\ Send(Role, Entry(swap.ep, "swap")) /\ marks'.resumed[Role] = swap.ep
          /\ \A b \in Agents : b # Role => marks'.resumed[b] = marks.resumed[b]
      BY <2>2, <1>0, EntryOnceDoes
    <3>2. Gets(Role, swap.ep, "swap") /\ \A b \in Agents : b # Role => queue'[b] = queue[b]
      BY <3>1, <1>0, Sending
    <3> QED BY <3>1, <3>2, <2>1, <2>2, <1>1 DEF Keeps, KeepsQueue, Resumes
  <2>3. CASE (swap.ep = 0 \/ marks.resumed[Role] = swap.ep) /\ Send(Role, Entry(0, "swap")) /\ UNCHANGED marks
    <3>1. Gets(Role, 0, "swap") /\ \A b \in Agents : b # Role => queue'[b] = queue[b]
      BY <2>3, <1>0, Sending
    <3> QED BY <3>1, <2>1, <2>3, <1>1 DEF Keeps, KeepsQueue, Resumes
  <2>4. CASE UNCHANGED <<queue, marks>>
    BY <2>4, <1>1 DEF Keeps, KeepsQueue
  <2> QED BY <2>2, <2>3, <2>4, <1>1 DEF SwapResume
<1>2. CASE ~SwapResume
  <2>1. UNCHANGED <<queue, marks>>
    BY <1>2 DEF Swapper, BeginSwap, ClosePane, Launch, Prove, FinishSwap, Work, Queued, EndSwap, Die, Preflight, bus
  <2> QED BY <2>1, <1>2 DEF Keeps, KeepsQueue
<1> QED BY <1>1, <1>2

LEMMA AgentDoes ==
    ASSUME TypeOK, NEW a \in Agents, Agent(a)
    PROVE  /\ disp'.pc = disp.pc /\ disp'.ep = disp.ep /\ disp'.i = disp.i /\ disp'.owed = disp.owed /\ disp'.here = disp.here
           /\ disp'.working = disp.working /\ disp'.complete = disp.complete /\ disp'.stale = disp.stale
           /\ UNCHANGED <<limit, marks, swap>> /\ (swap.pc = "off" \/ intent' = intent)
           /\ \A b \in Agents : Keeps(b)
<1>0. queue \in [Agents -> Seq(Entries)] /\ disp \in PassRec
  BY Types
<1>1. UNCHANGED <<limit, marks, swap>>
  BY AgentTypes
<1>2. \/ disp' = disp
      \/ disp' = [disp EXCEPT !.cut = disp.cut \ {a}]
  BY DEF Agent, StartTurn, Finish, Cut, Take, Read, Register, Respawn, Expire, others
<1>3. /\ disp'.pc = disp.pc /\ disp'.ep = disp.ep /\ disp'.i = disp.i /\ disp'.owed = disp.owed /\ disp'.here = disp.here
      /\ disp'.working = disp.working /\ disp'.complete = disp.complete /\ disp'.stale = disp.stale
  BY <1>2, <1>0 DEF PassRec
<1>4. swap.pc = "off" \/ intent' = intent
  BY DEF Agent, StartTurn, Finish, Cut, Take, Read, Register, Respawn, Expire, bus, SwapAt
<1>5. CASE queue' = queue
  BY <1>1, <1>3, <1>4, <1>5 DEF Keeps, KeepsQueue
<1>6. CASE Take(a) \/ Read(a)
  <2>1. PICK i \in DOMAIN queue[a], st \in {"pending", "read"} : Marked(a, i, st) /\ queue[a][i].st # "read"
    BY <1>6 DEF Take, Read, First, Marked
  <2>2. \A b \in Agents : KeepsQueue(b)
    <3>1. /\ \A b \in Agents : b # a => queue'[b] = queue[b]
          /\ DOMAIN queue'[a] = DOMAIN queue[a]
          /\ \A j \in DOMAIN queue[a] : j # i => queue'[a][j] = queue[a][j]
          /\ queue'[a][i].ep = queue[a][i].ep /\ queue'[a][i].by = queue[a][i].by
      BY <2>1, <1>0, MarkedDoes
    <3>2. KeepsQueue(a)
      BY <3>1, <2>1 DEF KeepsQueue
    <3>3. \A b \in Agents : b # a => KeepsQueue(b)
      BY <3>1 DEF KeepsQueue
    <3> QED BY <3>2, <3>3
  <2> QED BY <2>2, <1>1, <1>3, <1>4 DEF Keeps
<1> QED BY <1>5, <1>6 DEF Agent, StartTurn, Finish, Cut, Register, Respawn, Expire

LEMMA PassDoes ==
    ASSUME TypeOK, PassFits, Pass, NEW a \in Agents
    PROVE  Keeps(a) \/ Forgets(a) \/ Releases(a)
<1>0. queue \in [Agents -> Seq(Entries)] /\ marks \in MarkRec /\ disp \in PassRec /\ disp.ep \in Nat
  BY Types, PassMoves
<1>1. CASE Forget
  BY <1>1, ForgetDoes DEF Keeps, KeepsQueue, Forgets
<1>2. CASE SendResume
  <2>1. CASE UNCHANGED <<queue, marks>>
    BY <2>1 DEF Keeps, KeepsQueue
  <2>2. CASE Order[disp.i] \notin intent /\ EntryOnce(Order[disp.i], disp.ep, "release")
    <3> DEFINE r == Order[disp.i]
    <3>1. r \in Agents /\ r \in disp.owed
      BY <1>2, SendResumeDoes
    <3> HIDE DEF r
    <3>2. EntryOnce(r, disp.ep, "release") /\ r \notin intent
      BY <2>2 DEF r
    <3>3. /\ marks'.resumed[r] = disp.ep /\ \A b \in Agents : b # r => marks'.resumed[b] = marks.resumed[b]
          /\ marks.resumed[r] = disp.ep => UNCHANGED <<queue, marks>>
          /\ marks.resumed[r] # disp.ep => Send(r, Entry(disp.ep, "release"))
      BY <3>1, <3>2, <1>0, EntryOnceDoes
    <3>4. CASE marks.resumed[r] = disp.ep
      BY <3>3, <3>4 DEF Keeps, KeepsQueue
    <3>5. CASE marks.resumed[r] # disp.ep
      <4>1. Gets(r, disp.ep, "release") /\ \A b \in Agents : b # r => queue'[b] = queue[b]
        BY <3>3, <3>5, <3>1, <1>0, Sending
      <4> QED BY <4>1, <3>1, <3>2, <3>3, <3>5, <1>2 DEF Keeps, KeepsQueue, Releases, r
    <3> QED BY <3>4, <3>5
  <2> QED BY <2>1, <2>2, <1>2, SendResumeDoes
<1>3. CASE Judge \/ Hold \/ Owed \/ Check \/ Notice \/ Back \/ Drop \/ CrashPass
  <2>1. queue' = queue /\ marks'.resumed = marks.resumed
    BY <1>3, JudgeDoes, HoldDoes, OwedDoes, CheckDoes, NoticeDoes, BackDoes, DropDoes, CrashDoes DEF bus
  <2> QED BY <2>1 DEF Keeps, KeepsQueue
<1> QED BY <1>1, <1>2, <1>3 DEF Pass, Dispatcher

\* Every step, at the entries and the mark of one agent.
LEMMA StepDoes ==
    ASSUME TypeOK, PassFits, [Next]_vars, NEW a \in Agents
    PROVE  Keeps(a) \/ Forgets(a) \/ Releases(a) \/ Resumes(a)
<1>1. CASE UNCHANGED vars
  BY <1>1 DEF vars, Keeps, KeepsQueue
<1>2. CASE Hit \/ Reset \/ Lift
  BY <1>2, LimitTypes DEF bus, Keeps, KeepsQueue
<1> QED BY <1>1, <1>2, SwapDoes, AgentDoes, PassDoes DEF Next, Pass

-----------------------------------------------------------------------------
(* The agents.                                                              *)

\* What an agent's own steps do to its process, its snapshot and the board.
LEMMA AgentMoves ==
    ASSUME TypeOK, ClientsFit, NEW a \in Agents, Agent(a)
    PROVE  /\ \A b \in Agents : b # a => /\ agent'[b] = agent[b] /\ snap'[b] = snap[b]
                                         /\ (b \in accepted' <=> b \in accepted)
           /\ ClientFits(a)'
           /\ agent[a].on = "q" => agent'[a].on = "q"
           /\ agent[a].on = "q" /\ snap[a].on = "q" => snap'[a].on = "q"
           /\ swap.pc # "off" => agent'[a].on = agent[a].on
           /\ Waits(a)' => Waits(a) /\ (a \in accepted => a \in accepted')
           /\ \A b \in Agents : b # a => (b \in disp'.cut <=> b \in disp.cut)
<1>0. agent \in [Agents -> AgentRec] /\ snap \in [Agents -> SnapRec] /\ accepted \subseteq Agents /\ disp \in PassRec /\ limit \in LimitRec
  BY Types
<1>u. /\ agent[a] \in AgentRec /\ snap[a] \in SnapRec
      /\ agent[a].proc \in Nat /\ snap[a].proc \in Nat /\ agent[a].by \in Nat
      /\ agent[a].on \in {"p", "q", "none"} /\ snap[a].on \in {"p", "q"}
  BY <1>0 DEF AgentRec, SnapRec, Procs
<1>c. ClientFits(a)
  BY DEF ClientsFit
<1> DEFINE S(pr, on, w) == [proc |-> pr, on |-> on, working |-> w]
<1>1. CASE StartTurn(a)
  <2>1. agent' = [agent EXCEPT ![a] = [agent[a] EXCEPT !.turn = "run"]]
    BY <1>1, <1>0 DEF StartTurn
  <2>2. /\ agent'[a].turn = "run" /\ agent'[a].on = agent[a].on /\ agent'[a].proc = agent[a].proc /\ agent'[a].by = agent[a].by
        /\ \A b \in Agents : b # a => agent'[b] = agent[b]
    BY <2>1, <1>0, <1>u DEF AgentRec
  <2>3. /\ disp' = disp /\ agent[a].on # "none" /\ \A b \in Agents : b # a => snap'[b] = snap[b] /\ (b \in accepted' <=> b \in accepted)
        /\ \/ snap' = snap /\ a \in accepted'
           \/ snap'[a].proc = agent[a].proc /\ snap'[a].on = agent[a].on /\ snap'[a].working /\ accepted' = accepted
    BY <1>1, <1>0 DEF StartTurn, Running
  <2>4. ClientFits(a)'
    BY <2>2, <2>3, <1>c, <1>u DEF ClientFits
  <2> QED BY <2>2, <2>3, <2>4, <1>u DEF Waits
<1>2. CASE Finish(a)
  <2>1. agent' = [agent EXCEPT ![a] = [agent[a] EXCEPT !.turn = "none"]]
    BY <1>2, <1>0 DEF Finish
  <2>2. /\ agent'[a].turn = "none" /\ agent'[a].on = agent[a].on /\ agent'[a].proc = agent[a].proc /\ agent'[a].by = agent[a].by
        /\ \A b \in Agents : b # a => agent'[b] = agent[b]
    BY <2>1, <1>0, <1>u DEF AgentRec
  <2>3. /\ disp' = disp /\ agent[a].on # "none" /\ \A b \in Agents : b # a => snap'[b] = snap[b] /\ (b \in accepted' <=> b \in accepted)
        /\ snap'[a].proc = agent[a].proc /\ snap'[a].on = agent[a].on
    BY <1>2, <1>0 DEF Finish, Running
  <2>4. ClientFits(a)'
    BY <2>2, <2>3, <1>c, <1>u DEF ClientFits
  <2> QED BY <2>2, <2>3, <2>4, <1>u DEF Waits
<1>3. CASE Cut(a)
  <2>1. agent' = [agent EXCEPT ![a] = [[agent[a] EXCEPT !.turn = "cut"] EXCEPT !.by = limit.window]]
    BY <1>3, <1>0 DEF Cut
  <2>2. /\ agent[a].turn = "run" /\ agent[a].on = "p" /\ agent'[a].on = "p" /\ agent'[a].proc = agent[a].proc
        /\ \A b \in Agents : b # a => agent'[b] = agent[b]
    BY <2>1, <1>3, <1>0, <1>u DEF AgentRec, Cut
  <2>3. snap' = snap /\ accepted' = accepted
    BY <1>3 DEF Cut
  <2>4. disp'.cut = disp.cut \ {a}
    BY <1>3, <1>0 DEF Cut, PassRec
  <2>5. ClientFits(a)'
    BY <2>2, <2>3, <1>c, <1>u DEF ClientFits
  <2> QED BY <2>2, <2>3, <2>4, <2>5, <1>u DEF Waits
<1>4. CASE Take(a) \/ Expire(a)
  <2>1. UNCHANGED <<agent, snap, accepted, disp>>
    BY <1>4 DEF Take, Expire, clients, others
  <2> QED BY <2>1, <1>c DEF ClientFits, Waits
<1>5. CASE Read(a)
  <2>1. UNCHANGED <<snap, accepted, disp>>
    BY <1>5 DEF Read
  <2>2. agent' = agent \/ (agent[a].turn = "cut" /\ agent' = [agent EXCEPT ![a] = [agent[a] EXCEPT !.turn = "run"]])
    BY <1>5, <1>0 DEF Read
  <2>3. CASE agent' = agent
    BY <2>1, <2>3, <1>c DEF ClientFits, Waits
  <2>4. CASE agent[a].turn = "cut" /\ agent' = [agent EXCEPT ![a] = [agent[a] EXCEPT !.turn = "run"]]
    <3>1. /\ agent'[a].turn = "run" /\ agent'[a].on = agent[a].on /\ agent'[a].proc = agent[a].proc /\ agent'[a].by = agent[a].by
          /\ \A b \in Agents : b # a => agent'[b] = agent[b]
      BY <2>4, <1>0, <1>u DEF AgentRec
    <3>2. ClientFits(a)'
      BY <3>1, <2>1, <2>4, <1>c, <1>u DEF ClientFits
    <3> QED BY <3>1, <3>2, <2>1 DEF Waits
  <2> QED BY <2>2, <2>3, <2>4
<1>6. CASE Register(a)
  <2>1. UNCHANGED <<agent, accepted, disp>> /\ agent[a].on # "none"
    BY <1>6 DEF Register, Running
  <2>2. snap' = [snap EXCEPT ![a] = [[snap[a] EXCEPT !.proc = agent[a].proc] EXCEPT !.on = agent[a].on]]
    BY <1>6, <1>0 DEF Register
  <2>3. /\ snap'[a].proc = agent[a].proc /\ snap'[a].on = agent[a].on /\ snap'[a].working = snap[a].working
        /\ \A b \in Agents : b # a => snap'[b] = snap[b]
    BY <2>2, <1>0, <1>u DEF SnapRec
  <2>4. ClientFits(a)'
    BY <2>1, <2>3, <1>c, <1>u DEF ClientFits
  <2> QED BY <2>1, <2>3, <2>4 DEF Waits
<1>7. CASE Respawn(a)
  <2>1. UNCHANGED <<snap, accepted, disp>> /\ agent[a].on = "none" /\ swap.pc = "off"
    BY <1>7 DEF Respawn, Running
  <2>2. agent' = [agent EXCEPT ![a] = [[agent[a] EXCEPT !.proc = agent[a].proc + 1] EXCEPT !.on = "p"]]
    BY <1>7, <1>0 DEF Respawn
  <2>3. /\ agent'[a].proc = agent[a].proc + 1 /\ agent'[a].on = "p" /\ agent'[a].turn = agent[a].turn /\ agent'[a].by = agent[a].by
        /\ \A b \in Agents : b # a => agent'[b] = agent[b]
    BY <2>2, <1>0, <1>u DEF AgentRec
  <2>4. ClientFits(a)'
    BY <2>1, <2>3, <1>c, <1>u DEF ClientFits
  <2> QED BY <2>1, <2>3, <2>4 DEF Waits
<1> QED BY <1>1, <1>2, <1>3, <1>4, <1>5, <1>6, <1>7 DEF Agent

\* What a swap does to its agent's process.
LEMMA SwapMoves ==
    ASSUME TypeOK, ClientsFit, SwapFits, Swapper \/ Die \/ \E b \in Agents : Preflight(b), NEW r \in Agents, r = Role
    PROVE  /\ \A b \in Agents : b # r => agent'[b] = agent[b]
           /\ ClientFits(r)'
           /\ agent' = agent \/ (/\ (swap.pc = "close" /\ swap'.pc = "launch" /\ agent'[r].on = "none")
                                    \/ (swap.pc = "launch" /\ swap'.pc = "prove" /\ agent'[r].on = "q")
                                 /\ ~Waits(r)')
<1>0. agent \in [Agents -> AgentRec] /\ snap \in [Agents -> SnapRec] /\ swap \in SwapRec /\ r \in Agents
  BY Types DEF Role, SwapRec
<1>s. UNCHANGED <<disp, accepted, snap>>
  BY SwapTypes
<1>u. /\ agent[r] \in AgentRec /\ snap[r] \in SnapRec
      /\ agent[r].proc \in Nat /\ snap[r].proc \in Nat
  BY <1>0 DEF AgentRec, SnapRec, Procs
<1>c. ClientFits(r)
  BY <1>0 DEF ClientsFit
<1>1. CASE agent' = agent
  BY <1>1, <1>s, <1>c, <1>0 DEF ClientFits, Waits
<1>2. CASE ClosePane /\ agent' = Lost(r)
  <2>1. (swap.pc = "close" /\ swap'.pc = "launch") \/ agent' = agent
    BY <1>2, <1>0 DEF ClosePane, SwapAt, To, SwapRec
  <2> DEFINE t == IF agent[r].turn = "none" THEN agent[r].turn ELSE "cut"
  <2>2. Lost(r) = [agent EXCEPT ![r] = [[[agent[r] EXCEPT !.on = "none"] EXCEPT !.by = 0] EXCEPT !.turn = t]]
    BY <1>0 DEF Lost
  <2> HIDE DEF t
  <2>3. /\ agent'[r].on = "none" /\ agent'[r].by = 0 /\ agent'[r].turn = t /\ agent'[r].proc = agent[r].proc
        /\ \A b \in Agents : b # r => agent'[b] = agent[b]
    BY <2>2, <1>2, <1>0, <1>u DEF AgentRec
  <2>4. agent[r].on = "p"
    BY <1>2 DEF ClosePane, SwapAt, SwapFits
  <2>5. t # "none" => agent[r].turn # "none"
    BY DEF t
  <2>6. ClientFits(r)'
    BY <2>3, <2>4, <2>5, <1>s, <1>c, <1>u DEF ClientFits
  <2> QED BY <2>1, <2>3, <2>6, <1>0, <1>1 DEF Waits
<1>3. CASE Launch /\ agent' # agent
  <2>1. swap.pc = "launch" /\ swap'.pc = "prove"
    BY <1>3, <1>0 DEF Launch, SwapAt, To, SwapRec
  <2>2. agent' = [agent EXCEPT ![r] = [[agent[r] EXCEPT !.proc = agent[r].proc + 1] EXCEPT !.on = "q"]]
    BY <1>3, <1>0 DEF Launch
  <2>3. /\ agent'[r].on = "q" /\ agent'[r].by = agent[r].by /\ agent'[r].turn = agent[r].turn
        /\ agent'[r].proc = agent[r].proc + 1
        /\ \A b \in Agents : b # r => agent'[b] = agent[b]
    BY <2>2, <1>0, <1>u DEF AgentRec
  <2>4. agent[r].on = "none" /\ agent[r].by = 0
    BY <2>1, <1>c DEF SwapFits, ClientFits
  <2>6. ClientFits(r)'
    BY <2>3, <2>4, <1>s, <1>c, <1>u DEF ClientFits
  <2> QED BY <2>1, <2>3, <2>4, <2>6, <1>0 DEF Waits
<1>4. agent' = agent \/ (ClosePane /\ agent' = Lost(r)) \/ (Launch /\ agent' # agent)
  BY DEF Swapper, BeginSwap, ClosePane, Launch, Prove, FinishSwap, Work, Queued, SwapResume, EndSwap, Die, Preflight, clients
<1> QED BY <1>1, <1>2, <1>3, <1>4

LEMMA ClientsFitStep == TypeOK /\ PassFits /\ ClientsFit /\ SwapFits /\ [Next]_vars => ClientsFit'
<1> SUFFICES ASSUME TypeOK, PassFits, ClientsFit, SwapFits, [Next]_vars, NEW b \in Agents PROVE ClientFits(b)'
  BY DEF ClientsFit
<1>0. ClientFits(b)
  BY DEF ClientsFit
<1>1. CASE UNCHANGED <<agent, snap, accepted>>
  BY <1>0, <1>1 DEF ClientFits
<1>2. CASE Swapper \/ Die \/ \E a \in Agents : Preflight(a)
  <2>1. CASE b = Role
    BY <1>2, <2>1, SwapMoves
  <2>2. CASE b # Role
    <3>1. Role \in Agents /\ UNCHANGED <<snap, accepted>>
      BY <1>2, SwapTypes, Types DEF Role, SwapRec
    <3>2. agent'[b] = agent[b]
      BY <3>1, <2>2, <1>2, SwapMoves
    <3> QED BY <3>1, <3>2, <1>0 DEF ClientFits
  <2> QED BY <2>1, <2>2
<1>3. CASE \E a \in Agents : Agent(a)
  <2> PICK a \in Agents : Agent(a)
    BY <1>3
  <2>1. CASE b = a
    BY <2>1, AgentMoves
  <2>2. CASE b # a
    <3>1. agent'[b] = agent[b] /\ snap'[b] = snap[b] /\ (b \in accepted' <=> b \in accepted)
      BY <2>2, AgentMoves
    <3> QED BY <3>1, <1>0 DEF ClientFits
  <2> QED BY <2>1, <2>2
<1>4. CASE Pass
  BY <1>4, <1>1, PassTypes DEF rest, clients
<1>5. CASE Hit \/ Reset \/ Lift
  BY <1>5, <1>1, LimitTypes DEF clients
<1> QED BY <1>1, <1>2, <1>3, <1>4, <1>5 DEF Next, Pass, vars

-----------------------------------------------------------------------------
(* The swap.                                                                *)

\* Who a release still has in hand, after a step of the pass.
LEMMA ConsideredMoves ==
    ASSUME TypeOK, PassFits, Pass, NEW a \in Agents, Considered(a)'
    PROVE  (Judge /\ snap[a].on = "p") \/ (Considered(a) /\ disp'.ep = disp.ep)
<1>0. Idle.pc = "pass" /\ disp' # Idle
  BY Rests DEF Considered, Releasing
<1>1. CASE Judge
  BY <1>0, <1>1, JudgeDoes DEF Considered, Releasing
<1>2. CASE Forget
  BY <1>2, ForgetDoes DEF Considered, Releasing
<1>3. CASE Hold \/ Drop \/ CrashPass
  BY <1>0, <1>3, HoldDoes, DropDoes, CrashDoes
<1>4. CASE Owed
  BY <1>4, OwedDoes DEF Considered, Releasing
<1>5. CASE Check
  BY <1>5, CheckDoes DEF Considered, Releasing
<1>6. CASE SendResume
  BY <1>6, SendResumeDoes DEF Considered, Releasing
<1>7. CASE Notice
  BY <1>7, NoticeDoes DEF Considered, Releasing
<1>8. CASE Back
  BY <1>0, <1>8, BackDoes DEF Considered, Releasing
<1> QED BY <1>1, <1>2, <1>3, <1>4, <1>5, <1>6, <1>7, <1>8 DEF Pass, Dispatcher

LEMMA SwapSteady ==
    ASSUME TypeOK, PassFits, ClientsFit, SwapFits, [Next]_vars, ~Swapper, ~Die, \A a \in Agents : ~Preflight(a)
    PROVE  /\ swap' = swap
           /\ swap.pc # "off" =>
                /\ agent'[Role].on = agent[Role].on /\ (Role \in intent => Role \in intent')
                /\ agent[Role].on = "q" /\ snap[Role].on = "q" => snap'[Role].on = "q"
<1>r. Role \in Agents
  BY Types DEF Role, SwapRec
<1>1. CASE UNCHANGED vars
  BY <1>1 DEF vars
<1>2. CASE Hit \/ Reset \/ Lift
  BY <1>2, LimitTypes DEF clients, bus
<1>3. CASE Pass
  BY <1>3, PassTypes DEF rest, clients
<1>4. CASE \E a \in Agents : Agent(a)
  <2> PICK a \in Agents : Agent(a)
    BY <1>4
  <2>1. swap' = swap /\ (swap.pc = "off" \/ intent' = intent)
    BY AgentDoes
  <2>2. CASE a = Role
    BY <2>1, <2>2, AgentMoves
  <2>3. CASE a # Role
    BY <2>1, <2>3, <1>r, AgentMoves
  <2> QED BY <2>1, <2>2, <2>3
<1> QED BY <1>1, <1>2, <1>3, <1>4 DEF Next, Pass

\* Outside the swap's own steps.
LEMMA SwapFitsKept ==
    ASSUME TypeOK, PassFits, ClientsFit, SwapFits, MarksFit, [Next]_vars,
           ~Swapper, ~Die, \A a \in Agents : ~Preflight(a), NEW r \in Agents, r = Role
    PROVE  SwapFits'
<1>r. r \in Agents /\ r = Role' /\ swap' = swap /\ swap.ep \in Nat
  BY Types, SwapSteady DEF Role, SwapRec
<1>f. Floor \in Nat /\ Floor' \in Nat /\ Floor <= Floor'
  BY FloorGrows
<1>1. CASE swap.pc = "off"
  BY <1>1, <1>r DEF SwapFits
<1>2. CASE swap.pc # "off"
  <2>1. /\ swap.pc \in {"begin", "close"} => agent'[r].on = "p"
        /\ swap.pc = "launch" => agent'[r].on = "none"
        /\ swap.pc \in {"prove", "finish", "work", "queued", "resume"} => agent'[r].on = "q"
        /\ swap.pc \in {"finish", "work", "queued", "resume"} => snap'[r].on = "q"
        /\ swap.pc \notin {"off", "begin"} => r \in intent'
    BY <1>2, SwapSteady DEF SwapFits
  <2>2. ASSUME swap.pc \in {"queued", "resume"}
        PROVE  swap.ep <= Floor' /\ (Considered(r)' => swap.ep = disp'.ep)
    <3>1. swap.ep <= Floor /\ (Considered(r) => swap.ep = disp.ep) /\ snap[r].on = "q"
      BY <2>2 DEF SwapFits
    <3>2. swap.ep <= Floor'
      BY <3>1, <1>r, <1>f
    <3>3. CASE Pass
      <4>1. CASE Considered(r)'
        <5>1. (Judge /\ snap[r].on = "p") \/ (Considered(r) /\ disp'.ep = disp.ep)
          BY <1>r, <4>1, <3>3, ConsideredMoves
        <5> QED BY <5>1, <3>1, <3>2
      <4> QED BY <4>1, <3>2
    <3>4. CASE UNCHANGED vars \/ Hit \/ Reset \/ Lift
      <4>1. disp' = disp
        BY <3>4, LimitTypes DEF vars
      <4> QED BY <4>1, <3>1, <3>2, <1>r DEF Considered, Releasing
    <3>5. CASE \E a \in Agents : Agent(a)
      <4>1. disp'.pc = disp.pc /\ disp'.here = disp.here /\ disp'.owed = disp.owed /\ disp'.ep = disp.ep
        BY <3>5, AgentDoes
      <4> QED BY <4>1, <3>1, <3>2, <1>r DEF Considered, Releasing
    <3> QED BY <3>3, <3>4, <3>5 DEF Next, Pass
  <2>3. ASSUME swap.pc = "resume"
        PROVE  \A i \in DOMAIN queue'[r] :
                  queue'[r][i].by = "release" /\ queue'[r][i].ep = marks'.resumed[r] => queue'[r][i].st = "read"
    <3>1. /\ \A i \in DOMAIN queue[r] :
                queue[r][i].by = "release" /\ queue[r][i].ep = marks.resumed[r] => queue[r][i].st = "read"
          /\ r \in intent
      BY <2>3 DEF SwapFits
    <3>2. \A i \in DOMAIN queue[r] : queue[r][i].by = "release" => queue[r][i].ep # 0
      BY <1>r DEF MarksFit, MarkFits
    <3>3. Keeps(r) \/ Forgets(r)
      <4>1. ~Releases(r)
        BY <3>1 DEF Releases
      <4>2. ~Resumes(r)
        BY DEF Resumes, Swapper
      <4> QED BY <4>1, <4>2, <1>r, StepDoes
    <3>4. CASE Keeps(r)
      BY <3>4, <3>1 DEF Keeps, KeepsQueue
    <3>5. CASE Forgets(r)
      BY <3>5, <3>2 DEF Forgets
    <3> QED BY <3>3, <3>4, <3>5
  <2> QED BY <2>1, <2>2, <2>3, <1>r, <1>2 DEF SwapFits
<1> QED BY <1>1, <1>2

\* Where each step of the swap puts it, and its agent.
LEMMA SwapGoes ==
    ASSUME TypeOK, Swapper \/ Die, NEW r \in Agents, r = Role
    PROVE  \/ swap' = NoSwap
           \/ /\ swap'.role = r /\ swap.pc \notin {"off", "end"} /\ swap'.pc \notin {"off", "begin"}
              /\ \/ swap'.pc = "end" /\ swap.pc # "begin" /\ intent' = intent
                 \/ BeginSwap /\ swap.pc = "begin" /\ swap'.pc = "close" /\ intent' = intent \union {r}
                 \/ ClosePane /\ swap.pc = "close" /\ swap'.pc = "launch" /\ intent' = intent
                 \/ Launch /\ swap.pc = "launch" /\ swap'.pc = "prove" /\ intent' = intent
                 \/ Prove /\ swap.pc = "prove" /\ swap'.pc = "finish" /\ snap[r].on = "q" /\ intent' = intent
                 \/ FinishSwap /\ swap.pc = "finish" /\ swap'.pc = "work" /\ intent' = intent
                 \/ Work /\ swap.pc = "work" /\ swap'.pc = "queued" /\ intent' = intent /\ swap'.ep = marks.hold
                 \/ Queued /\ swap.pc = "queued" /\ swap'.pc = "resume" /\ intent' = intent /\ swap'.ep = swap.ep
<1>0. swap \in SwapRec
  BY Types
<1>t. \A pc \in SwapSteps : To(pc) => swap'.pc = pc /\ swap'.role = swap.role /\ swap'.ep = swap.ep
  BY <1>0 DEF To, SwapRec
<1>1. CASE BeginSwap
  BY <1>1, <1>t DEF BeginSwap, SwapAt, SwapSteps, Role
<1>2. CASE ClosePane
  BY <1>2, <1>t DEF ClosePane, SwapAt, SwapSteps, Role, bus
<1>3. CASE Launch
  BY <1>3, <1>t DEF Launch, SwapAt, SwapSteps, Role, bus
<1>4. CASE Prove
  BY <1>4, <1>t DEF Prove, SwapAt, SwapSteps, Role, bus
<1>5. CASE FinishSwap
  BY <1>5, <1>t DEF FinishSwap, SwapAt, SwapSteps, Role
<1>6. CASE Work
  <2>1. swap.pc = "work" /\ intent' = intent
    BY <1>6 DEF Work, SwapAt, bus
  <2>2. CASE To("end")
    BY <2>1, <2>2, <1>6, <1>t DEF SwapSteps, Role
  <2>3. CASE swap' = [[swap EXCEPT !.pc = "queued"] EXCEPT !.ep = marks.hold]
    <3>1. swap'.pc = "queued" /\ swap'.role = swap.role /\ swap'.ep = marks.hold
      BY <2>3, <1>0 DEF SwapRec
    <3> QED BY <3>1, <2>1, <1>6 DEF Role
  <2> QED BY <2>2, <2>3, <1>6 DEF Work
<1>7. CASE Queued
  <2>1. swap.pc = "queued" /\ intent' = intent /\ (To("end") \/ To("resume"))
    BY <1>7 DEF Queued, SwapAt, bus
  <2> QED BY <2>1, <1>7, <1>t DEF SwapSteps, Role
<1>8. CASE SwapResume
  BY <1>8, <1>t DEF SwapResume, SwapAt, SwapSteps, Role
<1>9. CASE EndSwap \/ Die
  BY <1>9 DEF EndSwap, Die
<1> QED BY <1>1, <1>2, <1>3, <1>4, <1>5, <1>6, <1>7, <1>8, <1>9 DEF Swapper

LEMMA PreflightDoes ==
    ASSUME TypeOK, ClientsFit, NEW a \in Agents, Preflight(a)
    PROVE  swap'.pc = "begin" /\ swap'.role = a /\ agent'[a].on = "p" /\ snap[a].on = "p" /\ swap.pc = "off"
<1>1. swap'.pc = "begin" /\ swap'.role = a /\ snap[a].on = "p" /\ agent[a].on # "none" /\ snap[a].proc = agent[a].proc
      /\ agent' = agent /\ swap.pc = "off"
  BY DEF Preflight, Running, clients, SwapAt
<1>2. ClientFits(a)
  BY DEF ClientsFit
<1> QED BY <1>1, <1>2 DEF ClientFits

LEMMA SwapFitsOwn ==
    ASSUME TypeOK, PassFits, ClientsFit, SwapFits, MarksFit, Swapper \/ Die, NEW r \in Agents, r = Role
    PROVE  SwapFits'
<1>0. swap \in SwapRec /\ swap.ep \in Nat
  BY Types DEF SwapRec
<1>u. UNCHANGED <<limit, disp, accepted, snap>> /\ marks'.hold = marks.hold /\ intent \subseteq Agents
  BY SwapTypes, Types
<1>f. Floor' = Floor /\ (Considered(r)' <=> Considered(r))
  BY <1>u DEF Floor, Considered, Releasing
<1>n. NoSwap.pc = "off"
  BY Rests
<1>m. \/ agent' = agent
      \/ /\ \/ swap.pc = "close" /\ swap'.pc = "launch" /\ agent'[r].on = "none"
            \/ swap.pc = "launch" /\ swap'.pc = "prove" /\ agent'[r].on = "q"
         /\ ~Waits(r)'
  BY SwapMoves
<1>g. \/ swap' = NoSwap
           \/ /\ swap'.role = r /\ swap.pc \notin {"off", "end"} /\ swap'.pc \notin {"off", "begin"}
              /\ \/ swap'.pc = "end" /\ swap.pc # "begin" /\ intent' = intent
                 \/ BeginSwap /\ swap.pc = "begin" /\ swap'.pc = "close" /\ intent' = intent \union {r}
                 \/ ClosePane /\ swap.pc = "close" /\ swap'.pc = "launch" /\ intent' = intent
                 \/ Launch /\ swap.pc = "launch" /\ swap'.pc = "prove" /\ intent' = intent
                 \/ Prove /\ swap.pc = "prove" /\ swap'.pc = "finish" /\ snap[r].on = "q" /\ intent' = intent
                 \/ FinishSwap /\ swap.pc = "finish" /\ swap'.pc = "work" /\ intent' = intent
                 \/ Work /\ swap.pc = "work" /\ swap'.pc = "queued" /\ intent' = intent /\ swap'.ep = marks.hold
                 \/ Queued /\ swap.pc = "queued" /\ swap'.pc = "resume" /\ intent' = intent /\ swap'.ep = swap.ep
  BY SwapGoes
<1>1. CASE swap' = NoSwap
  BY <1>1, <1>n DEF SwapFits
<1>2. CASE swap'.pc = "end" /\ swap.pc \notin {"off", "begin"} /\ intent' = intent /\ swap'.role = r
  <2>1. r \in intent
    BY <1>2 DEF SwapFits
  <2> QED BY <2>1, <1>2 DEF SwapFits, Role
<1>3. CASE BeginSwap /\ swap.pc = "begin" /\ swap'.pc = "close" /\ swap'.role = r /\ intent' = intent \union {r}
  <2>1. agent' = agent /\ agent[r].on = "p"
    BY <1>3, <1>m DEF SwapFits
  <2> QED BY <2>1, <1>3 DEF SwapFits, Role
<1>4. CASE ClosePane /\ swap.pc = "close" /\ swap'.pc = "launch" /\ swap'.role = r /\ intent' = intent
  <2>1. agent'[r].on = "none"
    <3>1. agent' = agent => swap'.pc # "launch" \/ agent'[r].on = "none"
      <4>1. Lost(r)[r].on = "none"
        BY Types DEF Lost, AgentRec
      <4>2. CASE agent' = Lost(Role)
        BY <4>1, <4>2
      <4>3. CASE To("end")
        BY <4>3, <1>0 DEF To, SwapRec
      <4> QED BY <4>2, <4>3, <1>4 DEF ClosePane
    <3> QED BY <3>1, <1>m, <1>4
  <2>2. r \in intent
    BY <1>4 DEF SwapFits
  <2> QED BY <2>1, <2>2, <1>4 DEF SwapFits, Role
<1>5. CASE Launch /\ swap.pc = "launch" /\ swap'.pc = "prove" /\ swap'.role = r /\ intent' = intent
  <2>1. agent'[r].on = "q"
    <3>1. agent' = [agent EXCEPT ![r] = [[agent[r] EXCEPT !.proc = agent[r].proc + 1] EXCEPT !.on = "q"]] \/ To("end")
      BY <1>5, Types DEF Launch
    <3>2. ~To("end")
      BY <1>5, <1>0 DEF To, SwapRec
    <3> QED BY <3>1, <3>2, Types DEF AgentRec
  <2>2. r \in intent
    BY <1>5 DEF SwapFits
  <2> QED BY <2>1, <2>2, <1>5 DEF SwapFits, Role
<1>6. CASE \/ Prove /\ swap.pc = "prove" /\ swap'.pc = "finish" /\ swap'.role = r /\ snap[r].on = "q" /\ intent' = intent
           \/ FinishSwap /\ swap.pc = "finish" /\ swap'.pc = "work" /\ swap'.role = r /\ intent' = intent
  <2>1. agent' = agent /\ agent[r].on = "q" /\ snap'[r].on = "q" /\ r \in intent
    BY <1>6, <1>m, <1>u DEF SwapFits
  <2> QED BY <2>1, <1>6 DEF SwapFits, Role
<1>7. CASE Work /\ swap.pc = "work" /\ swap'.pc = "queued" /\ swap'.role = r /\ intent' = intent /\ swap'.ep = marks.hold
  <2>1. agent' = agent /\ agent[r].on = "q" /\ snap'[r].on = "q" /\ r \in intent
    BY <1>7, <1>m, <1>u DEF SwapFits
  <2>2. marks.hold \in Nat /\ limit.window \in Nat /\ disp.ep \in Nat
    BY Types, PassMoves DEF MarkRec, LimitRec
  <2>3. swap'.ep <= Floor'
    BY <2>2, <1>7, <1>f DEF Floor
  <2>4. Considered(r)' => swap'.ep = disp'.ep
    BY <1>7, <1>f, <1>u DEF Considered, PassFits
  <2> QED BY <2>1, <2>3, <2>4, <1>7 DEF SwapFits, Role
<1>8. CASE Queued /\ swap.pc = "queued" /\ swap'.pc = "resume" /\ swap'.role = r /\ intent' = intent /\ swap'.ep = swap.ep
  <2>1. agent' = agent /\ agent[r].on = "q" /\ snap'[r].on = "q" /\ r \in intent
    BY <1>8, <1>m, <1>u DEF SwapFits
  <2>2. swap'.ep <= Floor' /\ (Considered(r)' => swap'.ep = disp'.ep)
    BY <1>8, <1>f, <1>u DEF SwapFits
  <2>3. UNCHANGED <<queue, marks>>
    BY <1>8 DEF Queued, bus
  <2>4. ~\E i \in DOMAIN queue[Role] : /\ marks.resumed[Role] # 0
                                       /\ queue[Role][i].by = "release"
                                       /\ queue[Role][i].ep = marks.resumed[Role]
                                       /\ queue[Role][i].st # "read"
    <3>1. ~To("end")
      BY <1>8, <1>0 DEF To, SwapRec
    <3> QED BY <3>1, <1>8 DEF Queued
  <2>5. \A i \in DOMAIN queue[r] : queue[r][i].by = "release" => queue[r][i].ep # 0
    BY DEF MarksFit, MarkFits
  <2>6. \A i \in DOMAIN queue'[r] :
            queue'[r][i].by = "release" /\ queue'[r][i].ep = marks'.resumed[r] => queue'[r][i].st = "read"
    BY <2>3, <2>4, <2>5
  <2> QED BY <2>1, <2>2, <2>6, <1>8 DEF SwapFits, Role
<1>9. CASE swap' # NoSwap
  <2>1. swap'.role = r /\ swap.pc \notin {"off", "end"}
    BY <1>9, <1>g
  <2> QED BY <2>1, <1>9, <1>g, <1>2, <1>3, <1>4, <1>5, <1>6, <1>7, <1>8
<1> QED BY <1>1, <1>9

LEMMA SwapFitsStep == TypeOK /\ PassFits /\ ClientsFit /\ SwapFits /\ MarksFit /\ [Next]_vars => SwapFits'
<1> SUFFICES ASSUME TypeOK, PassFits, ClientsFit, SwapFits, MarksFit, [Next]_vars PROVE SwapFits'
  OBVIOUS
<1>1. Role \in Agents
  BY Types DEF Role, SwapRec
<1>2. CASE Swapper \/ Die
  BY <1>1, <1>2, SwapFitsOwn
<1>3. CASE \E a \in Agents : Preflight(a)
  BY <1>3, PreflightDoes DEF SwapFits, Role
<1> QED BY <1>1, <1>2, <1>3, SwapFitsKept

-----------------------------------------------------------------------------
(* An agent a swap has moved and told.                                      *)

LEMMA MovedStays == \A a \in Agents : KeepsQueue(a) => (Moved(a)' <=> Moved(a))
BY DEF KeepsQueue, Moved

\* The release has nothing left to tell it.
LEMMA NoRelease ==
    ASSUME TypeOK, PassFits, NEW a \in Agents, MovedFits(a), Releases(a)
    PROVE  ~Moved(a)
<1>1. disp.pc = "send" /\ a \in disp.owed /\ marks.resumed[a] # disp.ep
  BY DEF Releases, SendResume, At
<1> QED BY <1>1 DEF MovedFits, Considered, Releasing

LEMMA ResumesOnce ==
    ASSUME SwapFits, NEW a \in Agents, MovedFits(a), Resumes(a)
    PROVE  ~Moved(a)
BY DEF Resumes, MovedFits, Role

LEMMA MovedFitsKept ==
    ASSUME TypeOK, PassFits, ClientsFit, SwapFits, NEW a \in Agents, MovedFits(a), [Next]_vars, Moved(a)
    PROVE  /\ agent'[a].on = "q" /\ snap'[a].on = "q"
           /\ swap'.role = a => swap'.pc \in {"off", "end"}
           /\ Considered(a)' => Considered(a) /\ disp'.ep = disp.ep
<1>0. /\ agent[a].on = "q" /\ snap[a].on = "q" /\ (swap.role = a => swap.pc \in {"off", "end"}) /\ Role \in Agents
  BY Types DEF MovedFits, Role, SwapRec
<1>1. CASE UNCHANGED vars
  BY <1>1, <1>0 DEF vars, Considered, Releasing
<1>2. CASE Hit \/ Reset \/ Lift
  BY <1>2, <1>0, LimitTypes DEF clients, Considered, Releasing
<1>3. CASE Pass
  <2>1. UNCHANGED <<agent, snap, swap>>
    BY <1>3, PassTypes DEF rest, clients
  <2>2. Considered(a)' => Considered(a) /\ disp'.ep = disp.ep
    BY <1>3, <1>0, ConsideredMoves
  <2> QED BY <2>1, <2>2, <1>0
<1>4. CASE \E b \in Agents : Agent(b)
  <2> PICK b \in Agents : Agent(b)
    BY <1>4
  <2>1. agent'[a].on = "q" /\ snap'[a].on = "q"
    <3>1. CASE a = b
      BY <3>1, <1>0, AgentMoves
    <3>2. CASE a # b
      BY <3>2, <1>0, AgentMoves
    <3> QED BY <3>1, <3>2
  <2>2. swap' = swap /\ disp'.pc = disp.pc /\ disp'.here = disp.here /\ disp'.owed = disp.owed /\ disp'.ep = disp.ep
    BY AgentDoes
  <2> QED BY <2>1, <2>2, <1>0 DEF Considered, Releasing
<1>5. CASE Swapper \/ Die
  <2>1. UNCHANGED <<disp, snap>>
    BY <1>5, SwapTypes
  <2>2. CASE Role = a
    <3>1. swap' = NoSwap \/ swap.pc \notin {"off", "end"}
      BY <1>5, <2>2, SwapGoes
    <3>2. swap' = NoSwap /\ swap.pc \in {"off", "end"}
      BY <3>1, <2>2, <1>0 DEF Role
    <3>3. agent' = agent
      BY <3>2, <1>5, <2>2, SwapMoves
    <3> QED BY <2>1, <3>2, <3>3, <1>0, Rests DEF Considered, Releasing
  <2>3. CASE Role # a
    <3>1. agent'[a] = agent[a]
      BY <1>5, <2>3, <1>0, SwapMoves
    <3>2. swap' = NoSwap \/ swap'.role = Role
      BY <1>5, <1>0, SwapGoes
    <3> QED BY <2>1, <2>3, <3>1, <3>2, <1>0, Rests DEF Considered, Releasing
  <2> QED BY <2>2, <2>3
<1>6. CASE \E b \in Agents : Preflight(b)
  <2> PICK b \in Agents : Preflight(b)
    BY <1>6
  <2>1. UNCHANGED <<disp, snap, agent>> /\ swap'.role = b /\ snap[b].on = "p"
    BY PreflightDoes DEF Preflight, others, clients
  <2> QED BY <2>1, <1>0 DEF Considered, Releasing
<1> QED BY <1>1, <1>2, <1>3, <1>4, <1>5, <1>6 DEF Next, Pass

\* The swap's resume itself.
LEMMA MovedNow ==
    ASSUME TypeOK, PassFits, ClientsFit, SwapFits, NEW a \in Agents, MovedFits(a), Resumes(a)
    PROVE  MovedFits(a)'
<1>1. swap.pc = "resume" /\ swap'.pc = "end" /\ SwapResume /\ a = Role
  BY DEF Resumes
<1>2. UNCHANGED <<agent, snap, disp>>
  BY <1>1 DEF SwapResume, others, clients
<1>3. agent[a].on = "q" /\ snap[a].on = "q" /\ (Considered(a) => swap.ep = disp.ep)
  BY <1>1 DEF SwapFits
<1>4. ~Moved(a)
  BY ResumesOnce
<1>5. Considered(a)' => marks'.resumed[a] = disp'.ep
  <2>1. Considered(a) => disp.ep # 0
    BY DEF Considered, PassFits
  <2> QED BY <2>1, <1>2, <1>3 DEF Considered, Releasing, Resumes
<1>6. \A i, j \in DOMAIN queue'[a] : queue'[a][i].by = "swap" /\ queue'[a][j].by = "swap" => i = j
  BY <1>4 DEF Resumes, Gets, Moved
<1> QED BY <1>1, <1>2, <1>3, <1>5, <1>6 DEF MovedFits

LEMMA MovedFitsStep == TypeOK /\ PassFits /\ ClientsFit /\ SwapFits /\ AllMovedFit /\ [Next]_vars => AllMovedFit'
<1> SUFFICES ASSUME TypeOK, PassFits, ClientsFit, SwapFits, AllMovedFit, [Next]_vars, NEW a \in Agents PROVE MovedFits(a)'
  BY DEF AllMovedFit
<1>0. MovedFits(a)
  BY DEF AllMovedFit
<1>1. CASE Keeps(a)
  <2>1. CASE Moved(a)
    <3>1. agent'[a].on = "q" /\ snap'[a].on = "q" /\ (swap'.role = a => swap'.pc \in {"off", "end"})
      BY <2>1, <1>0, MovedFitsKept
    <3>2. Considered(a)' => marks'.resumed[a] = disp'.ep
      <4>1. Considered(a)' => Considered(a) /\ disp'.ep = disp.ep
        BY <2>1, <1>0, MovedFitsKept
      <4> QED BY <4>1, <2>1, <1>0, <1>1 DEF MovedFits, Keeps
    <3>3. \A i, j \in DOMAIN queue'[a] : queue'[a][i].by = "swap" /\ queue'[a][j].by = "swap" => i = j
      BY <2>1, <1>0, <1>1 DEF MovedFits, Keeps, KeepsQueue
    <3> QED BY <3>1, <3>2, <3>3 DEF MovedFits
  <2>2. CASE ~Moved(a)
    BY <2>2, <1>1, MovedStays DEF MovedFits, Keeps
  <2> QED BY <2>1, <2>2
<1>2. CASE Forgets(a)
  <2>1. queue' = queue /\ ~Considered(a)'
    <3>1. Forget /\ queue' = queue
      BY <1>2 DEF Forgets
    <3>2. disp'.pc = "hold"
      BY <3>1, ForgetDoes
    <3> QED BY <3>1, <3>2 DEF Considered, Releasing
  <2>2. CASE Moved(a)
    <3>1. agent'[a].on = "q" /\ snap'[a].on = "q" /\ (swap'.role = a => swap'.pc \in {"off", "end"})
      BY <2>2, <1>0, MovedFitsKept
    <3> QED BY <3>1, <2>1, <2>2, <1>0 DEF MovedFits
  <2>3. CASE ~Moved(a)
    BY <2>1, <2>3 DEF MovedFits, Moved
  <2> QED BY <2>2, <2>3
<1>3. CASE Releases(a)
  <2>1. ~Moved(a)
    BY <1>0, <1>3, NoRelease
  <2>2. ~Moved(a)'
    BY <2>1, <1>3 DEF Releases, Gets, Moved
  <2> QED BY <2>2 DEF MovedFits
<1>4. CASE Resumes(a)
  BY <1>0, <1>4, MovedNow
<1> QED BY <1>1, <1>2, <1>3, <1>4, StepDoes

-----------------------------------------------------------------------------
(* The mark and the entries.                                                *)

LEMMA EpisodeTypes ==
    ASSUME TypeOK
    PROVE  \A a \in Agents : marks.resumed[a] \in Nat /\ \A i \in DOMAIN queue[a] : queue[a][i].ep \in Nat /\ queue[a][i].by \in {"release", "swap"}
<1>1. marks.resumed \in [Agents -> Nat] /\ queue \in [Agents -> Seq(Entries)]
  BY Types DEF MarkRec
<1> QED BY <1>1, EntriesAre DEF Entries

LEMMA StaleIs ==
    ASSUME TypeOK, PassFits, [Next]_vars, NEW a \in Agents, MarkFits(a), Keeps(a), ~Moved(a), disp'.pc = "forget", a \in disp'.stale
    PROVE  marks'.resumed[a] # disp'.ep
<1>k. marks'.resumed[a] = marks.resumed[a]
  BY DEF Keeps
<1>1. CASE Judge
  <2>1. Idle.pc = "pass"
    BY Rests
  <2>2. disp'.ep = limit.window /\ a \notin {b \in Agents : marks.resumed[b] \in {0, limit.window}}
    BY <1>1, <2>1, JudgeDoes
  <2> QED BY <2>2, <1>k
<1>2. CASE UNCHANGED <<disp>>
  BY <1>2, <1>k DEF MarkFits
<1>3. CASE \E b \in Agents : Agent(b)
  <2>1. disp'.pc = disp.pc /\ disp'.stale = disp.stale /\ disp'.ep = disp.ep
    BY <1>3, AgentDoes
  <2> QED BY <2>1, <1>k DEF MarkFits
<1>4. ASSUME Pass, ~Judge PROVE FALSE
  BY <1>4, ForgetDoes, HoldDoes, DropDoes, OwedDoes, CheckDoes, SendResumeDoes, NoticeDoes, BackDoes, CrashDoes, OnwardIs, Rests
     DEF Pass, Dispatcher
<1>5. CASE Hit \/ Reset \/ Lift
  BY <1>5, <1>2, LimitTypes
<1>6. CASE Swapper \/ Die \/ \E b \in Agents : Preflight(b)
  BY <1>6, <1>2, SwapTypes
<1> QED BY <1>1, <1>2, <1>3, <1>4, <1>5, <1>6 DEF Next, Pass, vars

LEMMA MarksFitStep ==
    TypeOK /\ PassFits /\ ClientsFit /\ SwapFits /\ AllMovedFit /\ MarksFit /\ [Next]_vars => MarksFit'
<1> SUFFICES ASSUME TypeOK, PassFits, ClientsFit, SwapFits, AllMovedFit, MarksFit, [Next]_vars, NEW a \in Agents PROVE MarkFits(a)'
  BY DEF MarksFit
<1>0. MarkFits(a) /\ MovedFits(a)
  BY DEF MarksFit, AllMovedFit
<1>e. marks.resumed[a] \in Nat /\ \A i \in DOMAIN queue[a] : queue[a][i].ep \in Nat /\ queue[a][i].by \in {"release", "swap"}
  BY EpisodeTypes
<1>f. /\ Floor \in Nat /\ Floor # 0 /\ Floor' \in Nat /\ Floor <= Floor'
      /\ Forget \/ Judge \/ SendResume => Floor' = Floor
  BY FloorGrows
<1>1. CASE Keeps(a)
  <2>k. /\ marks'.resumed[a] = marks.resumed[a] /\ DOMAIN queue'[a] = DOMAIN queue[a] /\ (Moved(a)' <=> Moved(a))
        /\ \A i \in DOMAIN queue[a] : queue'[a][i].ep = queue[a][i].ep /\ queue'[a][i].by = queue[a][i].by
    BY <1>1, MovedStays DEF Keeps, KeepsQueue
  <2>1. marks'.resumed[a] <= Floor'
    BY <2>k, <1>0, <1>e, <1>f DEF MarkFits
  <2>2. \A i \in DOMAIN queue'[a] : queue'[a][i].ep <= Floor' /\ (queue'[a][i].by = "release" => queue'[a][i].ep # 0)
    BY <2>k, <1>0, <1>e, <1>f DEF MarkFits
  <2>3. Floor' = Floor \/ \A i \in DOMAIN queue[a] : queue[a][i].ep # Floor'
    BY <1>0, <1>e, <1>f DEF MarkFits
  <2>4. ~Moved(a) => \A i \in DOMAIN queue'[a] : queue'[a][i].ep = Floor' => marks'.resumed[a] = Floor'
    BY <2>3, <2>k, <1>0 DEF MarkFits
  <2>5. ~Moved(a) /\ disp'.pc = "forget" /\ a \in disp'.stale => marks'.resumed[a] # disp'.ep
    BY <1>0, <1>1, StaleIs
  <2>6. \A i, j \in DOMAIN queue'[a] :
           /\ queue'[a][i].ep = queue'[a][j].ep
           /\ \/ queue'[a][i].by = "release" /\ queue'[a][j].by = "release"
              \/ queue'[a][i].ep = Floor'
           => i = j
    BY <2>3, <2>k, <1>0 DEF MarkFits
  <2> QED BY <2>k, <2>1, <2>2, <2>4, <2>5, <2>6 DEF MarkFits
<1>2. CASE Forgets(a)
  <2>1. /\ disp.pc = "forget" /\ disp'.pc = "hold" /\ a \in disp.stale /\ queue' = queue /\ marks'.resumed[a] = 0 /\ Floor' = Floor
        /\ Floor = disp.ep
    BY <1>2, <1>f, ForgetDoes DEF Forgets, Floor, PassFits
  <2>2. Moved(a)' <=> Moved(a)
    BY <2>1 DEF Moved
  <2>3. ~Moved(a) => \A i \in DOMAIN queue[a] : queue[a][i].ep # Floor
    BY <2>1, <1>0 DEF MarkFits
  <2> QED BY <2>1, <2>2, <2>3, <1>0, <1>f DEF MarkFits
<1>3. CASE Releases(a)
  <2>1. /\ SendResume /\ marks.resumed[a] # disp.ep /\ marks'.resumed[a] = disp.ep /\ Gets(a, disp.ep, "release")
        /\ disp.pc = "send" /\ disp'.pc # "forget" /\ Floor' = Floor
    BY <1>3, <1>f, SendResumeDoes, OnwardIs DEF Releases
  <2>2. Floor = disp.ep
    BY <2>1 DEF Floor, PassFits, Releasing
  <2>3. ~Moved(a)
    BY <1>0, <1>3, NoRelease
  <2>4. \A i \in DOMAIN queue[a] : queue[a][i].ep # Floor
    BY <2>1, <2>2, <2>3, <1>0 DEF MarkFits
  <2>5. PICK n \in Nat : /\ n \notin DOMAIN queue[a] /\ DOMAIN queue'[a] = DOMAIN queue[a] \union {n}
                         /\ \A i \in DOMAIN queue[a] : queue'[a][i] = queue[a][i]
                         /\ queue'[a][n].ep = Floor /\ queue'[a][n].by = "release"
    BY <2>1, <2>2 DEF Gets
  <2>6. \A i \in DOMAIN queue'[a] : queue'[a][i].ep <= Floor /\ (queue'[a][i].by = "release" => queue'[a][i].ep # 0)
    BY <2>5, <1>0, <1>f DEF MarkFits
  <2>7. \A i, j \in DOMAIN queue'[a] :
           /\ queue'[a][i].ep = queue'[a][j].ep
           /\ \/ queue'[a][i].by = "release" /\ queue'[a][j].by = "release"
              \/ queue'[a][i].ep = Floor
           => i = j
    BY <2>4, <2>5, <1>0 DEF MarkFits
  <2> QED BY <2>1, <2>2, <2>6, <2>7, <1>f DEF MarkFits
<1>4. CASE Resumes(a)
  <2>1. ~Moved(a)
    BY <1>0, <1>4, ResumesOnce
  <2>2. /\ swap.ep \in Nat /\ swap.ep <= Floor /\ SwapResume
    BY <1>4, Types DEF SwapFits, Resumes, SwapRec
  <2>3. UNCHANGED <<limit, disp>> /\ marks'.hold = marks.hold
    BY <2>2, SwapTypes DEF Swapper
  <2>4. Floor' = Floor
    BY <2>3 DEF Floor
  <2>5. PICK ep \in Nat : /\ Gets(a, ep, "swap") /\ ep <= Floor
                          /\ (ep = 0 /\ marks'.resumed[a] = marks.resumed[a]) \/ (ep # marks.resumed[a] /\ marks'.resumed[a] = ep)
    BY <2>2, <1>4, <1>f DEF Resumes
  <2>6. PICK n \in Nat : /\ n \notin DOMAIN queue[a] /\ DOMAIN queue'[a] = DOMAIN queue[a] \union {n}
                         /\ \A i \in DOMAIN queue[a] : queue'[a][i] = queue[a][i]
                         /\ queue'[a][n].ep = ep /\ queue'[a][n].by = "swap"
    BY <2>5 DEF Gets
  <2>7. Moved(a)'
    BY <2>6 DEF Moved
  <2>8. marks'.resumed[a] <= Floor
    BY <2>5, <1>0 DEF MarkFits
  <2>9. \A i \in DOMAIN queue'[a] : queue'[a][i].ep <= Floor /\ (queue'[a][i].by = "release" => queue'[a][i].ep # 0)
    BY <2>5, <2>6, <1>0, <1>f DEF MarkFits
  <2>10. ep = Floor => \A i \in DOMAIN queue[a] : queue[a][i].ep # Floor
    BY <2>1, <2>5, <1>0, <1>f DEF MarkFits
  <2>11. \A i, j \in DOMAIN queue'[a] :
           /\ queue'[a][i].ep = queue'[a][j].ep
           /\ \/ queue'[a][i].by = "release" /\ queue'[a][j].by = "release"
              \/ queue'[a][i].ep = Floor
           => i = j
    BY <2>6, <2>10, <1>0 DEF MarkFits
  <2> QED BY <2>4, <2>7, <2>8, <2>9, <2>11 DEF MarkFits
<1> QED BY <1>1, <1>2, <1>3, <1>4, StepDoes

LEMMA NoSecondStep ==
    TypeOK /\ PassFits /\ ClientsFit /\ SwapFits /\ AllMovedFit /\ MarksFit /\ NoSecondResume /\ [Next]_vars => NoSecondResume'
<1> SUFFICES ASSUME TypeOK, PassFits, ClientsFit, SwapFits, AllMovedFit, MarksFit, NoSecondResume, [Next]_vars,
                    NEW a \in Agents, NEW i \in DOMAIN queue'[a], NEW j \in DOMAIN queue'[a],
                    queue'[a][i].ep = 0, queue'[a][j].ep = marks'.resumed[a], i # j
             PROVE  queue'[a][i].st = "read" \/ queue'[a][j].st = "read"
  BY DEF NoSecondResume
<1>0. MarkFits(a) /\ MovedFits(a)
  BY DEF MarksFit, AllMovedFit
<1>e. \A k \in DOMAIN queue[a] : queue[a][k].by \in {"release", "swap"}
  BY EpisodeTypes
\* Of no episode, only the swap sends, and once.
<1>z. \A k \in DOMAIN queue[a] : queue[a][k].ep = 0 => queue[a][k].by = "swap" /\ Moved(a)
  BY <1>0, <1>e DEF MarkFits, Moved
<1>1. CASE Keeps(a)
  BY <1>1 DEF Keeps, KeepsQueue, NoSecondResume
<1>2. CASE Forgets(a)
  <2>1. queue' = queue /\ marks'.resumed[a] = 0
    BY <1>2 DEF Forgets
  <2> QED BY <2>1, <1>z, <1>0 DEF MovedFits
<1>3. CASE Releases(a)
  <2>1. ~Moved(a) /\ disp.pc = "send"
    BY <1>0, <1>3, NoRelease DEF Releases, SendResume, At
  <2>2. disp.ep # 0
    BY <2>1 DEF PassFits, Releasing
  <2> QED BY <2>1, <2>2, <1>3, <1>z DEF Releases, Gets
<1>4. CASE Resumes(a)
  <2>1. ~Moved(a)
    BY <1>0, <1>4, ResumesOnce
  <2>2. \A k \in DOMAIN queue[a] : queue[a][k].by = "release"
    BY <2>1, <1>e DEF Moved
  <2>3. \A k \in DOMAIN queue[a] : queue[a][k].ep = marks.resumed[a] => queue[a][k].st = "read"
    BY <2>2, <1>4 DEF SwapFits, Resumes
  <2> QED BY <2>1, <2>3, <1>4, <1>z DEF Resumes, Gets
<1> QED BY <1>1, <1>2, <1>3, <1>4, StepDoes

-----------------------------------------------------------------------------
(* Nobody is left.                                                          *)

\* Judged: the agents the limit has cut are in the snapshots, at work.
LEMMA JudgedWell == TypeOK /\ ClientsFit /\ Judge => ReleaseFits'
<1> SUFFICES ASSUME TypeOK, ClientsFit, Judge PROVE ReleaseFits'
  OBVIOUS
<1>1. UNCHANGED <<agent, accepted>> /\ Idle.pc = "pass"
  BY JudgeDoes, Rests DEF rest, clients
<1>2. disp'.pc \in {"pass", "forget", "hold", "owed"}
  BY <1>1, JudgeDoes
<1>3. ASSUME disp'.pc = "owed", NEW a \in Agents, Waits(a)'
      PROVE  a \in disp'.here /\ a \in accepted' \union disp'.working
  <2>1. /\ disp'.here = {b \in Agents : snap[b].on = "p"} /\ disp'.working = {b \in Agents : snap[b].working}
        /\ disp'.cut = {b \in Agents : agent[b].turn = "cut" /\ agent[b].by \in 1 .. marks.hold}
    BY <1>1, <1>3, JudgeDoes
  <2>2. agent[a].turn = "cut" /\ agent[a].by # 0
    BY <1>1, <1>3 DEF Waits
  <2>3. ClientFits(a)
    BY DEF ClientsFit
  <2>4. agent[a].on \in {"p", "q", "none"}
    BY Types DEF AgentRec
  <2> QED BY <1>1, <2>1, <2>2, <2>3, <2>4 DEF ClientFits
<1> QED BY <1>2, <1>3 DEF ReleaseFits

\* A step that lets nobody wait anew, and keeps the marks and the board of those who do.
LEMMA ReleaseKept ==
    ASSUME ReleaseFits, disp'.pc = disp.pc, disp'.i = disp.i, disp'.ep = disp.ep, disp'.complete = disp.complete,
           disp'.here = disp.here, disp'.owed = disp.owed, disp'.working = disp.working,
           \A a \in Agents : Waits(a)' => /\ Waits(a) /\ marks'.resumed[a] = marks.resumed[a]
                                          /\ (a \in accepted => a \in accepted')
    PROVE  ReleaseFits'
<1>1. \A a \in Agents : Waits(a)' /\ Served(a) => Served(a)'
  BY DEF Served
<1>2. \A j \in DOMAIN Order : Order[j] \in Agents
  BY Names
<1> QED BY <1>1, <1>2 DEF ReleaseFits

LEMMA ReleaseFitsStep ==
    TypeOK /\ PassFits /\ ClientsFit /\ SwapFits /\ ReleaseFits /\ [Next]_vars => ReleaseFits'
<1> SUFFICES ASSUME TypeOK, PassFits, ClientsFit, SwapFits, ReleaseFits, [Next]_vars PROVE ReleaseFits'
  OBVIOUS
<1>n. /\ \A j \in DOMAIN Order : Order[j] \in Agents /\ j \in Nat
      /\ \A a \in Agents : \E j \in DOMAIN Order : Order[j] = a
  BY Names
<1>i. Idle.pc = "pass"
  BY Rests
<1>1. CASE UNCHANGED vars
  BY <1>1 DEF vars, ReleaseFits, Waits, Served
<1>2. CASE Hit \/ Reset \/ Lift
  BY <1>2, LimitTypes DEF clients, bus, ReleaseFits, Waits, Served
<1>3. CASE Swapper \/ Die \/ \E a \in Agents : Preflight(a)
  <2>1. UNCHANGED <<disp, accepted>>
    BY <1>3, SwapTypes
  <2>r. Role \in Agents
    BY Types DEF Role, SwapRec
  <2>2. ASSUME NEW a \in Agents, Waits(a)' PROVE Waits(a) /\ marks'.resumed[a] = marks.resumed[a]
    <3>1. Waits(a)
      <4>1. CASE a = Role
        <5>1. agent' = agent \/ ~Waits(a)'
          BY <4>1, <1>3, SwapMoves
        <5> QED BY <5>1, <2>1, <2>2 DEF Waits
      <4>2. CASE a # Role
        <5>1. agent'[a] = agent[a]
          BY <4>2, <2>r, <1>3, SwapMoves
        <5> QED BY <5>1, <2>1, <2>2 DEF Waits
      <4> QED BY <4>1, <4>2
    <3>2. agent[a].on = "p"
      BY <3>1 DEF Waits, ClientsFit, ClientFits
    <3>3. ~Resumes(a)
      BY <3>2 DEF Resumes, SwapFits
    <3>4. Keeps(a)
      BY <3>3, <1>3, SwapDoes
    <3> QED BY <3>1, <3>4 DEF Keeps
  <2> QED BY <2>1, <2>2, ReleaseKept
<1>4. CASE \E a \in Agents : Agent(a)
  <2> PICK b \in Agents : Agent(b)
    BY <1>4
  <2>1. /\ disp'.pc = disp.pc /\ disp'.ep = disp.ep /\ disp'.i = disp.i /\ disp'.owed = disp.owed /\ disp'.here = disp.here
        /\ disp'.working = disp.working /\ disp'.complete = disp.complete /\ marks' = marks
    BY AgentDoes
  <2>2. ASSUME NEW a \in Agents, Waits(a)' PROVE Waits(a) /\ (a \in accepted => a \in accepted')
    <3>1. CASE a = b
      BY <3>1, <2>2, AgentMoves
    <3>2. CASE a # b
      <4>1. agent'[a] = agent[a] /\ (a \in accepted' <=> a \in accepted) /\ (a \in disp'.cut <=> a \in disp.cut)
        BY <3>2, AgentMoves
      <4> QED BY <4>1, <2>2 DEF Waits
    <3> QED BY <3>1, <3>2
  <2> QED BY <2>1, <2>2, ReleaseKept
<1>5. CASE Judge
  BY <1>5, JudgedWell
<1>6. CASE Forget \/ Hold \/ Drop \/ CrashPass
  <2>1. disp'.pc \in {"pass", "hold"}
    BY <1>6, <1>i, ForgetDoes, HoldDoes, DropDoes, CrashDoes
  <2> QED BY <2>1 DEF ReleaseFits
<1>w. ASSUME Pass, disp'.cut = disp.cut
      PROVE  \A a \in Agents : Waits(a)' <=> Waits(a)
  BY <1>w, PassTypes DEF rest, clients, Waits
<1>7. CASE Owed
  <2>1. /\ disp.pc = "owed" /\ UNCHANGED <<rest, queue, bus>> /\ \A a \in Agents : Waits(a)' <=> Waits(a)
    BY <1>7, <1>w, OwedDoes DEF Pass, Dispatcher
  <2>2. CASE disp'.pc = "back"
    BY <1>7, <2>2, OwedDoes DEF ReleaseFits, Served
  <2>3. CASE disp'.pc = "check"
    <3>1. disp'.i = 1 /\ disp'.owed = disp.here \intersect (accepted \union disp.working)
      BY <1>7, <2>3, OwedDoes
    <3>2. \A j \in DOMAIN Order : ~(j < disp'.i)
      BY <3>1, NextIndex
    <3> QED BY <2>1, <2>3, <3>1, <3>2 DEF ReleaseFits
  <2> QED BY <1>7, <2>2, <2>3, OwedDoes
<1>8. CASE Check
  <2>1. /\ disp.pc = "check" /\ disp.i \in DOMAIN Order /\ disp.i \in Nat /\ Order[disp.i] \in Agents /\ marks' = marks
        /\ disp'.ep = disp.ep /\ disp'.owed = disp.owed /\ (disp'.complete => disp.complete)
        /\ \A a \in Agents : Waits(a)' <=> Waits(a)
    BY <1>8, <1>n, <1>w, CheckDoes DEF Pass, Dispatcher, bus
  <2>2. \A a \in Agents : Served(a) => Served(a)'
    BY <2>1 DEF Served
  <2>3. CASE disp'.pc = "send" /\ disp'.i = disp.i
    BY <2>1, <2>2, <2>3, <1>n DEF ReleaseFits
  <2>4. CASE disp'.pc = Onward /\ disp'.i = disp.i + 1 /\ (Order[disp.i] \in disp.owed => ~disp'.complete)
    <3>1. \A j \in DOMAIN Order : j < disp.i + 1 /\ Waits(Order[j]) => Served(Order[j])'
      <4> SUFFICES ASSUME NEW j \in DOMAIN Order, j < disp.i + 1, Waits(Order[j]) PROVE Served(Order[j])'
        OBVIOUS
      <4>1. j < disp.i \/ j = disp.i
        BY <2>1, <1>n
      <4>2. CASE j < disp.i
        BY <4>2, <2>1, <2>2, <1>n DEF ReleaseFits
      <4>3. CASE j = disp.i
        BY <4>3, <2>1, <2>4, <1>n DEF ReleaseFits, Served
      <4> QED BY <4>1, <4>2, <4>3
    <3>2. CASE Onward = "check"
      BY <3>1, <3>2, <2>1, <2>4, <1>n DEF ReleaseFits
    <3>3. CASE Onward = "told"
      <4>1. \A a \in Agents : Waits(a) => Served(a)'
        BY <3>1, <3>3, <2>1, <1>n, OnwardIs
      <4> QED BY <4>1, <3>3, <2>1, <2>4 DEF ReleaseFits
    <3> QED BY <3>2, <3>3, <2>1, OnwardIs
  <2> QED BY <1>8, <2>3, <2>4, CheckDoes
<1>9. CASE SendResume
  <2>1. /\ disp.pc = "send" /\ disp.i \in DOMAIN Order /\ disp.i \in Nat /\ Order[disp.i] \in Agents
        /\ disp'.ep = disp.ep /\ disp'.owed = disp.owed /\ (disp'.complete => disp.complete)
        /\ disp'.pc = Onward /\ disp'.i = disp.i + 1
        /\ \A a \in Agents : Waits(a)' <=> Waits(a)
    BY <1>9, <1>n, <1>w, SendResumeDoes DEF Pass, Dispatcher
  <2>k. \/ EntryOnce(Order[disp.i], disp.ep, "release")
        \/ UNCHANGED <<queue, marks>> /\ ~disp'.complete
    BY <1>9, SendResumeDoes
  <2>m. marks'.resumed[Order[disp.i]] = disp.ep \/ ~disp'.complete
    <3>1. disp.ep \in Nat /\ marks \in MarkRec /\ queue \in [Agents -> Seq(Entries)]
      BY Types, PassMoves
    <3> QED BY <3>1, <2>k, <2>1, EntryOnceDoes
  <2>2. \A a \in Agents : Served(a) => Served(a)'
    <3> SUFFICES ASSUME NEW a \in Agents, Served(a) PROVE Served(a)'
      OBVIOUS
    <3>1. CASE Keeps(a)
      BY <3>1, <2>1 DEF Served, Keeps
    <3>2. CASE Releases(a)
      BY <3>2, <2>1 DEF Served, Releases
    <3>3. ~Forgets(a)
      BY <2>1 DEF Forgets, Forget, At
    <3> QED BY <3>1, <3>2, <3>3, <1>9, PassDoes DEF Pass, Dispatcher
  <2>3. \A j \in DOMAIN Order : j < disp.i + 1 /\ Waits(Order[j]) => Served(Order[j])'
    <3> SUFFICES ASSUME NEW j \in DOMAIN Order, j < disp.i + 1, Waits(Order[j]) PROVE Served(Order[j])'
      OBVIOUS
    <3>1. j < disp.i \/ j = disp.i
      BY <2>1, <1>n
    <3>2. CASE j < disp.i
      BY <3>2, <2>1, <2>2, <1>n DEF ReleaseFits
    <3>3. CASE j = disp.i
      BY <3>3, <2>m, <2>1 DEF Served
    <3> QED BY <3>1, <3>2, <3>3
  <2>4. CASE Onward = "check"
    BY <2>1, <2>3, <2>4, <1>n DEF ReleaseFits
  <2>5. CASE Onward = "told"
    <3>1. \A a \in Agents : Waits(a) => Served(a)'
      BY <2>1, <2>3, <2>5, <1>n, OnwardIs
    <3> QED BY <3>1, <2>1, <2>5 DEF ReleaseFits
  <2> QED BY <2>4, <2>5, <2>1, OnwardIs
<1>10. CASE Notice
  <2>1. /\ disp.pc = "told" /\ disp'.pc = "back" /\ disp'.ep = disp.ep /\ (disp'.complete => disp.complete)
        /\ marks'.resumed = marks.resumed /\ \A a \in Agents : Waits(a)' <=> Waits(a)
    BY <1>10, <1>w, NoticeDoes DEF Pass, Dispatcher
  <2> QED BY <2>1 DEF ReleaseFits, Served
<1>11. CASE Back
  <2>1. CASE disp' = Idle
    BY <2>1, <1>i DEF ReleaseFits
  <2>2. CASE disp'.pc = "drop"
    <3>1. /\ disp.pc = "back" /\ disp'.ep = disp.ep /\ disp.complete
          /\ marks'.resumed = marks.resumed /\ \A a \in Agents : Waits(a)' <=> Waits(a)
      BY <1>11, <1>i, <1>w, <2>2, BackDoes DEF Pass, Dispatcher
    <3> QED BY <2>2, <3>1 DEF ReleaseFits, Served
  <2> QED BY <1>11, <2>1, <2>2, BackDoes
<1> QED BY <1>1, <1>2, <1>3, <1>4, <1>5, <1>6, <1>7, <1>8, <1>9, <1>10, <1>11 DEF Next, Dispatcher

-----------------------------------------------------------------------------
(* The theorems.                                                            *)

LEMMA InvInit == Init => QuotaInv
<1> SUFFICES ASSUME Init PROVE QuotaInv
  OBVIOUS
<1>1. TypeOK
  BY TypeInit
<1>2. PassFits /\ ReleaseFits
  BY Rests DEF Init, PassFits, Releasing, ReleaseFits
<1>3. ClientsFit
  BY DEF Init, ClientsFit, ClientFits
<1>4. SwapFits
  BY Rests DEF Init, SwapFits
<1>5. \A a \in Agents : ~Moved(a) /\ DOMAIN queue[a] = {}
  BY DEF Init, Moved
<1>6. AllMovedFit /\ NoSecondResume
  BY <1>5 DEF AllMovedFit, MovedFits, NoSecondResume
<1>7. MarksFit
  BY <1>5, Rests DEF Init, MarksFit, MarkFits, Floor
<1> QED BY <1>1, <1>2, <1>3, <1>4, <1>6, <1>7 DEF QuotaInv

LEMMA InvStep == QuotaInv /\ [Next]_vars => QuotaInv'
BY TypeStep, PassFitsStep, ClientsFitStep, SwapFitsStep, MovedFitsStep, MarksFitStep, NoSecondStep, ReleaseFitsStep DEF QuotaInv

\* The hold, the passes and the swaps fit together in every reachable state.
THEOREM InvCorrect == Spec => []QuotaInv
BY InvInit, InvStep, PTL DEF Spec

\* Every variable keeps its type.
THEOREM TypeCorrect == Spec => []TypeOK
<1>1. QuotaInv => TypeOK
  BY DEF QuotaInv
<1> QED BY <1>1, InvCorrect, PTL

\* However a release is interrupted or retried, and whatever a swap does beside it,
\* an agent gets one resume of the episode that is held or open, and one from the
\* release of any (resumeAfterHold, releaseResumeQueued, CmdOnce).
THEOREM ResumedOnceCorrect == Spec => []ResumedOncePerEpisode
<1>1. QuotaInv => ResumedOncePerEpisode
  <2> SUFFICES ASSUME QuotaInv, NEW a \in Agents, NEW i \in DOMAIN queue[a], NEW j \in DOMAIN queue[a],
                      queue[a][i].ep # 0, queue[a][i].ep = queue[a][j].ep,
                      \/ queue[a][i].by = "release" /\ queue[a][j].by = "release"
                      \/ queue[a][i].ep \in {marks.hold, limit.window}
               PROVE  i = j
    BY DEF ResumedOncePerEpisode
  <2>1. TypeOK /\ PassFits /\ MarkFits(a)
    BY DEF QuotaInv, MarksFit
  <2>2. queue[a][i].ep <= Floor /\ queue[a][i].ep \in Nat
    BY <2>1, EpisodeTypes DEF MarkFits
  <2>3. CASE queue[a][i].ep \in {marks.hold, limit.window}
    <3>1. marks.hold \in Nat /\ limit.window \in Nat /\ disp.ep \in Nat /\ marks.hold <= limit.window /\ disp.ep <= limit.window
      BY <2>1, Types, PassMoves DEF PassFits, MarkRec, LimitRec
    <3>2. queue[a][i].ep = Floor
      BY <2>2, <2>3, <3>1 DEF Floor
    <3> QED BY <2>1, <3>2 DEF MarkFits
  <2>4. CASE queue[a][i].by = "release" /\ queue[a][j].by = "release"
    BY <2>1, <2>4 DEF MarkFits
  <2> QED BY <2>3, <2>4
<1> QED BY <1>1, InvCorrect, PTL

\* A swap's own resume and the release's of the marked episode never both wait for
\* an agent (releaseResumeQueued).
THEOREM NoSecondCorrect == Spec => []NoSecondResume
<1>1. QuotaInv => NoSecondResume
  BY DEF QuotaInv
<1> QED BY <1>1, InvCorrect, PTL

\* The hold goes only when every agent that its limit had cut, and that waits since,
\* has the resume of its episode (release, resumeAfterHold).
THEOREM ReleaseCorrect == Spec => ReleaseLeavesNobody
<1> DEFINE A == marks.hold # 0 /\ marks'.hold = 0 =>
                  \A a \in disp.cut : (agent[a].turn = "cut" /\ agent[a].by # 0) => marks.resumed[a] = marks.hold
<1>1. QuotaInv /\ [Next]_vars => [A]_vars
  <2> SUFFICES ASSUME QuotaInv, Next, marks.hold # 0, marks'.hold = 0,
                      NEW a \in disp.cut, agent[a].turn = "cut", agent[a].by # 0
               PROVE  marks.resumed[a] = marks.hold
    BY DEF vars
  <2>1. TypeOK /\ PassFits /\ ReleaseFits
    BY DEF QuotaInv
  <2>2. Drop
    <3>1. CASE Hit \/ Reset \/ Lift
      BY <3>1, <2>1, LimitTypes DEF bus
    <3>2. CASE Swapper \/ Die \/ \E b \in Agents : Preflight(b)
      BY <3>2, <2>1, SwapTypes
    <3>3. CASE \E b \in Agents : Agent(b)
      BY <3>3, <2>1, AgentTypes
    <3>4. CASE Pass
      BY <3>4, <2>1, PassTypes DEF Hold, At, PassFits
    <3> QED BY <3>1, <3>2, <3>3, <3>4 DEF Next, Pass
  <2>3. disp.pc = "drop" /\ disp.complete /\ disp.ep = marks.hold
    BY <2>1, <2>2 DEF Drop, At, PassFits, Releasing
  <2>4. a \in Agents
    BY <2>1, Types DEF PassRec
  <2> QED BY <2>1, <2>3, <2>4 DEF ReleaseFits, Waits, Served
<1>2. ReleaseLeavesNobody <=> [][A]_vars
  BY DEF ReleaseLeavesNobody
<1> HIDE DEF A
<1> QED BY <1>1, <1>2, InvCorrect, PTL DEF Spec
=============================================================================
