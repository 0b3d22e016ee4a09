---------------------------- MODULE Clear_proofs ----------------------------
(***************************************************************************)
(* Why a hand-off's clear is safe, for every budget, number of dispatchers *)
(* and bound: the invariant ClearInv, one lemma for each of its parts, and  *)
(* what follows from it.                                                    *)
(***************************************************************************)
EXTENDS Clear, TLAPS

\* A clear is spent when /clear may have been typed for the hand-off r, or a run is
\* committed to it: it reserved the clear and has not gone on from it yet.
HandOffs == [session : Sessions, proc : Nat \ {0}, at : Times]
Called(r) == \E i \in DOMAIN hist.calls : hist.calls[i] = r
Committed(d) == disp[d].pc \in {"look", "type"} \/ (disp[d].pc = "unmark" /\ disp[d].mark = None)
Clears(d, r) == Committed(d) /\ disp[d].rec = r
Spent(r) == Called(r) \/ \E d \in Slots : Clears(d, r)

\* What a spent clear comes to: its mark stands, or its session was told something
\* and its record is gone or void for good.
UpTo(r, s) == r.proc < s.proc \/ (r.proc = s.proc /\ r.session <= s.session)
Past(r, s) == r.proc < s.proc \/ (r.proc = s.proc /\ r.session < s.session)
Stands(s) == mark # None /\ mark.session = s
Settled(r) == Told(r.session) /\ (record # r \/ Past(r, snap))

\* A session number the snapshot has reached, or will pass when the process that is
\* bound without a session proves one.
Beneath(x) == x <= snap.session \/ (snap.session = 0 /\ x < agent.session /\ \A s \in hooks : x < s)
SessionsGrow ==
    /\ snap.proc = agent.proc /\ snap.session <= agent.session /\ \A s \in hooks : s <= agent.session
    /\ once.end <= agent.session
    /\ \A s \in Sessions : Told(s) => s <= once.end
    /\ once.end # 0 => Told(once.end)
    /\ mark # None => Beneath(mark.session) /\ once.end <= mark.session
RecordFits ==
    record # None =>
        /\ Beneath(record.session) /\ UpTo(record, snap)
        /\ once.end <= record.session /\ (mark # None => mark.session <= record.session)
        /\ record.at <= Now
        /\ record.session \notin hist.uncovered

\* What a run has in hand, whether it holds the lease or not.
Proving == {"prove", "resume", "rebuild", "note", "escalate", "forget", "unmark"}
Reading == {"sweep", "void", "read"}
Clearing == {"judge", "reserve", "look", "type"}
RunFits(d) ==
    LET x == disp[d]
    IN  /\ x.pc \in Clearing \union {"void"} => x.rec # None
        /\ x.pc \in Clearing \union Reading => x.mark = None
        /\ x.pc = "unmark" /\ x.mark = None => x.rec # None
        /\ x.pc \in Proving \ {"unmark"} => x.mark # None
        /\ x.pc \notin {"off", "pass"} =>
               /\ x.snap \in Snaps /\ x.snap.session <= agent.session
               /\ x.snap.proc < snap.proc \/ (x.snap.proc = snap.proc /\ x.snap.session <= snap.session)
        /\ x.pc = "reserve" => ~VoidFor(x.rec, x.snap)
        /\ x.pc \in {"resume", "forget"} => Same(d) /\ Proved(d)
        /\ x.pc \in {"rebuild", "note", "unmark"} /\ x.mark # None /\ Same(d) => Proved(d)

\* What the holder's run knows: nobody else touches the mark and the message.
HolderKnows(d) ==
    LET x == disp[d]
    IN  /\ x.pc \in {"judge", "reserve"} => mark = None
        /\ Committed(d) => Stands(x.rec.session)
        /\ x.pc \notin {"off", "pass"} /\ ~Committed(d) /\ mark # None =>
               x.snap.session = 0 \/ mark.session <= x.snap.session
        /\ x.pc \in Proving /\ x.mark # None =>
               /\ Stands(x.mark.session)
               /\ x.pc = "prove" => x.ended = once.end
               /\ x.pc \in {"note", "forget", "unmark"} => once.end = x.mark.session
               /\ Same(d) /\ Proved(d) => x.mark.session < agent.session /\ x.mark.session \notin hist.uncovered
HolderInv == \A d \in Slots : lease = d => HolderKnows(d)

\* What is known of a spent clear, and what the holder's run knows of it.
HolderMinds(d, r) ==
    LET x == disp[d]
    IN  /\ Committed(d) => Settled(r) \/ x.rec = r
        /\ x.pc \notin {"off", "pass"} /\ ~Committed(d) =>
               UpTo(r, x.snap) /\ (record # r \/ Stands(r.session) \/ Past(r, x.snap))
        /\ x.pc \in Proving /\ x.mark # None /\ record = r => x.rec = r
SpentFits(r) ==
    /\ r.at <= Now /\ UpTo(r, snap)
    /\ Settled(r) \/ Stands(r.session)
    /\ \A d \in Slots : lease = d => HolderMinds(d, r)
SpentInv == \A r \in HandOffs : Spent(r) => SpentFits(r)

\* A hand-off is spent once.
SpentOnce ==
    /\ ClearOncePerHandoff
    /\ \A i \in DOMAIN hist.calls : hist.calls[i] # None
    /\ \A d \in Slots : Committed(d) => ~Called(disp[d].rec)
    /\ \A d, e \in Slots : Committed(d) /\ Committed(e) /\ disp[d].rec = disp[e].rec => d = e

RunsFit == \A d \in Slots : RunFits(d)
ClearInv ==
    TypeOK /\ SessionsGrow /\ RecordFits /\ RunsFit /\ HolderInv /\ SpentInv /\ SpentOnce /\ OneMessagePerSession

-----------------------------------------------------------------------------
(* Types.                                                                   *)

Runs == [pc : Steps, snap : Snaps \union {None}, rec : Records, mark : Marks, ended : Sessions \union {0}]
Agents == [proc : Nat \ {0}, session : Sessions, turn : BOOLEAN, writing : {"none", "idle", "working"}]
Lefts == [{"statuses", "turns", "swaps", "losses", "faults"} -> Nat]
Hists == [sent : Seq(Sessions \X {"resume", "rebuild", "escalate"}), calls : Seq(Records),
          uncovered : SUBSET Sessions, trimmed : BOOLEAN]
Onces == [{"end", "note"} -> Sessions \union {0}]

LEMMA Types ==
    TypeOK <=> /\ agent \in Agents /\ pane \in Nat /\ hooks \subseteq Sessions
               /\ snap \in Snaps /\ record \in Records /\ mark \in Marks /\ once \in Onces
               /\ swap \in {"none", "begun", "replaced"} /\ lease \in Slots \union {None}
               /\ disp \in [Slots -> Runs]
               /\ left \in Lefts /\ left.statuses <= MaxStatuses
               /\ hist \in Hists
BY DEF TypeOK, Runs, Agents, Lefts, Hists, Onces

LEMMA Numbers ==
    /\ MaxSessions \in Nat /\ MaxSessions >= 1 /\ MaxStatuses \in Nat
    /\ Sessions \subseteq Nat /\ \A s \in Sessions : s >= 1 /\ s <= MaxSessions
    /\ 1 \in Sessions /\ 0 \in Times /\ Times \subseteq Nat
BY ClearAssumption DEF Sessions, Times

\* A run that is off, and one about to pass, have nothing in hand.
LEMMA OffType ==
    /\ Off \in Runs /\ Off.pc = "off" /\ Off.mark = None
    /\ [Off EXCEPT !.pc = "pass"] \in Runs /\ [Off EXCEPT !.pc = "pass"].pc = "pass"
    /\ Off.snap = None /\ Off.rec = None /\ Off.ended = 0
BY DEF Off, Runs, Steps, Records, Marks

LEMMA TypeInit == Init => TypeOK
<1> SUFFICES ASSUME Init PROVE TypeOK
  OBVIOUS
<1>1. left \in Lefts /\ left.statuses <= MaxStatuses
  <2>1. left \in [statuses : 0 .. MaxStatuses, turns : Nat, swaps : Nat, losses : Nat, faults : Nat]
    BY ClearAssumption DEF Init
  <2> QED BY <2>1, Numbers DEF Lefts
<1>2. agent \in Agents /\ snap \in Snaps
  BY Numbers DEF Init, Agents, Snaps
<1>3. once \in Onces
  BY DEF Init, Onces
<1>4. disp \in [Slots -> Runs]
  BY OffType DEF Init
<1>5. hist \in Hists
  <2>1. <<>> \in Seq(Sessions \X {"resume", "rebuild", "escalate"}) /\ <<>> \in Seq(Records)
    OBVIOUS
  <2> QED BY <2>1 DEF Init, Hists
<1> QED BY <1>1, <1>2, <1>3, <1>4, <1>5, Types DEF Init, Records, Marks

\* What a step spends leaves a budget.
LEMMA Spending ==
    ASSUME left \in Lefts, left.statuses <= MaxStatuses, NEW what \in {"statuses", "turns", "swaps", "losses", "faults"}, Spend(what)
    PROVE  /\ left' \in Lefts /\ left'.statuses <= MaxStatuses
           /\ what = "statuses" => left'.statuses = left.statuses - 1 /\ left.statuses > 0
           /\ what # "statuses" => left'.statuses = left.statuses
<1>1. left' = [left EXCEPT ![what] = left[what] - 1] /\ left[what] > 0 /\ left[what] \in Nat
  BY DEF Spend, Lefts
<1>2. left' \in Lefts /\ left'[what] = left[what] - 1 /\ \A f \in {"statuses", "turns", "swaps", "losses", "faults"} \ {what} : left'[f] = left[f]
  BY <1>1 DEF Lefts
<1> QED BY <1>1, <1>2, Numbers DEF Lefts

\* A step of a run to another place keeps what it has in hand, unless it starts over.
LEMMA Going ==
    ASSUME disp \in [Slots -> Runs], NEW d \in Slots, NEW pc \in Steps, Goto(d, pc)
    PROVE  /\ disp' \in [Slots -> Runs] /\ \A e \in Slots : e # d => disp'[e] = disp[e]
           /\ disp'[d].pc = pc
           /\ pc # "pass" => /\ disp'[d].snap = disp[d].snap /\ disp'[d].rec = disp[d].rec
                             /\ disp'[d].mark = disp[d].mark /\ disp'[d].ended = disp[d].ended
<1>1. CASE pc = "pass"
  <2>1. disp' = [disp EXCEPT ![d] = [Off EXCEPT !.pc = "pass"]]
    BY <1>1 DEF Goto
  <2> QED BY <2>1, <1>1, OffType
<1>2. CASE pc # "pass"
  <2>1. disp' = [disp EXCEPT ![d] = [disp[d] EXCEPT !.pc = pc]]
    BY <1>2 DEF Goto
  <2>2. [disp[d] EXCEPT !.pc = pc] \in Runs
    BY DEF Runs
  <2> QED BY <2>1, <2>2 DEF Runs
<1> QED BY <1>1, <1>2
LEMMA Stopping ==
    ASSUME disp \in [Slots -> Runs], NEW d \in Slots, disp' = [disp EXCEPT ![d] = Off]
    PROVE  /\ disp' \in [Slots -> Runs] /\ \A e \in Slots : e # d => disp'[e] = disp[e]
           /\ disp'[d] = Off
BY OffType

\* A status in the making, once written, and a turn's flip leave a snapshot.
LEMMA SnapTypes ==
    ASSUME TypeOK
    PROVE  /\ Statuses \in 0 .. MaxStatuses /\ Statuses \in Nat /\ Now \in Times /\ Now + 1 \in Times
           /\ \A state \in {"idle", "working"} : Flip(state) \in Snaps /\ Registered(state) \in Snaps
<1>1. left.statuses \in Nat /\ left.statuses <= MaxStatuses /\ MaxStatuses \in Nat
  BY Types, Numbers DEF Lefts
<1>2. Statuses \in 0 .. MaxStatuses /\ Statuses \in Nat /\ Now \in Times /\ Now + 1 \in Times /\ Now \in Nat
  BY <1>1 DEF Statuses, Now, Times
<1>3. snap \in Snaps /\ agent.proc \in Nat \ {0} /\ agent.session \in Sessions
  BY Types DEF Agents
<1>4. ASSUME NEW state \in {"idle", "working"} PROVE Flip(state) \in Snaps /\ Registered(state) \in Snaps
  <2>1. [snap EXCEPT !.state = state, !.ts = Now + 1] \in Snaps
    BY <1>2, <1>3 DEF Snaps
  <2>2. Registered(state) \in Snaps
    BY <1>2, <1>3 DEF Registered, Snaps
  <2> QED BY <2>1, <2>2, <1>3 DEF Flip
<1> QED BY <1>2, <1>4

\* The agent's client, a person and a swap keep the types.
LEMMA ClientType == TypeOK /\ Client => TypeOK'
<1> SUFFICES ASSUME TypeOK, Client PROVE TypeOK'
  OBVIOUS
<1>0. /\ agent \in Agents /\ pane \in Nat /\ hooks \subseteq Sessions
      /\ snap \in Snaps /\ record \in Records /\ mark \in Marks /\ once \in Onces
      /\ swap \in {"none", "begun", "replaced"} /\ lease \in Slots \union {None}
      /\ disp \in [Slots -> Runs] /\ left \in Lefts /\ left.statuses <= MaxStatuses /\ hist \in Hists
  BY Types
<1>s. once' = once /\ lease' = lease /\ disp' = disp
  BY DEF Client, StartTurn, EndTurn, Report, DeclareHandoff, PutSnapshot, Status, Cleared, RunClear, ClearByHand,
         ProveSession, BeginSwap, Replace, EndSwap, Trim, Late, bus, client
<1>l. left' \in Lefts /\ left'.statuses <= MaxStatuses
  <2>1. left' = left \/ \E what \in {"statuses", "turns", "swaps", "losses", "faults"} : Spend(what)
    BY DEF Client, StartTurn, EndTurn, Report, DeclareHandoff, PutSnapshot, Status, Cleared, RunClear, ClearByHand,
           ProveSession, BeginSwap, Replace, EndSwap, Trim, Late, Wrote, Fault
  <2> QED BY <2>1, <1>0, Spending
<1>h. hist' \in Hists
  <2>1. ASSUME NEW S \in SUBSET Sessions PROVE [hist EXCEPT !.uncovered = S] \in Hists /\ [hist EXCEPT !.trimmed = TRUE] \in Hists
    BY <1>0 DEF Hists
  <2>2. agent.session \in Sessions /\ hist.uncovered \subseteq Sessions
    BY <1>0 DEF Agents, Hists
  <2>3. hist' = hist \/ hist' = [hist EXCEPT !.trimmed = TRUE]
        \/ hist' = [hist EXCEPT !.uncovered = hist.uncovered \union {agent.session}]
        \/ hist' = [hist EXCEPT !.uncovered = hist.uncovered \ {agent.session}]
    BY DEF Client, StartTurn, EndTurn, Report, DeclareHandoff, PutSnapshot, Status, Cleared, RunClear, ClearByHand,
           ProveSession, BeginSwap, Replace, EndSwap, Trim, Late, Wrote, Fault
  <2> QED BY <2>1, <2>2, <2>3, <1>0
<1>m. mark' \in Marks
  BY <1>0 DEF Client, StartTurn, EndTurn, Report, DeclareHandoff, PutSnapshot, Status, Cleared, RunClear, ClearByHand,
         ProveSession, BeginSwap, Replace, EndSwap, Trim, Late, bus, Marks
<1>r. record' \in Records
  <2>1. CASE DeclareHandoff
    <3>1. Now + 2 \in Times
      BY <2>1, <1>0, Numbers DEF DeclareHandoff, Wrote, Spend, Now, Statuses, Times, Lefts
    <3> QED BY <2>1, <3>1, <1>0 DEF DeclareHandoff, Records, Agents
  <2>2. CASE ~DeclareHandoff
    BY <2>2, <1>0 DEF Client, StartTurn, EndTurn, Report, PutSnapshot, Status, Cleared, RunClear, ClearByHand,
         ProveSession, BeginSwap, Replace, EndSwap, Trim, Late, bus, Records
  <2> QED BY <2>1, <2>2
<1>n. snap' \in Snaps
  <2>1. \A state \in {"idle", "working"} : Flip(state) \in Snaps /\ Registered(state) \in Snaps
    BY SnapTypes
  <2>2. \A s \in Sessions : [snap EXCEPT !.session = s] \in Snaps
    BY <1>0 DEF Snaps
  <2>3. [snap EXCEPT !.proc = agent.proc + 1, !.session = 0] \in Snaps
    <3>1. agent.proc + 1 \in Nat \ {0} /\ 0 \in Sessions \union {0}
      BY <1>0 DEF Agents
    <3> QED BY <3>1, <1>0 DEF Snaps
  <2>4. CASE PutSnapshot
    BY <2>4, <2>1, <1>0 DEF PutSnapshot, Agents
  <2>5. CASE ~PutSnapshot
    BY <2>5, <2>1, <2>2, <2>3, <1>0 DEF Client, StartTurn, EndTurn, Report, DeclareHandoff, Status, Cleared, RunClear, ClearByHand,
         ProveSession, BeginSwap, Replace, EndSwap, Trim, Late, client
  <2> QED BY <2>4, <2>5
<1>a. agent' \in Agents
  <2>1. [agent EXCEPT !.turn = TRUE] \in Agents /\ [agent EXCEPT !.turn = FALSE] \in Agents
    BY <1>0 DEF Agents
  <2>2. \A w \in {"none", "idle", "working"} : [agent EXCEPT !.writing = w] \in Agents
    BY <1>0 DEF Agents
  <2>3. agent.session < MaxSessions => [agent EXCEPT !.session = agent.session + 1] \in Agents
    BY <1>0, Numbers DEF Agents, Sessions
  <2>4. agent.session < MaxSessions => [proc |-> agent.proc + 1, session |-> agent.session + 1, turn |-> FALSE, writing |-> "none"] \in Agents
    BY <1>0, Numbers DEF Agents, Sessions
  <2> QED BY <2>1, <2>2, <2>3, <2>4, <1>0 DEF Client, StartTurn, EndTurn, Report, DeclareHandoff, PutSnapshot, Status, Cleared, RunClear, ClearByHand,
         ProveSession, BeginSwap, Replace, EndSwap, Trim, Late, client, Wrote
<1>k. hooks' \subseteq Sessions
  <2>1. agent.session < MaxSessions => agent.session + 1 \in Sessions
    BY <1>0, Numbers DEF Agents, Sessions
  <2> QED BY <2>1, <1>0 DEF Client, StartTurn, EndTurn, Report, DeclareHandoff, PutSnapshot, Status, Cleared, RunClear, ClearByHand,
         ProveSession, BeginSwap, Replace, EndSwap, Trim, Late, client
<1>p. pane' \in Nat /\ swap' \in {"none", "begun", "replaced"}
  BY <1>0 DEF Client, StartTurn, EndTurn, Report, DeclareHandoff, PutSnapshot, Status, Cleared, RunClear, ClearByHand,
         ProveSession, BeginSwap, Replace, EndSwap, Trim, Late, client
<1> QED BY <1>0, <1>s, <1>l, <1>h, <1>m, <1>r, <1>n, <1>a, <1>k, <1>p, Types DEF TypeOK, Runs, Agents, Lefts, Hists, Onces

\* What every dispatcher step leaves alone, and where a run may go.
LEMMA StepsAre ==
    /\ {"off", "pass", "sweep", "void", "read", "prove", "resume", "rebuild", "note", "escalate"} \subseteq Steps
    /\ {"forget", "unmark", "judge", "reserve", "look", "type"} \subseteq Steps
    /\ \A d : Verdict(d) \in {"pass", "unmark", "rebuild", "resume", "escalate"}
<1>1. \A d : Verdict(d) \in {"pass", "unmark", "rebuild", "resume", "escalate"}
  BY DEF Verdict
<1> QED BY <1>1 DEF Steps

\* The fenced message: refused without the lease, an error during a swap, else sent once.
LEMMA CmdDoes ==
    ASSUME TypeOK, RunsFit, NEW d \in Slots, NEW pc \in Proving \ {"unmark"}, NEW field \in {"end", "note"}, NEW toAgent \in BOOLEAN,
           NEW kind \in {"resume", "rebuild", "escalate", "note"}, field = "end" => kind # "note",
           NEW next \in Steps, CmdOnce(d, pc, field, toAgent, kind, next)
    PROVE  /\ disp[d].pc = pc /\ UNCHANGED <<client, record, mark, lease, left>>
           /\ once' \in Onces /\ hist' \in Hists
           /\ disp' \in [Slots -> Runs] /\ \A e \in Slots : e # d => disp'[e] = disp[e]
           /\ \/ disp' = [disp EXCEPT ![d] = Off] /\ once' = once /\ hist' = hist
              \/ Goto(d, "pass") /\ once' = once /\ hist' = hist
              \/ /\ lease = d /\ Goto(d, next)
                 /\ once'[field] = disp[d].mark.session
                 /\ field = "note" => once'.end = once.end
                 /\ field = "note" \/ once.end = disp[d].mark.session => hist' = hist
                 /\ field = "end" /\ once.end # disp[d].mark.session =>
                        /\ hist'.sent = Append(hist.sent, <<disp[d].mark.session, kind>>)
                        /\ hist'.calls = hist.calls /\ hist'.uncovered = hist.uncovered
<1>1. disp[d].pc = pc /\ UNCHANGED <<client, record, mark, lease, left>>
  BY DEF CmdOnce, At, Refused, bus
<1>2. disp[d].mark \in Marks /\ disp[d].mark # None
  BY Types DEF RunsFit, RunFits, CmdOnce, At, Runs
<1>3. disp[d].mark.session \in Sessions
  BY <1>2 DEF Marks
<1> DEFINE s == disp[d].mark.session
<1>4. once \in Onces /\ hist \in Hists
  BY Types
<1>d. disp \in [Slots -> Runs] /\ "pass" \in Steps
  BY Types, StepsAre
<1>5. CASE Refused(d)
  BY <1>1, <1>4, <1>5, <1>d, Stopping DEF Refused, bus
<1>6. CASE lease = d /\ Goto(d, "pass") /\ UNCHANGED <<bus, hist>>
  <2>1. disp' \in [Slots -> Runs] /\ \A e \in Slots : e # d => disp'[e] = disp[e]
    BY <1>d, <1>6, Going
  <2> QED BY <2>1, <1>1, <1>4, <1>6 DEF bus
<1>7. CASE /\ lease = d /\ Goto(d, next)
           /\ once' = [once EXCEPT ![field] = s]
           /\ hist' = IF field # "end" \/ once.end = s THEN hist
                      ELSE [hist EXCEPT !.sent = Append(hist.sent, <<s, kind>>)]
  <2>d. disp' \in [Slots -> Runs] /\ \A e \in Slots : e # d => disp'[e] = disp[e]
    BY <1>d, <1>7, Going
  <2>1. once' \in Onces /\ once'[field] = s /\ (field = "note" => once'.end = once.end)
    BY <1>3, <1>4, <1>7 DEF Onces
  <2>2. CASE field # "end" \/ once.end = s
    BY <2>d, <2>1, <2>2, <1>1, <1>4, <1>7
  <2>3. CASE ~(field # "end" \/ once.end = s)
    <3>1. <<s, kind>> \in Sessions \X {"resume", "rebuild", "escalate"}
      BY <1>3, <2>3
    <3>2. Append(hist.sent, <<s, kind>>) \in Seq(Sessions \X {"resume", "rebuild", "escalate"})
      BY <3>1, <1>4 DEF Hists
    <3>3. hist' = [hist EXCEPT !.sent = Append(hist.sent, <<s, kind>>)]
      BY <2>3, <1>7
    <3>4. hist' \in Hists /\ hist'.sent = Append(hist.sent, <<s, kind>>)
          /\ hist'.calls = hist.calls /\ hist'.uncovered = hist.uncovered
      BY <3>2, <3>3, <1>4 DEF Hists
    <3> QED BY <3>4, <2>d, <2>1, <2>3, <1>1, <1>7
  <2> QED BY <2>2, <2>3
<1> QED BY <1>5, <1>6, <1>7 DEF CmdOnce, Holds

LEMMA DispatcherType ==
    ASSUME TypeOK, RunsFit, NEW d \in Slots, Dispatcher(d)
    PROVE  TypeOK' /\ UNCHANGED <<agent, hooks, snap, swap>> /\ \A e \in Slots : e # d => disp'[e] = disp[e]
<1>0. /\ agent \in Agents /\ pane \in Nat /\ hooks \subseteq Sessions
      /\ snap \in Snaps /\ record \in Records /\ mark \in Marks /\ once \in Onces
      /\ swap \in {"none", "begun", "replaced"} /\ lease \in Slots \union {None}
      /\ disp \in [Slots -> Runs] /\ left \in Lefts /\ left.statuses <= MaxStatuses /\ hist \in Hists
  BY Types
<1>p. TypeOK' <=> /\ agent' \in Agents /\ pane' \in Nat /\ hooks' \subseteq Sessions
               /\ snap' \in Snaps /\ record' \in Records /\ mark' \in Marks /\ once' \in Onces
               /\ swap' \in {"none", "begun", "replaced"} /\ lease' \in Slots \union {None}
               /\ disp' \in [Slots -> Runs]
               /\ left' \in Lefts /\ left'.statuses <= MaxStatuses
               /\ hist' \in Hists
  BY Types DEF TypeOK, Runs, Agents, Lefts, Hists, Onces
<1>d. ASSUME NEW pc \in Steps, Goto(d, pc) PROVE disp' \in [Slots -> Runs] /\ \A e \in Slots : e # d => disp'[e] = disp[e]
  BY <1>d, <1>0, Going
<1>o. ASSUME disp' = [disp EXCEPT ![d] = Off] PROVE disp' \in [Slots -> Runs] /\ \A e \in Slots : e # d => disp'[e] = disp[e]
  BY <1>o, <1>0, Stopping
<1>r. ASSUME Refused(d) PROVE disp' \in [Slots -> Runs] /\ (\A e \in Slots : e # d => disp'[e] = disp[e]) /\ UNCHANGED <<client, bus, lease, left, hist>>
  BY <1>r, <1>o DEF Refused
<1>1. CASE Acquire(d)
  BY <1>1, <1>0, <1>p, <1>d, StepsAre DEF Acquire, client, bus
<1>2. CASE Pass(d)
  <2>1. disp' = [disp EXCEPT ![d] = disp'[d]] /\ disp'[d] \in Runs
    <3>1. [[Off EXCEPT !.pc = "sweep"] EXCEPT !.snap = snap] \in Runs
      <4>1. [Off EXCEPT !.pc = "sweep"] \in Runs
        BY OffType, StepsAre DEF Runs
      <4> QED BY <4>1, <1>0 DEF Runs
    <3>2. disp' = [disp EXCEPT ![d] = [[Off EXCEPT !.pc = "sweep"] EXCEPT !.snap = snap]]
      BY <1>2, Zenon DEF Pass
    <3> QED BY <3>1, <3>2, <1>0
  <2> QED BY <2>1, <1>2, <1>0, <1>p DEF Pass, client, bus
<1>3. CASE Sweep(d)
  <2>1. [[disp[d] EXCEPT !.pc = "void"] EXCEPT !.rec = record] \in Runs /\ [disp[d] EXCEPT !.pc = "read"] \in Runs
    <3>1. [disp[d] EXCEPT !.pc = "void"] \in Runs /\ [disp[d] EXCEPT !.pc = "read"] \in Runs
      BY <1>0, StepsAre DEF Runs
    <3> QED BY <3>1, <1>0 DEF Runs
  <2>2. \/ disp' = [disp EXCEPT ![d] = [[disp[d] EXCEPT !.pc = "void"] EXCEPT !.rec = record]]
        \/ disp' = [disp EXCEPT ![d] = [disp[d] EXCEPT !.pc = "read"]]
    BY <1>3, <1>0 DEF Sweep
  <2>3. disp' \in [Slots -> Runs] /\ \A e \in Slots : e # d => disp'[e] = disp[e]
    BY <2>1, <2>2, <1>0
  <2> QED BY <2>3, <1>3, <1>0, <1>p DEF Sweep, client, bus
<1>4. CASE Void(d)
  BY <1>4, <1>0, <1>p, <1>d, <1>r, StepsAre DEF Void, DeleteHandoff, client, bus, Records
<1>5. CASE Read(d)
  <2>1. CASE mark # None
    <3>1. [[[[disp[d] EXCEPT !.pc = "prove"] EXCEPT !.rec = record] EXCEPT !.mark = mark] EXCEPT !.ended = once.end] \in Runs
      <4>1. [disp[d] EXCEPT !.pc = "prove"] \in Runs
        BY <1>0, StepsAre DEF Runs
      <4>2. [[disp[d] EXCEPT !.pc = "prove"] EXCEPT !.rec = record] \in Runs
        BY <4>1, <1>0 DEF Runs
      <4>3. [[[disp[d] EXCEPT !.pc = "prove"] EXCEPT !.rec = record] EXCEPT !.mark = mark] \in Runs
        BY <4>2, <1>0 DEF Runs
      <4> QED BY <4>3, <1>0 DEF Runs, Onces
    <3>2. disp' = [disp EXCEPT ![d] = [[[[disp[d] EXCEPT !.pc = "prove"] EXCEPT !.rec = record] EXCEPT !.mark = mark] EXCEPT !.ended = once.end]]
      BY <1>5, <2>1, Zenon DEF Read
    <3>3. disp' \in [Slots -> Runs] /\ \A e \in Slots : e # d => disp'[e] = disp[e]
      BY <3>1, <3>2, <1>0
    <3> QED BY <3>3, <1>5, <1>0, <1>p DEF Read, client, bus
  <2>2. CASE mark = None /\ record # None
    <3>1. [[disp[d] EXCEPT !.pc = "judge"] EXCEPT !.rec = record] \in Runs
      <4>1. [disp[d] EXCEPT !.pc = "judge"] \in Runs
        BY <1>0, StepsAre DEF Runs
      <4> QED BY <4>1, <1>0 DEF Runs
    <3>2. disp' = [disp EXCEPT ![d] = [[disp[d] EXCEPT !.pc = "judge"] EXCEPT !.rec = record]]
      BY <1>5, <2>2, Zenon DEF Read
    <3>3. disp' \in [Slots -> Runs] /\ \A e \in Slots : e # d => disp'[e] = disp[e]
      BY <3>1, <3>2, <1>0
    <3> QED BY <3>3, <1>5, <1>0, <1>p DEF Read, client, bus
  <2>3. CASE mark = None /\ record = None
    BY <2>3, <1>5, <1>0, <1>p, <1>d, StepsAre DEF Read, client, bus
  <2> QED BY <2>1, <2>2, <2>3
<1>6. CASE Prove(d)
  <2>1. Verdict(d) \in Steps /\ Goto(d, Verdict(d)) /\ UNCHANGED <<client, bus, lease, left, hist>>
    BY <1>6, StepsAre DEF Prove
  <2> QED BY <2>1, <1>d, <1>0, <1>p DEF client, bus
<1>7. ASSUME NEW pc \in Proving \ {"unmark"}, NEW field \in {"end", "note"}, NEW toAgent \in BOOLEAN, NEW kind \in {"resume", "rebuild", "escalate", "note"},
             field = "end" => kind # "note", NEW next \in Steps, CmdOnce(d, pc, field, toAgent, kind, next)
      PROVE TypeOK' /\ UNCHANGED <<agent, hooks, snap, swap>> /\ \A e \in Slots : e # d => disp'[e] = disp[e]
  <2>1. /\ UNCHANGED <<client, record, mark, lease, left>>
        /\ disp' \in [Slots -> Runs] /\ \A e \in Slots : e # d => disp'[e] = disp[e]
        /\ once' \in Onces /\ hist' \in Hists
    <3>1. UNCHANGED <<client, record, mark, lease, left>>
      BY <1>7, CmdDoes
    <3>2. disp' \in [Slots -> Runs]
      BY <1>7, CmdDoes
    <3>4. ASSUME NEW e \in Slots, e # d PROVE disp'[e] = disp[e]
      BY <1>7, <3>4, CmdDoes
    <3>3. once' \in Onces /\ hist' \in Hists
      BY <1>7, CmdDoes
    <3> QED BY <3>1, <3>2, <3>3, <3>4
  <2> QED BY <2>1, <1>0, <1>p DEF client
<1>8. CASE Resume(d) \/ Rebuild(d) \/ Note(d) \/ Escalate(d)
  BY <1>7, <1>8, StepsAre DEF Resume, Rebuild, Note, Escalate, Proving
<1>9. CASE Forget(d)
  BY <1>9, <1>0, <1>p, <1>d, <1>r, StepsAre DEF Forget, DeleteHandoff, client, bus, Records
<1>10. CASE Unmark(d)
  BY <1>10, <1>0, <1>p, <1>d, <1>r, StepsAre DEF Unmark, client, bus, Marks
<1>11. CASE Judge(d)
  BY <1>11, <1>0, <1>p, <1>d, <1>r, StepsAre DEF Judge, client, bus
<1>12. CASE Reserve(d)
  <2>1. CASE Refused(d)
    BY <2>1, <1>r, <1>0, <1>p DEF client, bus
  <2>2. CASE lease = d /\ record = disp[d].rec /\ (mark = None \/ mark.session # record.session)
    <3>1. record # None
      BY <2>2, <1>12 DEF Reserve, At, RunsFit, RunFits, Clearing
    <3>2. [session |-> record.session, after |-> Statuses, late |-> FALSE] \in Marks
      BY <3>1, <1>0, SnapTypes DEF Records, Marks
    <3>3. mark' \in Marks
      BY <3>2, <2>2, <1>12 DEF Reserve, Refused, Holds
    <3>4. [hist EXCEPT !.trimmed = FALSE] \in Hists
      BY <1>0 DEF Hists
    <3>5. hist' \in Hists
      BY <3>4, <2>2, <1>12 DEF Reserve, Refused, Holds
    <3>6. Goto(d, "look") /\ UNCHANGED <<client, record, once, lease, left>>
      BY <2>2, <1>12 DEF Reserve, Refused, Holds
    <3> QED BY <3>3, <3>5, <3>6, <1>0, <1>d, <1>p, StepsAre DEF client
  <2>3. CASE lease = d /\ ~(record = disp[d].rec /\ (mark = None \/ mark.session # record.session))
    <3>1. Goto(d, "pass") /\ UNCHANGED <<client, record, once, lease, left, mark, hist>>
      BY <2>3, <1>12 DEF Reserve, Refused, Holds
    <3> QED BY <3>1, <1>0, <1>d, <1>p, StepsAre DEF client
  <2> QED BY <2>1, <2>2, <2>3, <1>12 DEF Reserve, Holds
<1>13. CASE LookAgain(d)
  BY <1>13, <1>0, <1>p, <1>d, StepsAre DEF LookAgain, client, bus
<1>14. CASE Type(d)
  <2>1. Append(hist.calls, disp[d].rec) \in Seq(Records)
    BY <1>0 DEF Runs, Hists
  <2>2. hist' = [hist EXCEPT !.calls = Append(hist.calls, disp[d].rec)]
    BY <1>14, Zenon DEF Type
  <2>3. hist' \in Hists
    BY <2>1, <2>2, <1>0 DEF Hists
  <2>4. left' = left \/ Spend("faults")
    BY <1>14 DEF Type, Fault
  <2>5. left' \in Lefts /\ left'.statuses <= MaxStatuses
    BY <2>4, <1>0, Spending
  <2>6. pane' \in Nat /\ Goto(d, "pass") /\ UNCHANGED <<agent, hooks, snap, swap, bus, lease>>
    BY <1>14, <1>0 DEF Type
  <2> QED BY <2>3, <2>5, <2>6, <1>0, <1>d, <1>p, StepsAre DEF bus
<1>15. CASE Fail(d)
  <2>1. Goto(d, "pass") /\ UNCHANGED <<client, bus, lease, hist>> /\ Spend("faults")
    BY <1>15 DEF Fail, Fault
  <2> QED BY <2>1, Spending, <1>0, <1>d, <1>p, StepsAre DEF client, bus
<1>16. CASE Crash(d)
  <2>1. disp' = [disp EXCEPT ![d] = Off] /\ UNCHANGED <<client, bus, lease, hist>> /\ Spend("faults")
    BY <1>16 DEF Crash, Fault
  <2> QED BY <2>1, Spending, <1>0, <1>o, <1>p, StepsAre DEF client, bus
<1>17. CASE Lose(d)
  <2>1. lease' = None /\ UNCHANGED <<client, bus, disp, hist>> /\ Spend("losses")
    BY <1>17 DEF Lose
  <2> QED BY <2>1, Spending, <1>0, <1>p DEF client, bus
<1>18. CASE Expire(d)
  BY <1>18, <1>0, <1>p DEF Expire, client, bus
<1> QED BY <1>1, <1>2, <1>3, <1>4, <1>5, <1>6, <1>8, <1>9, <1>10, <1>11, <1>12, <1>13, <1>14, <1>15, <1>16, <1>17, <1>18
        DEF Dispatcher, Step

LEMMA TypeStep == TypeOK /\ RunsFit /\ [Next]_vars => TypeOK'
<1>1. TypeOK /\ UNCHANGED vars => TypeOK'
  BY DEF TypeOK, vars, Records, Marks, Snaps
<1> QED BY <1>1, ClientType, DispatcherType DEF Next

-----------------------------------------------------------------------------
(* What the agent, a person and a swap do to the sessions and the record.   *)

LEMMA ClientDoes ==
    ASSUME TypeOK, SessionsGrow, Client
    PROVE  /\ UNCHANGED <<once, lease, disp>> /\ hist'.sent = hist.sent /\ hist'.calls = hist.calls
           /\ mark = None => mark' = None
           /\ mark # None => mark' # None /\ mark'.session = mark.session
           /\ agent.session <= agent'.session /\ agent'.proc = snap'.proc /\ snap'.session <= agent'.session
           /\ \A s \in hooks' : s <= agent'.session
           /\ snap.proc < snap'.proc \/ (snap.proc = snap'.proc /\ snap.session <= snap'.session)
           /\ Now <= Now'
           /\ \A x \in Sessions : Beneath(x) => Beneath(x)'
           /\ \A s \in hist'.uncovered : s \in hist.uncovered \/ s = agent.session
           /\ \/ record' = None
              \/ record' = record /\ hist'.uncovered = hist.uncovered
              \/ /\ record' = [session |-> agent.session, proc |-> agent.proc, at |-> Now']
                 /\ Now' = Now + 2 /\ snap' = snap /\ agent'.session = agent.session /\ hooks' = hooks
                 /\ snap.session = agent.session
                 /\ hist'.uncovered = hist.uncovered \ {agent.session}
<1>0. /\ agent \in Agents /\ hooks \subseteq Sessions /\ snap \in Snaps /\ mark \in Marks
      /\ left \in Lefts /\ left.statuses <= MaxStatuses /\ hist \in Hists
  BY Types
<1>g. snap.proc = agent.proc /\ snap.session <= agent.session /\ \A s \in hooks : s <= agent.session
  BY DEF SessionsGrow
<1>n. /\ agent.session \in Nat /\ snap.session \in Nat /\ agent.proc \in Nat /\ MaxSessions \in Nat
      /\ \A x \in Sessions : x \in Nat /\ x >= 1
  BY <1>0, Numbers DEF Agents, Snaps
<1>1. UNCHANGED <<once, lease, disp>>
  BY DEF Client, StartTurn, EndTurn, Report, DeclareHandoff, PutSnapshot, Status, Cleared, RunClear, ClearByHand,
         ProveSession, BeginSwap, Replace, EndSwap, Trim, Late, bus, client
<1>2. hist'.sent = hist.sent /\ hist'.calls = hist.calls /\ \A s \in hist'.uncovered : s \in hist.uncovered \/ s = agent.session
  BY <1>0 DEF Client, StartTurn, EndTurn, Report, DeclareHandoff, PutSnapshot, Status, Cleared, RunClear, ClearByHand,
         ProveSession, BeginSwap, Replace, EndSwap, Trim, Late, Hists
<1>3. (mark = None => mark' = None) /\ (mark # None => mark' # None /\ mark'.session = mark.session)
  <2>1. CASE Late
    <3>1. mark # None /\ mark' = [mark EXCEPT !.late = TRUE] /\ mark \in [session : Sessions, after : 0 .. MaxStatuses, late : BOOLEAN]
      BY <2>1, <1>0 DEF Late, Marks
    <3>2. mark' \in [session : Sessions, after : 0 .. MaxStatuses, late : BOOLEAN] /\ mark'.session = mark.session
      BY <3>1
    <3>3. mark' \in [session : Nat, after : Nat, late : BOOLEAN]
      <4>1. Sessions \subseteq Nat /\ 0 .. MaxStatuses \subseteq Nat
        BY Numbers
      <4> QED BY <3>2, <4>1, Zenon
    <3> QED BY <3>1, <3>2, <3>3, ClearAssumption
  <2>2. CASE ~Late
    BY <2>2 DEF Client, StartTurn, EndTurn, Report, DeclareHandoff, PutSnapshot, Status, Cleared, RunClear, ClearByHand,
         ProveSession, BeginSwap, Replace, EndSwap, Trim, bus
  <2> QED BY <2>1, <2>2
<1>4. Now <= Now'
  <2>1. left' = left \/ \E what \in {"statuses", "turns", "swaps", "losses", "faults"} : Spend(what)
    BY DEF Client, StartTurn, EndTurn, Report, DeclareHandoff, PutSnapshot, Status, Cleared, RunClear, ClearByHand,
           ProveSession, BeginSwap, Replace, EndSwap, Trim, Late, Wrote, Fault
  <2>2. left'.statuses = left.statuses \/ left'.statuses = left.statuses - 1
    BY <2>1, <1>0, Spending
  <2> QED BY <2>2, <1>0, Numbers DEF Now, Statuses, Lefts
\* The identity of the snapshot, the agent's and the hooks: a step of one kind or none.
<1>5. \/ UNCHANGED <<agent, hooks>> /\ snap' = snap
      \/ agent'.session = agent.session /\ agent'.proc = agent.proc /\ hooks' = hooks /\ snap'.proc = snap.proc /\ snap'.session = snap.session
      \/ /\ agent'.session = agent.session /\ agent'.proc = agent.proc /\ hooks' = hooks /\ snap'.proc = agent.proc
         /\ snap'.session = IF snap.session # 0 THEN snap.session ELSE agent.session
      \/ /\ agent'.session = agent.session + 1 /\ agent'.proc = agent.proc /\ hooks' = hooks \union {agent.session + 1} /\ snap' = snap
      \/ \E s \in hooks : /\ agent' = agent /\ hooks' = hooks \ {s} /\ snap'.proc = snap.proc
                          /\ snap'.session = snap.session \/ (s > snap.session /\ snap'.session = s)
      \/ /\ agent'.session = agent.session + 1 /\ agent'.proc = agent.proc + 1 /\ hooks' = {agent.session + 1}
         /\ snap'.proc = agent.proc + 1 /\ snap'.session = 0
  <2>1. \A state \in {"idle", "working"} : Flip(state).proc = snap.proc /\ Flip(state).session = snap.session
    BY <1>0 DEF Flip, Snaps
  <2>2. CASE StartTurn \/ EndTurn
    BY <2>1, <2>2, <1>0 DEF StartTurn, EndTurn, Agents
  <2>3. CASE Report \/ DeclareHandoff \/ (\E state \in {"working", "idle"} : Status(state)) \/ BeginSwap \/ EndSwap \/ Trim \/ Late
    BY <2>3, <1>0 DEF Report, DeclareHandoff, Status, Wrote, BeginSwap, EndSwap, Trim, Late, client, Agents
  <2>4. CASE PutSnapshot
    <3>1. agent'.session = agent.session /\ agent'.proc = agent.proc /\ hooks' = hooks /\ (snap' = snap \/ snap' = Registered(agent.writing))
      BY <2>4, <1>0 DEF PutSnapshot, Agents
    <3> QED BY <3>1, <1>g DEF Registered
  <2>5. CASE RunClear \/ ClearByHand
    BY <2>5, <1>0 DEF RunClear, ClearByHand, Cleared, Agents
  <2>6. CASE \E s \in Sessions : ProveSession(s)
    <3>1. PICK s \in Sessions : ProveSession(s)
      BY <2>6
    <3>2. s \in hooks /\ hooks' = hooks \ {s} /\ agent' = agent
      BY <3>1 DEF ProveSession
    <3>3. snap' = snap \/ (snap' = IF s > snap.session THEN [snap EXCEPT !.session = s] ELSE snap)
      BY <3>1, <1>g DEF ProveSession
    <3>4. CASE snap' = snap
      BY <3>2, <3>4
    <3>5. CASE snap' # snap
      BY <3>2, <3>3, <3>5, <1>0 DEF Snaps
    <3> QED BY <3>4, <3>5
  <2>7. CASE Replace
    <3>1. snap' = [[snap EXCEPT !.proc = agent.proc + 1] EXCEPT !.session = 0]
      BY <2>7 DEF Replace
    <3>2. snap'.proc = agent.proc + 1 /\ snap'.session = 0
      BY <3>1, <1>0 DEF Snaps
    <3> QED BY <3>2, <2>7 DEF Replace
  <2>8. \/ StartTurn \/ EndTurn \/ Report \/ DeclareHandoff \/ (\E state \in {"working", "idle"} : Status(state)) \/ BeginSwap
        \/ EndSwap \/ Trim \/ Late \/ PutSnapshot \/ RunClear \/ ClearByHand \/ (\E s \in Sessions : ProveSession(s)) \/ Replace
    BY DEF Client
  <2> HIDE DEF Client
  <2> QED BY <2>2, <2>3, <2>4, <2>5, <2>6, <2>7, <2>8
<1>6. /\ agent.session <= agent'.session /\ agent'.proc = snap'.proc /\ snap'.session <= agent'.session
      /\ \A s \in hooks' : s <= agent'.session
      /\ snap.proc < snap'.proc \/ (snap.proc = snap'.proc /\ snap.session <= snap'.session)
  BY <1>5, <1>g, <1>n, <1>0
<1>7. ASSUME NEW x \in Sessions, Beneath(x) PROVE Beneath(x)'
  BY <1>5, <1>7, <1>g, <1>n, <1>0 DEF Beneath
<1>8. \/ record' = None
      \/ record' = record /\ hist'.uncovered = hist.uncovered
      \/ /\ record' = [session |-> agent.session, proc |-> agent.proc, at |-> Now']
         /\ Now' = Now + 2 /\ snap' = snap /\ agent'.session = agent.session /\ hooks' = hooks
         /\ snap.session = agent.session
         /\ hist'.uncovered = hist.uncovered \ {agent.session}
  <2>1. CASE DeclareHandoff
    <3>1. left'.statuses = left.statuses - 1 /\ left.statuses > 0
      BY <2>1, <1>0, Spending DEF DeclareHandoff, Wrote
    <3>2. Now' = Now + 2
      BY <3>1, <1>0, Numbers DEF Now, Statuses, Lefts
    <3> QED BY <3>2, <2>1, <1>0 DEF DeclareHandoff, Wrote, Agents, Hists
  <2>2. CASE Report
    BY <2>2 DEF Report
  <2>3. CASE \E state \in {"working", "idle"} : Status(state)
    BY <2>3 DEF Status
  <2>4. CASE StartTurn \/ EndTurn \/ BeginSwap \/ EndSwap \/ Trim \/ Late \/ PutSnapshot \/ RunClear \/ ClearByHand
             \/ (\E s \in Sessions : ProveSession(s)) \/ Replace
    BY <2>4, <1>0 DEF StartTurn, EndTurn, PutSnapshot, RunClear, ClearByHand, Cleared,
           ProveSession, BeginSwap, Replace, EndSwap, Trim, Late, bus, Hists
  <2> QED BY <2>1, <2>2, <2>3, <2>4 DEF Client
<1> QED BY <1>1, <1>2, <1>3, <1>4, <1>6, <1>7, <1>8

-----------------------------------------------------------------------------
(* What a dispatcher's run does to the bus, and with what in hand.          *)

\* A step that touches neither the mark, nor the message, nor the pane.
Quiet(d) ==
    \/ Acquire(d) \/ Pass(d) \/ Sweep(d) \/ Read(d) \/ Prove(d) \/ Judge(d) \/ LookAgain(d)
    \/ Fail(d) \/ Crash(d) \/ Lose(d) \/ Expire(d) \/ Refused(d)
SameBus == UNCHANGED <<mark, once>> /\ hist' = hist
Sends(d) == Resume(d) \/ Rebuild(d) \/ Note(d) \/ Escalate(d)

LEMMA QuietDoes == ASSUME NEW d \in Slots, Quiet(d) PROVE SameBus /\ record' = record
BY DEF Quiet, SameBus, Acquire, Pass, Sweep, Read, Prove, Judge, LookAgain, Fail, Crash, Lose, Expire, Refused, bus

LEMMA DropDoes ==
    ASSUME NEW d \in Slots, Void(d) \/ Forget(d)
    PROVE  SameBus /\ (record' = record \/ record' = None) /\ lease' = lease
BY DEF SameBus, Void, Forget, DeleteHandoff, Refused, bus

LEMMA SendDoes ==
    ASSUME TypeOK, RunsFit, NEW d \in Slots, Sends(d)
    PROVE  /\ UNCHANGED <<record, mark, lease, left>> /\ hist'.calls = hist.calls /\ hist'.uncovered = hist.uncovered
           /\ disp[d].mark # None /\ disp[d].mark.session \in Sessions
           /\ \/ once' = once /\ hist' = hist /\ disp'[d].pc \in {"off", "pass"}
              \/ /\ lease = d /\ disp[d].pc = "note" /\ disp'[d].pc = "unmark"
                 /\ once'.end = once.end /\ hist' = hist
              \/ /\ lease = d /\ <<disp[d].pc, disp'[d].pc>> \in {<<"resume", "forget">>, <<"rebuild", "note">>, <<"escalate", "pass">>}
                 /\ once'.end = disp[d].mark.session
                 /\ \/ once.end = disp[d].mark.session /\ hist' = hist
                    \/ /\ once.end # disp[d].mark.session
                       /\ hist'.sent = Append(hist.sent, <<disp[d].mark.session, disp[d].pc>>)
           /\ disp'[d].pc \notin {"off", "pass"} =>
                  /\ disp'[d].snap = disp[d].snap /\ disp'[d].rec = disp[d].rec
                  /\ disp'[d].mark = disp[d].mark /\ disp'[d].ended = disp[d].ended
<1>0. disp \in [Slots -> Runs] /\ once \in Onces /\ hist \in Hists
  BY Types
<1>1. ASSUME NEW pc \in {"resume", "rebuild", "escalate", "note"}, NEW field \in {"end", "note"}, NEW toAgent \in BOOLEAN,
             field = "end" => pc # "note", NEW next \in Steps, CmdOnce(d, pc, field, toAgent, pc, next)
      PROVE  /\ disp[d].pc = pc /\ UNCHANGED <<record, mark, lease, left>> /\ hist'.calls = hist.calls /\ hist'.uncovered = hist.uncovered
             /\ disp[d].mark # None /\ disp[d].mark.session \in Sessions
             /\ \/ once' = once /\ hist' = hist /\ disp'[d].pc \in {"off", "pass"}
                \/ field = "note" /\ lease = d /\ disp'[d].pc = next /\ once'.end = once.end /\ hist' = hist
                \/ /\ field = "end" /\ lease = d /\ disp'[d].pc = next /\ once'.end = disp[d].mark.session
                   /\ \/ once.end = disp[d].mark.session /\ hist' = hist
                      \/ /\ once.end # disp[d].mark.session
                         /\ hist'.sent = Append(hist.sent, <<disp[d].mark.session, pc>>)
             /\ disp'[d].pc \notin {"off", "pass"} =>
                  /\ disp'[d].snap = disp[d].snap /\ disp'[d].rec = disp[d].rec
                  /\ disp'[d].mark = disp[d].mark /\ disp'[d].ended = disp[d].ended
  <2>1. pc \in Proving \ {"unmark"}
    BY DEF Proving
  <2>2. disp[d].pc = pc /\ UNCHANGED <<record, mark, lease, left>>
    BY <1>1 DEF CmdOnce, At, Refused, bus
  <2>3. disp[d].mark # None /\ disp[d].mark \in Marks
    BY <2>1, <2>2, <1>0 DEF RunsFit, RunFits, Runs
  <2>4. disp[d].mark.session \in Sessions
    BY <2>3 DEF Marks
  <2> DEFINE s == disp[d].mark.session
  <2>5. CASE Refused(d)
    <3>1. disp'[d] = Off /\ once' = once /\ hist' = hist
      BY <2>5, <1>0 DEF Refused, bus
    <3> QED BY <3>1, <2>2, <2>3, <2>4, OffType
  <2>6. CASE lease = d /\ Goto(d, "pass") /\ UNCHANGED <<bus, hist>>
    <3>1. disp'[d].pc = "pass"
      BY <2>6, <1>0, StepsAre, Going
    <3> QED BY <3>1, <2>2, <2>3, <2>4, <2>6 DEF bus
  <2>7. CASE /\ lease = d /\ Goto(d, next)
             /\ once' = [once EXCEPT ![field] = s]
             /\ hist' = IF field # "end" \/ once.end = s THEN hist
                        ELSE [hist EXCEPT !.sent = Append(hist.sent, <<s, pc>>)]
    <3>1. disp'[d].pc = next /\ (next # "pass" => /\ disp'[d].snap = disp[d].snap /\ disp'[d].rec = disp[d].rec
                                              /\ disp'[d].mark = disp[d].mark /\ disp'[d].ended = disp[d].ended)
      BY <2>7, <1>0, Going
    <3>2. once'[field] = s /\ (field = "note" => once'.end = once.end)
      BY <2>7, <1>0 DEF Onces
    <3>3. hist'.calls = hist.calls /\ hist'.uncovered = hist.uncovered
          /\ (field # "end" \/ once.end = s => hist' = hist)
          /\ (field = "end" /\ once.end # s => hist'.sent = Append(hist.sent, <<s, pc>>))
      BY <2>7, <1>0 DEF Hists
    <3> QED BY <3>1, <3>2, <3>3, <2>2, <2>3, <2>4, <2>7
  <2> QED BY <2>5, <2>6, <2>7, <1>1 DEF CmdOnce, Holds
<1>2. CASE Resume(d)
  <2>1. CmdOnce(d, "resume", "end", TRUE, "resume", "forget") /\ "forget" \in Steps
    BY <1>2, StepsAre DEF Resume
  <2> QED BY <2>1, <1>1
<1>3. CASE Rebuild(d)
  <2>1. CmdOnce(d, "rebuild", "end", TRUE, "rebuild", "note") /\ "note" \in Steps
    BY <1>3, StepsAre DEF Rebuild
  <2> QED BY <2>1, <1>1
<1>4. CASE Note(d)
  <2>1. CmdOnce(d, "note", "note", FALSE, "note", "unmark") /\ "unmark" \in Steps
    BY <1>4, StepsAre DEF Note
  <2> QED BY <2>1, <1>1
<1>5. CASE Escalate(d)
  <2>1. CmdOnce(d, "escalate", "end", FALSE, "escalate", "pass") /\ "pass" \in Steps
    BY <1>5, StepsAre DEF Escalate
  <2> QED BY <2>1, <1>1
<1> QED BY <1>2, <1>3, <1>4, <1>5 DEF Sends

LEMMA UnmarkDoes ==
    ASSUME TypeOK, NEW d \in Slots, Unmark(d)
    PROVE  /\ UNCHANGED <<record, once, lease>> /\ hist' = hist
           /\ \/ mark' = mark /\ disp'[d].pc = "off"
              \/ mark' = None /\ lease = d /\ disp[d].pc = "unmark" /\ disp'[d].pc = "pass"
<1>1. disp \in [Slots -> Runs] /\ "pass" \in Steps
  BY Types, StepsAre
<1>2. CASE Refused(d)
  <2>1. disp'[d] = Off
    BY <1>1, <1>2 DEF Refused
  <2> QED BY <2>1, <1>2, OffType DEF Refused, bus
<1>3. CASE lease = d /\ mark' = None /\ Goto(d, "pass") /\ UNCHANGED <<client, record, once, lease, left, hist>>
  <2>1. disp'[d].pc = "pass"
    BY <1>1, <1>3, Going
  <2> QED BY <2>1, <1>3, Unmark(d) DEF Unmark, At
<1> QED BY <1>2, <1>3 DEF Unmark, Holds

LEMMA ReserveDoes ==
    ASSUME TypeOK, RunsFit, NEW d \in Slots, Reserve(d)
    PROVE  /\ UNCHANGED <<record, once, lease>> /\ disp[d].pc = "reserve"
           /\ hist'.sent = hist.sent /\ hist'.calls = hist.calls /\ hist'.uncovered = hist.uncovered
           /\ \/ mark' = mark /\ hist' = hist /\ disp'[d].pc \in {"off", "pass"}
              \/ /\ lease = d /\ record # None /\ record = disp[d].rec /\ (mark = None \/ mark.session # record.session)
                 /\ mark' # None /\ mark'.session = record.session
                 /\ disp'[d].pc = "look" /\ disp'[d].rec = disp[d].rec /\ disp'[d].mark = disp[d].mark /\ disp'[d].snap = disp[d].snap
<1>1. disp \in [Slots -> Runs] /\ "pass" \in Steps /\ "look" \in Steps /\ hist \in Hists /\ record \in Records
  BY Types, StepsAre
<1>2. disp[d].pc = "reserve"
  BY DEF Reserve, At
<1>3. CASE Refused(d)
  <2>1. disp'[d] = Off
    BY <1>1, <1>3 DEF Refused
  <2> QED BY <2>1, <1>2, <1>3, OffType DEF Refused, bus
<1>4. CASE lease = d /\ record = disp[d].rec /\ (mark = None \/ mark.session # record.session)
  <2>1. record # None
    BY <1>2, <1>4 DEF RunsFit, RunFits, Clearing
  <2>2. record.session \in Nat /\ Statuses \in Nat
    <3>1. record.session \in Sessions
      BY <2>1, <1>1 DEF Records
    <3>2. Statuses \in Nat
      BY SnapTypes
    <3>3. record.session \in Nat
      BY <3>1, Numbers
    <3> QED BY <3>2, <3>3
  <2>3. /\ mark' = [session |-> record.session, after |-> Statuses, late |-> FALSE]
        /\ hist' = [hist EXCEPT !.trimmed = FALSE] /\ Goto(d, "look") /\ UNCHANGED <<record, once, lease>>
    BY <1>4 DEF Reserve, Refused, Holds
  <2>4. mark' \in [session : Nat, after : Nat, late : BOOLEAN] /\ mark'.session = record.session
    BY <2>2, <2>3
  <2>5. mark' # None
    BY <2>4, ClearAssumption
  <2>6. hist'.sent = hist.sent /\ hist'.calls = hist.calls /\ hist'.uncovered = hist.uncovered
    BY <2>3, <1>1 DEF Hists
  <2>7. disp'[d].pc = "look" /\ disp'[d].rec = disp[d].rec /\ disp'[d].mark = disp[d].mark /\ disp'[d].snap = disp[d].snap
    BY <2>3, <1>1, Going
  <2> QED BY <2>1, <2>3, <2>4, <2>5, <2>6, <2>7, <1>2, <1>4
<1>5. CASE lease = d /\ ~(record = disp[d].rec /\ (mark = None \/ mark.session # record.session))
  <2>1. Goto(d, "pass") /\ UNCHANGED <<record, once, lease, mark, hist>>
    BY <1>5 DEF Reserve, Refused, Holds
  <2>2. disp'[d].pc = "pass"
    BY <2>1, <1>1, Going
  <2> QED BY <2>1, <2>2, <1>2
<1> QED BY <1>3, <1>4, <1>5 DEF Reserve, Holds

LEMMA TypeDoes ==
    ASSUME TypeOK, NEW d \in Slots, Type(d)
    PROVE  /\ UNCHANGED <<record, mark, once, lease>> /\ disp[d].pc = "type" /\ disp'[d].pc = "pass"
           /\ hist'.sent = hist.sent /\ hist'.uncovered = hist.uncovered
           /\ hist'.calls = Append(hist.calls, disp[d].rec)
<1>1. disp \in [Slots -> Runs] /\ "pass" \in Steps /\ hist \in Hists
  BY Types, StepsAre
<1>2. hist' = [hist EXCEPT !.calls = Append(hist.calls, disp[d].rec)]
  BY Zenon DEF Type
<1>3. Goto(d, "pass") /\ UNCHANGED <<record, mark, once, lease>> /\ disp[d].pc = "type"
  BY DEF Type, At, bus
<1> QED BY <1>1, <1>2, <1>3, Going DEF Hists

\* A dispatcher's step is one of these, and no time passes in it.
LEMMA Kinds ==
    ASSUME TypeOK, RunsFit, NEW d \in Slots, Dispatcher(d)
    PROVE  /\ Quiet(d) \/ Void(d) \/ Forget(d) \/ Sends(d) \/ Unmark(d) \/ Reserve(d) \/ Type(d)
           /\ Now' = Now
<1>1. Quiet(d) \/ Void(d) \/ Forget(d) \/ Sends(d) \/ Unmark(d) \/ Reserve(d) \/ Type(d)
  BY DEF Dispatcher, Step, Quiet, Sends
<1>2. left \in Lefts /\ left.statuses <= MaxStatuses
  BY Types
<1>3. left' = left \/ Spend("faults") \/ Spend("losses")
  <2>1. CASE Quiet(d)
    BY <2>1 DEF Quiet, Acquire, Pass, Sweep, Read, Prove, Judge, LookAgain, Fail, Crash, Lose, Expire, Refused, Fault
  <2>2. CASE Sends(d)
    BY <2>2, SendDoes
  <2>3. CASE Void(d) \/ Forget(d) \/ Unmark(d) \/ Reserve(d) \/ Type(d)
    BY <2>3 DEF Void, Forget, Unmark, Reserve, Type, Refused, Fault
  <2> QED BY <1>1, <2>1, <2>2, <2>3
<1>4. left'.statuses = left.statuses
  BY <1>2, <1>3, Spending
<1> QED BY <1>1, <1>4 DEF Now, Statuses

-----------------------------------------------------------------------------
(* Sessions and records.                                                    *)

LEMMA ToldGrows ==
    ASSUME hist \in Hists, NEW s, NEW t \in Sessions, NEW kind, hist'.sent = Append(hist.sent, <<t, kind>>)
    PROVE  Told(s)' <=> Told(s) \/ s = t
<1>1. hist.sent \in Seq(Sessions \X {"resume", "rebuild", "escalate"})
  BY DEF Hists
<1>2. Len(hist.sent) \in Nat /\ DOMAIN hist.sent = 1 .. Len(hist.sent)
      /\ DOMAIN hist'.sent = 1 .. (Len(hist.sent) + 1)
      /\ (\A i \in 1 .. Len(hist.sent) : hist'.sent[i] = hist.sent[i])
      /\ hist'.sent[Len(hist.sent) + 1] = <<t, kind>>
  BY <1>1
<1>3. ASSUME Told(s) PROVE Told(s)'
  BY <1>2, <1>3 DEF Told
<1>4. ASSUME s = t PROVE Told(s)'
  BY <1>2, <1>4 DEF Told
<1>5. ASSUME Told(s)' PROVE Told(s) \/ s = t
  <2>1. PICK i \in 1 .. (Len(hist.sent) + 1) : hist'.sent[i][1] = s
    BY <1>2, <1>5 DEF Told
  <2>2. CASE i = Len(hist.sent) + 1
    BY <1>2, <2>1, <2>2
  <2>3. CASE i # Len(hist.sent) + 1
    <3>1. i \in 1 .. Len(hist.sent)
      BY <1>2, <2>1, <2>3
    <3> QED BY <3>1, <2>1, <1>2 DEF Told
  <2> QED BY <2>2, <2>3
<1> QED BY <1>3, <1>4, <1>5

\* Numbers of the sessions a state holds.
LEMMA SessionTypes ==
    ASSUME TypeOK
    PROVE  /\ agent.session \in Sessions /\ agent.session \in Nat /\ agent.session >= 1 /\ agent.proc \in Nat
           /\ once.end \in Sessions \union {0} /\ once.end \in Nat
           /\ snap.session \in Sessions \union {0} /\ snap.session \in Nat /\ snap.proc \in Nat
           /\ mark # None => mark.session \in Sessions /\ mark.session \in Nat /\ mark.session >= 1
           /\ record # None => /\ record.session \in Sessions /\ record.session \in Nat /\ record.session >= 1
                              /\ record.proc \in Nat /\ record.at \in Nat /\ record \in HandOffs
           /\ Now \in Nat
           /\ hooks \subseteq Sessions
<1>1. /\ agent \in Agents /\ once \in Onces /\ snap \in Snaps /\ mark \in Marks /\ record \in Records /\ hooks \subseteq Sessions
  BY Types
<1>2. Now \in Nat /\ Times \subseteq Nat
  BY SnapTypes, Numbers
<1>3. /\ agent.session \in Sessions /\ agent.proc \in Nat /\ once.end \in Sessions \union {0}
      /\ snap.session \in Sessions \union {0} /\ snap.proc \in Nat
      /\ mark # None => mark.session \in Sessions
      /\ record # None => record.session \in Sessions /\ record.proc \in Nat /\ record.at \in Times /\ record \in HandOffs
  BY <1>1 DEF Agents, Onces, Snaps, Marks, Records, HandOffs
<1>4. \A s \in Sessions : s \in Nat /\ s >= 1
  BY Numbers
<1>5. /\ agent.session \in Nat /\ agent.session >= 1 /\ once.end \in Nat /\ snap.session \in Nat
      /\ mark # None => mark.session \in Nat /\ mark.session >= 1
      /\ record # None => record.session \in Nat /\ record.session >= 1 /\ record.at \in Nat
  <2>1. agent.session \in Nat /\ agent.session >= 1 /\ once.end \in Nat /\ snap.session \in Nat
    BY <1>3, <1>4
  <2>2. mark # None => mark.session \in Nat /\ mark.session >= 1
    BY <1>3, <1>4
  <2>3. record # None => record.session \in Nat /\ record.session >= 1 /\ record.at \in Nat
    BY <1>2, <1>3, <1>4
  <2> QED BY <2>1, <2>2, <2>3
<1> QED BY <1>1, <1>2, <1>3, <1>5

\* The holder's run and the mark it works on.
LEMMA HolderMark ==
    ASSUME HolderInv, NEW d \in Slots, lease = d, disp[d].pc \in Proving, disp[d].mark # None
    PROVE  mark # None /\ mark.session = disp[d].mark.session
BY DEF HolderInv, HolderKnows, Stands

LEMMA SessionsGrowStep ==
    TypeOK /\ SessionsGrow /\ RecordFits /\ RunsFit /\ HolderInv /\ [Next]_vars => SessionsGrow'
<1> SUFFICES ASSUME TypeOK, SessionsGrow, RecordFits, RunsFit, HolderInv, [Next]_vars PROVE SessionsGrow'
  OBVIOUS
<1>t. hist \in Hists /\ Sessions \subseteq Nat /\ \A s \in Sessions : s >= 1
  BY Types, Numbers
<1>1. CASE UNCHANGED vars
  BY <1>1 DEF vars, SessionsGrow, Told, Beneath
<1>2. CASE Client
  <2>1. /\ once' = once /\ hist'.sent = hist.sent /\ (mark = None => mark' = None)
        /\ (mark # None => mark' # None /\ mark'.session = mark.session)
        /\ agent.session <= agent'.session /\ agent'.proc = snap'.proc /\ snap'.session <= agent'.session
        /\ (\A s \in hooks' : s <= agent'.session) /\ \A x \in Sessions : Beneath(x) => Beneath(x)'
    BY <1>2, ClientDoes
  <2>2. agent'.session \in Sessions
    BY <1>2, ClientType, SessionTypes DEF TypeOK
  <2>3. \A s : Told(s)' <=> Told(s)
    BY <2>1 DEF Told
  <2>4. once'.end <= agent'.session
    <3>1. agent'.session \in Nat /\ once.end <= agent.session /\ agent.session \in Nat /\ once.end \in Nat
      BY <2>2, <1>t, SessionTypes DEF SessionsGrow
    <3> QED BY <3>1, <2>1
  <2>5. ASSUME mark' # None PROVE Beneath(mark.session)' /\ once'.end <= mark'.session
    <3>1. mark # None /\ mark'.session = mark.session /\ mark.session \in Sessions /\ Beneath(mark.session)
      BY <2>1, <2>5, SessionTypes DEF SessionsGrow
    <3>2. \A x \in Sessions : Beneath(x) => Beneath(x)'
      BY <2>1
    <3>3. Beneath(mark.session)'
      BY <3>1, <3>2 DEF Beneath
    <3> QED BY <3>1, <3>3, <2>1 DEF SessionsGrow
  <2>6. /\ snap'.proc = agent'.proc /\ once'.end # 0 => Told(once.end)'
        /\ \A s \in Sessions : Told(s)' => s <= once'.end
    BY <2>1, <2>3 DEF SessionsGrow, Told
  <2> QED BY <2>1, <2>4, <2>5, <2>6 DEF SessionsGrow
<1>3. ASSUME NEW d \in Slots, Dispatcher(d) PROVE SessionsGrow'
  <2>1. UNCHANGED <<agent, hooks, snap>>
    BY <1>3, DispatcherType
  <2>2. \A x : Beneath(x)' <=> Beneath(x)
    BY <2>1 DEF Beneath
  <2>3. CASE SameBus \/ Type(d)
    <3>1. UNCHANGED <<mark, once>> /\ hist'.sent = hist.sent
      BY <2>3, TypeDoes DEF SameBus
    <3> QED BY <3>1, <2>1, <2>2 DEF SessionsGrow, Told
  <2>4. CASE Sends(d)
    <3>1. mark' = mark
      BY <2>4, SendDoes
    <3>2. CASE once'.end = once.end /\ hist' = hist
      BY <3>1, <3>2, <2>1, <2>2 DEF SessionsGrow, Told
    <3>3. CASE ~(once'.end = once.end /\ hist' = hist)
      <4> DEFINE s == disp[d].mark.session
      <4>1. /\ lease = d /\ s \in Sessions /\ once'.end = s /\ disp[d].mark # None /\ disp[d].pc \in Proving
            /\ (hist'.sent = hist.sent /\ once.end = s) \/ hist'.sent = Append(hist.sent, <<s, disp[d].pc>>)
        BY <2>4, <3>3, SendDoes DEF Proving
      <4>2. mark # None /\ mark.session = s
        BY <4>1, HolderMark
      <4>3. Beneath(s) /\ once.end <= s
        BY <4>2 DEF SessionsGrow
      <4>4. s <= agent.session
        <5>1. s \in Nat /\ agent.session \in Nat /\ snap.session \in Nat /\ snap.session <= agent.session
          BY <4>1, <1>t, SessionTypes DEF SessionsGrow
        <5> QED BY <5>1, <4>3 DEF Beneath
      <4>5. \A r \in Sessions : Told(r)' <=> Told(r) \/ r = s
        <5>1. CASE hist'.sent = hist.sent /\ once.end = s
          BY <5>1, <4>1, <1>t DEF SessionsGrow, Told
        <5>2. CASE hist'.sent = Append(hist.sent, <<s, disp[d].pc>>)
          BY <5>2, <4>1, <1>t, ToldGrows
        <5> QED BY <5>1, <5>2, <4>1
      <4>6. \A r \in Sessions : Told(r)' => r <= s
        <5>1. s \in Nat /\ once.end \in Nat
          BY <4>1, <1>t, SessionTypes
        <5>2. \A r \in Sessions : r \in Nat /\ (Told(r) => r <= once.end)
          BY <1>t DEF SessionsGrow
        <5> QED BY <5>1, <5>2, <4>5, <4>3
      <4> HIDE DEF s
      <4> QED BY <4>1, <4>2, <4>3, <4>4, <4>5, <4>6, <3>1, <2>1, <2>2 DEF SessionsGrow
    <3> QED BY <3>2, <3>3
  <2>5. CASE Unmark(d)
    <3>1. once' = once /\ hist' = hist /\ (mark' = mark \/ mark' = None)
      BY <2>5, UnmarkDoes
    <3> QED BY <3>1, <2>1, <2>2 DEF SessionsGrow, Told
  <2>6. CASE Reserve(d)
    <3>1. once' = once /\ hist'.sent = hist.sent
          /\ (mark' = mark \/ (record # None /\ mark'.session = record.session))
      BY <2>6, ReserveDoes
    <3> QED BY <3>1, <2>1, <2>2 DEF SessionsGrow, RecordFits, Told
  <2> QED BY <2>3, <2>4, <2>5, <2>6, <1>3, Kinds, QuietDoes, DropDoes
<1> QED BY <1>1, <1>2, <1>3 DEF Next

LEMMA RecordFitsStep ==
    TypeOK /\ SessionsGrow /\ RecordFits /\ RunsFit /\ HolderInv /\ [Next]_vars => RecordFits'
<1> SUFFICES ASSUME TypeOK, SessionsGrow, RecordFits, RunsFit, HolderInv, [Next]_vars PROVE RecordFits'
  OBVIOUS
<1>t. Sessions \subseteq Nat /\ \A s \in Sessions : s >= 1
  BY Numbers
<1>1. CASE UNCHANGED vars
  BY <1>1 DEF vars, RecordFits, Beneath, UpTo, Now, Statuses
<1>2. CASE Client
  <2>0. TypeOK'
    BY <1>2, ClientType
  <2>1. /\ once' = once /\ (mark = None => mark' = None)
        /\ (mark # None => mark' # None /\ mark'.session = mark.session)
        /\ Now <= Now' /\ \A x \in Sessions : Beneath(x) => Beneath(x)'
        /\ snap.proc < snap'.proc \/ (snap.proc = snap'.proc /\ snap.session <= snap'.session)
    BY <1>2, ClientDoes
  <2>2. Now' \in Nat /\ snap'.proc \in Nat /\ snap'.session \in Nat
    <3>1. snap' \in Snaps /\ left'.statuses \in Nat /\ left'.statuses <= MaxStatuses /\ MaxStatuses \in Nat
      BY <2>0, Numbers DEF TypeOK, Snaps
    <3>2. snap'.proc \in Nat /\ snap'.session \in Nat
      <4>1. snap'.proc \in Nat /\ snap'.session \in Sessions \union {0}
        BY <3>1 DEF Snaps
      <4>2. \A n \in Sessions \union {0} : n \in Nat
        BY Numbers
      <4> QED BY <4>1, <4>2
    <3>3. MaxStatuses - left'.statuses \in Nat
      BY <3>1
    <3> QED BY <3>2, <3>3 DEF Now, Statuses
  <2>3. CASE record' = None
    BY <2>3 DEF RecordFits
  <2>4. CASE record' = record /\ record # None /\ hist'.uncovered = hist.uncovered
    <3>1. record.session \in Nat /\ record.proc \in Nat /\ record.at \in Nat /\ snap.proc \in Nat /\ snap.session \in Nat /\ Now \in Nat
      BY <2>4, SessionTypes, <1>t
    <3>2. UpTo(record, snap')
      BY <3>1, <2>1, <2>2, <2>4 DEF RecordFits, UpTo
    <3>3. record.at <= Now'
      BY <3>1, <2>1, <2>2, <2>4 DEF RecordFits
    <3>4. Beneath(record.session)'
      BY <2>1, <2>4, SessionTypes DEF RecordFits
    <3> QED BY <3>2, <3>3, <3>4, <2>1, <2>4 DEF RecordFits, UpTo
  <2>5. CASE /\ record' = [session |-> agent.session, proc |-> agent.proc, at |-> Now']
             /\ snap' = snap /\ agent'.session = agent.session
             /\ snap.session = agent.session
             /\ hist'.uncovered = hist.uncovered \ {agent.session}
    <3>1. Beneath(agent.session)' /\ UpTo(record', snap')
      BY <2>5, <1>t, SessionTypes DEF Beneath, UpTo, SessionsGrow
    <3>2. once.end <= agent.session
      BY DEF SessionsGrow
    <3>3. mark # None => mark.session <= agent.session
      BY SessionTypes, <1>t DEF SessionsGrow, Beneath
    <3> QED BY <3>1, <3>2, <3>3, <2>1, <2>2, <2>5 DEF RecordFits, UpTo
  <2> QED BY <2>3, <2>4, <2>5, <1>2, ClientDoes
<1>3. ASSUME NEW d \in Slots, Dispatcher(d) PROVE RecordFits'
  <2>1. UNCHANGED <<agent, hooks, snap>> /\ Now' = Now
    BY <1>3, DispatcherType, Kinds
  <2>2. \A x : (Beneath(x)' <=> Beneath(x))
    BY <2>1 DEF Beneath
  <2>3. CASE (SameBus \/ Type(d)) /\ (record' = record \/ record' = None)
    <3>1. UNCHANGED <<mark, once>> /\ hist'.uncovered = hist.uncovered
      BY <2>3, TypeDoes DEF SameBus
    <3> QED BY <3>1, <2>1, <2>2, <2>3 DEF RecordFits, UpTo
  <2>4. CASE Sends(d)
    <3>1. mark' = mark /\ record' = record /\ hist'.uncovered = hist.uncovered
      BY <2>4, SendDoes
    <3>2. CASE once'.end = once.end
      BY <3>1, <3>2, <2>1, <2>2 DEF RecordFits, UpTo
    <3>3. CASE once'.end # once.end
      <4>1. lease = d /\ once'.end = disp[d].mark.session /\ disp[d].mark # None /\ disp[d].pc \in Proving
        BY <2>4, <3>3, SendDoes DEF Proving
      <4>2. mark # None /\ mark.session = once'.end
        BY <4>1, HolderMark
      <4> QED BY <4>2, <3>1, <2>1, <2>2 DEF RecordFits, UpTo
    <3> QED BY <3>2, <3>3
  <2>5. CASE Unmark(d)
    <3>1. once' = once /\ record' = record /\ hist' = hist /\ (mark' = mark \/ mark' = None)
      BY <2>5, UnmarkDoes
    <3> QED BY <3>1, <2>1, <2>2 DEF RecordFits, UpTo
  <2>6. CASE Reserve(d)
    <3>1. once' = once /\ record' = record /\ hist'.uncovered = hist.uncovered
          /\ (mark' = mark \/ (record # None /\ mark'.session = record.session))
      BY <2>6, ReserveDoes
    <3>2. record # None => record.session <= record.session
      BY SessionTypes, <1>t
    <3> QED BY <3>1, <3>2, <2>1, <2>2 DEF RecordFits, UpTo
  <2>7. Type(d) => record' = record
    BY TypeDoes
  <2> QED BY <2>3, <2>4, <2>5, <2>6, <2>7, <1>3, Kinds, QuietDoes, DropDoes
<1> QED BY <1>1, <1>2, <1>3 DEF Next

\* A session that is sent a message was never sent one: the sessions told are at most
\* the last one, and the mark's session is past it.
LEMMA OneMessageStep ==
    TypeOK /\ SessionsGrow /\ RunsFit /\ HolderInv /\ OneMessagePerSession /\ [Next]_vars => OneMessagePerSession'
<1> SUFFICES ASSUME TypeOK, SessionsGrow, RunsFit, HolderInv, OneMessagePerSession, [Next]_vars PROVE OneMessagePerSession'
  OBVIOUS
<1>1. CASE hist'.sent = hist.sent
  BY <1>1 DEF OneMessagePerSession
<1>2. ASSUME NEW d \in Slots, Sends(d), hist'.sent # hist.sent PROVE OneMessagePerSession'
  <2> DEFINE s == disp[d].mark.session
  <2>1. /\ lease = d /\ s \in Sessions /\ disp[d].mark # None /\ disp[d].pc \in Proving
        /\ once.end # s /\ hist'.sent = Append(hist.sent, <<s, disp[d].pc>>)
    BY <1>2, SendDoes DEF Proving
  <2>2. mark # None /\ mark.session = s
    BY <2>1, HolderMark
  <2>3. ~Told(s)
    BY <2>1, <2>2, SessionTypes, Numbers DEF SessionsGrow
  <2>4. hist.sent \in Seq(Sessions \X {"resume", "rebuild", "escalate"})
    BY Types DEF Hists
  <2>5. Len(hist.sent) \in Nat /\ DOMAIN hist.sent = 1 .. Len(hist.sent)
      /\ DOMAIN hist'.sent = 1 .. (Len(hist.sent) + 1)
      /\ (\A i \in 1 .. Len(hist.sent) : hist'.sent[i] = hist.sent[i])
      /\ hist'.sent[Len(hist.sent) + 1] = <<s, disp[d].pc>>
    BY <2>1, <2>4
  <2>6. \A i \in 1 .. Len(hist.sent) : hist.sent[i][1] # s
    BY <2>3, <2>5 DEF Told
  <2>7. <<s, disp[d].pc>>[1] = s
    OBVIOUS
  <2> HIDE DEF s
  <2>8. ASSUME NEW i \in 1 .. (Len(hist.sent) + 1), NEW j \in 1 .. (Len(hist.sent) + 1), hist'.sent[i][1] = hist'.sent[j][1]
        PROVE  i = j
    <3>1. CASE i \in 1 .. Len(hist.sent) /\ j \in 1 .. Len(hist.sent)
      BY <2>5, <2>8, <3>1 DEF OneMessagePerSession
    <3>2. CASE i = Len(hist.sent) + 1 /\ j \in 1 .. Len(hist.sent)
      BY <2>5, <2>6, <2>7, <2>8, <3>2
    <3>3. CASE j = Len(hist.sent) + 1 /\ i \in 1 .. Len(hist.sent)
      BY <2>5, <2>6, <2>7, <2>8, <3>3
    <3> QED BY <2>5, <2>8, <3>1, <3>2, <3>3
  <2> QED BY <2>5, <2>8 DEF OneMessagePerSession
<1>3. Client => hist'.sent = hist.sent
  BY ClientDoes
<1>4. ASSUME NEW d \in Slots, Dispatcher(d), ~Sends(d) PROVE hist'.sent = hist.sent
  BY <1>4, Kinds, QuietDoes, DropDoes, UnmarkDoes, ReserveDoes, TypeDoes DEF SameBus
<1>5. UNCHANGED vars => hist'.sent = hist.sent
  BY DEF vars
<1> QED BY <1>1, <1>2, <1>3, <1>4, <1>5 DEF Next

-----------------------------------------------------------------------------
(* The runs.                                                                *)

\* Where a step takes a run that does not start over, and with what in hand.
SameHand(d) == /\ disp'[d].snap = disp[d].snap /\ disp'[d].rec = disp[d].rec
               /\ disp'[d].mark = disp[d].mark /\ disp'[d].ended = disp[d].ended
Takes(d, from, to) == disp[d].pc = from /\ disp'[d].pc = to
Starts(d) == Takes(d, "pass", "sweep") /\ disp'[d].snap = snap /\ disp'[d].mark = None
Sweeps(d) ==
    /\ disp'[d].snap = disp[d].snap /\ disp'[d].mark = disp[d].mark
    /\ \/ Takes(d, "sweep", "void") /\ disp'[d].rec # None
       \/ Takes(d, "sweep", "read") \/ Takes(d, "void", "read")
Reads(d) ==
    /\ disp'[d].snap = disp[d].snap /\ disp'[d].rec = record
    /\ \/ Takes(d, "read", "prove") /\ mark # None /\ disp'[d].mark = mark /\ disp'[d].ended = once.end
       \/ Takes(d, "read", "judge") /\ mark = None /\ record # None /\ disp'[d].mark = disp[d].mark
Decides(d) ==
    /\ SameHand(d)
    /\ \/ Takes(d, "prove", Verdict(d))
       \/ Takes(d, "judge", "reserve") /\ ~VoidFor(disp[d].rec, disp[d].snap)
       \/ Takes(d, "look", "type") \/ Takes(d, "look", "unmark")
Works(d) ==
    /\ SameHand(d)
    /\ \/ Reserve(d) /\ Takes(d, "reserve", "look")
       \/ Forget(d) /\ Takes(d, "forget", "unmark")
       \/ Sends(d) /\ \/ Takes(d, "resume", "forget") \/ Takes(d, "rebuild", "note") \/ Takes(d, "note", "unmark")
Stays(d) == disp'[d] = disp[d] /\ disp[d].pc \in {"off", "look", "type"} /\ lease' = None

LEMMA RunMoves ==
    ASSUME TypeOK, RunsFit, NEW d \in Slots, Dispatcher(d)
    PROVE  \/ disp'[d].pc \in {"off", "pass"}
           \/ Starts(d) /\ SameBus /\ lease' = lease
           \/ Sweeps(d) /\ SameBus /\ lease' = lease
           \/ Reads(d) /\ SameBus /\ record' = record /\ lease' = lease
           \/ Decides(d) /\ SameBus /\ record' = record /\ lease' = lease
           \/ Works(d) /\ lease' = lease
           \/ Stays(d) /\ SameBus /\ record' = record
<1>0. disp \in [Slots -> Runs]
  BY Types
<1>g. ASSUME NEW pc \in Steps, Goto(d, pc) PROVE disp'[d].pc = pc /\ (pc # "pass" => SameHand(d))
  BY <1>g, <1>0, Going DEF SameHand
<1>r. Refused(d) => disp'[d].pc = "off"
  BY <1>0, OffType DEF Refused
<1>1. CASE Acquire(d) \/ Fail(d)
  BY <1>1, <1>g, StepsAre DEF Acquire, Fail
<1>2. CASE Crash(d)
  BY <1>2, <1>0, OffType DEF Crash
<1>3. CASE Lose(d) \/ Expire(d)
  BY <1>3 DEF Lose, Expire, Stays, SameBus, Holds, At, bus
<1>4. CASE Pass(d)
  <2>1. disp' = [disp EXCEPT ![d] = [[Off EXCEPT !.pc = "sweep"] EXCEPT !.snap = snap]]
    BY <1>4, Zenon DEF Pass
  <2>2. [Off EXCEPT !.pc = "sweep"] \in Runs /\ [Off EXCEPT !.pc = "sweep"].mark = None /\ [Off EXCEPT !.pc = "sweep"].pc = "sweep"
    BY OffType, StepsAre DEF Runs
  <2>3. disp'[d].pc = "sweep" /\ disp'[d].snap = snap /\ disp'[d].mark = None
    BY <2>1, <2>2, <1>0 DEF Runs
  <2> QED BY <2>3, <1>4 DEF Pass, Starts, Takes, SameBus, bus, At
<1>5. CASE Sweep(d)
  <2>1. \/ disp' = [disp EXCEPT ![d] = [[disp[d] EXCEPT !.pc = "void"] EXCEPT !.rec = record]] /\ record # None
        \/ disp' = [disp EXCEPT ![d] = [disp[d] EXCEPT !.pc = "read"]]
    BY <1>5, <1>0 DEF Sweep
  <2>2. CASE disp' = [disp EXCEPT ![d] = [disp[d] EXCEPT !.pc = "read"]]
    <3>1. disp'[d].pc = "read" /\ disp'[d].snap = disp[d].snap /\ disp'[d].mark = disp[d].mark
      BY <2>2, <1>0 DEF Runs
    <3> QED BY <3>1, <1>5 DEF Sweep, Sweeps, Takes, SameBus, bus, At
  <2>3. CASE disp' = [disp EXCEPT ![d] = [[disp[d] EXCEPT !.pc = "void"] EXCEPT !.rec = record]] /\ record # None
    <3>1. [disp[d] EXCEPT !.pc = "void"].pc = "void" /\ [disp[d] EXCEPT !.pc = "void"].snap = disp[d].snap
          /\ [disp[d] EXCEPT !.pc = "void"].mark = disp[d].mark /\ [disp[d] EXCEPT !.pc = "void"] \in Runs
      BY <1>0, StepsAre DEF Runs
    <3>2. disp'[d].pc = "void" /\ disp'[d].snap = disp[d].snap /\ disp'[d].mark = disp[d].mark /\ disp'[d].rec = record
      BY <3>1, <2>3, <1>0 DEF Runs
    <3> QED BY <3>2, <2>3, <1>5 DEF Sweep, Sweeps, Takes, SameBus, bus, At
  <2> QED BY <2>1, <2>2, <2>3
<1>6. CASE Void(d) \/ Forget(d)
  <2>1. CASE Refused(d)
    BY <2>1, <1>r
  <2>2. CASE Void(d) /\ Goto(d, "read")
    BY <2>2, <1>g, StepsAre, DropDoes DEF Void, Sweeps, Takes, SameHand, At
  <2>3. CASE Forget(d) /\ Goto(d, "unmark")
    BY <2>3, <1>g, StepsAre, DropDoes DEF Forget, Works, Takes, At
  <2> QED BY <1>6, <2>1, <2>2, <2>3 DEF Void, Forget
<1>7. CASE Read(d)
  <2>1. SameBus /\ record' = record /\ lease' = lease /\ disp[d].pc = "read"
    BY <1>7 DEF Read, SameBus, bus, At
  <2>2. CASE mark # None
    <3>1. disp' = [disp EXCEPT ![d] = [[[[disp[d] EXCEPT !.pc = "prove"] EXCEPT !.rec = record] EXCEPT !.mark = mark] EXCEPT !.ended = once.end]]
      BY <1>7, <2>2, Zenon DEF Read
    <3> DEFINE x == [disp[d] EXCEPT !.pc = "prove"]
               y == [x EXCEPT !.rec = record]
               z == [y EXCEPT !.mark = mark]
    <3>2. x \in Runs /\ x.pc = "prove" /\ x.snap = disp[d].snap
      BY <1>0, StepsAre DEF Runs
    <3>3. disp'[d] = [z EXCEPT !.ended = once.end]
      BY <3>1, <1>0
    <3> HIDE DEF x
    <3>4. y \in Runs /\ y.pc = "prove" /\ y.snap = disp[d].snap /\ y.rec = record
      BY <3>2, Types DEF Runs
    <3> HIDE DEF y
    <3>5. z \in Runs /\ z.pc = "prove" /\ z.snap = disp[d].snap /\ z.rec = record /\ z.mark = mark
      BY <3>4, Types DEF Runs
    <3> HIDE DEF z
    <3>6. disp'[d].pc = "prove" /\ disp'[d].snap = disp[d].snap /\ disp'[d].rec = record /\ disp'[d].mark = mark /\ disp'[d].ended = once.end
      BY <3>3, <3>5 DEF Runs
    <3> QED BY <3>6, <2>1, <2>2 DEF Reads, Takes
  <2>3. CASE mark = None /\ record # None
    <3>1. disp' = [disp EXCEPT ![d] = [[disp[d] EXCEPT !.pc = "judge"] EXCEPT !.rec = record]]
      BY <1>7, <2>3, Zenon DEF Read
    <3> DEFINE x == [disp[d] EXCEPT !.pc = "judge"]
    <3>2. x \in Runs /\ x.pc = "judge" /\ x.snap = disp[d].snap /\ x.mark = disp[d].mark
      BY <1>0, StepsAre DEF Runs
    <3>3. disp'[d] = [x EXCEPT !.rec = record]
      BY <3>1, <1>0
    <3> HIDE DEF x
    <3>4. disp'[d].pc = "judge" /\ disp'[d].snap = disp[d].snap /\ disp'[d].rec = record /\ disp'[d].mark = disp[d].mark
      BY <3>2, <3>3 DEF Runs
    <3> QED BY <3>4, <2>1, <2>3 DEF Reads, Takes
  <2>4. CASE mark = None /\ record = None
    BY <2>4, <1>7, <1>g, StepsAre DEF Read
  <2> QED BY <2>2, <2>3, <2>4
<1>8. CASE Prove(d)
  <2>1. Goto(d, Verdict(d)) /\ Verdict(d) \in Steps /\ SameBus /\ record' = record /\ lease' = lease /\ disp[d].pc = "prove"
    BY <1>8, StepsAre DEF Prove, SameBus, bus, At
  <2> QED BY <2>1, <1>g DEF Decides, Takes
<1>9. CASE Sends(d)
  <2>1. CASE disp'[d].pc \notin {"off", "pass"}
    <3>1. SameHand(d) /\ lease' = lease
      BY <2>1, <1>9, SendDoes DEF SameHand
    <3>2. <<disp[d].pc, disp'[d].pc>> \in {<<"resume", "forget">>, <<"rebuild", "note">>, <<"note", "unmark">>}
      BY <2>1, <1>9, SendDoes
    <3> QED BY <3>1, <3>2, <1>9 DEF Works, Takes
  <2> QED BY <2>1
<1>10. CASE Unmark(d)
  BY <1>10, UnmarkDoes
<1>11. CASE Judge(d)
  <2>1. SameBus /\ record' = record /\ lease' = lease /\ disp[d].pc = "judge"
        /\ (Goto(d, "pass") \/ (Goto(d, "reserve") /\ ~VoidFor(disp[d].rec, disp[d].snap)))
    BY <1>11 DEF Judge, SameBus, bus, At
  <2> QED BY <2>1, <1>g, StepsAre DEF Decides, Takes
<1>12. CASE Reserve(d)
  <2>1. CASE Refused(d)
    BY <2>1, <1>r
  <2>2. CASE ~Refused(d)
    <3>1. (Goto(d, "look") \/ Goto(d, "pass")) /\ lease' = lease /\ disp[d].pc = "reserve"
      BY <2>2, <1>12 DEF Reserve, At
    <3> QED BY <3>1, <1>12, <1>g, StepsAre DEF Works, Takes
  <2> QED BY <2>1, <2>2
<1>13. CASE LookAgain(d)
  <2>1. SameBus /\ record' = record /\ lease' = lease /\ disp[d].pc = "look" /\ (Goto(d, "type") \/ Goto(d, "unmark"))
    BY <1>13 DEF LookAgain, SameBus, bus, At
  <2> QED BY <2>1, <1>g, StepsAre DEF Decides, Takes
<1>14. CASE Type(d)
  BY <1>14, TypeDoes
<1> QED BY <1>1, <1>2, <1>3, <1>4, <1>5, <1>6, <1>7, <1>8, <1>9, <1>10, <1>11, <1>12, <1>13, <1>14
        DEF Dispatcher, Step, Sends

\* A run that does not move keeps its fit: the snapshot and the sessions only grow.
LEMMA RunKeeps ==
    ASSUME TypeOK, TypeOK', NEW d \in Slots, RunFits(d), disp'[d] = disp[d], agent.session <= agent'.session,
           snap.proc < snap'.proc \/ (snap.proc = snap'.proc /\ snap.session <= snap'.session)
    PROVE  RunFits(d)'
<1> DEFINE x == disp[d]
<1>1. /\ agent.session \in Nat /\ agent'.session \in Nat /\ snap.session \in Nat /\ snap.proc \in Nat
      /\ snap'.session \in Nat /\ snap'.proc \in Nat
  <2>1. \A n \in Sessions \union {0} : n \in Nat
    BY Numbers
  <2>2. agent'.session \in Sessions /\ snap'.session \in Sessions \union {0} /\ snap'.proc \in Nat
    BY DEF TypeOK, Snaps
  <2> QED BY <2>1, <2>2, SessionTypes
<1>2. ASSUME x.snap \in Snaps PROVE x.snap.session \in Nat /\ x.snap.proc \in Nat
  <2>1. \A n \in Sessions \union {0} : n \in Nat
    BY Numbers
  <2> QED BY <2>1, <1>2 DEF Snaps
<1>3. x.pc \notin {"off", "pass"} =>
         /\ x.snap \in Snaps /\ x.snap.session <= agent'.session
         /\ x.snap.proc < snap'.proc \/ (x.snap.proc = snap'.proc /\ x.snap.session <= snap'.session)
  BY <1>1, <1>2 DEF RunFits
<1> QED BY <1>3 DEF RunFits, Same, Proved, VoidFor

LEMMA VerdictDoes ==
    ASSUME NEW d
    PROVE  /\ Verdict(d) = "resume" => Same(d) /\ Proved(d)
           /\ Verdict(d) \in {"rebuild", "unmark"} /\ Same(d) => Proved(d)
           /\ Verdict(d) = "unmark" => disp[d].ended = disp[d].mark.session
           /\ Verdict(d) \in {"rebuild", "resume", "escalate"} => disp[d].ended # disp[d].mark.session
<1>1. CASE disp[d].ended = disp[d].mark.session
  <2>1. Verdict(d) = IF Same(d) THEN "pass" ELSE "unmark"
    BY <1>1 DEF Verdict
  <2> QED BY <1>1, <2>1
<1>2. CASE disp[d].ended # disp[d].mark.session /\ ~Same(d)
  <2>1. Verdict(d) = "rebuild"
    BY <1>2 DEF Verdict
  <2> QED BY <1>2, <2>1
<1>3. CASE disp[d].ended # disp[d].mark.session /\ Same(d) /\ Proved(d)
  <2>1. Verdict(d) = IF StatusAfter(disp[d].mark) THEN "rebuild" ELSE "resume"
    BY <1>3 DEF Verdict
  <2> QED BY <1>3, <2>1
<1>4. CASE disp[d].ended # disp[d].mark.session /\ Same(d) /\ ~Proved(d)
  <2>1. Verdict(d) = IF disp[d].mark.late THEN "escalate" ELSE "pass"
    BY <1>4 DEF Verdict
  <2> QED BY <1>4, <2>1
<1> QED BY <1>1, <1>2, <1>3, <1>4

LEMMA RunsFitStep == TypeOK /\ SessionsGrow /\ RunsFit /\ [Next]_vars => RunsFit'
<1> SUFFICES ASSUME TypeOK, SessionsGrow, RunsFit, [Next]_vars PROVE RunsFit'
  OBVIOUS
<1>t. TypeOK'
  BY TypeStep
<1>s. \A n \in Sessions \union {0} : n <= n
  BY Numbers
<1>1. CASE UNCHANGED vars
  BY <1>1 DEF vars, RunsFit, RunFits, Same, Proved, VoidFor
<1>2. CASE Client
  <2>1. /\ disp' = disp /\ agent.session <= agent'.session
        /\ snap.proc < snap'.proc \/ (snap.proc = snap'.proc /\ snap.session <= snap'.session)
    BY <1>2, ClientDoes
  <2>2. ASSUME NEW e \in Slots PROVE RunFits(e)'
    <3>1. RunFits(e) /\ disp'[e] = disp[e] /\ agent.session <= agent'.session
      BY <2>1 DEF RunsFit
    <3>2. snap.proc < snap'.proc \/ (snap.proc = snap'.proc /\ snap.session <= snap'.session)
      BY <2>1
    <3> QED BY <3>1, <3>2, <1>t, RunKeeps
  <2> QED BY <2>2 DEF RunsFit
<1>3. ASSUME NEW d \in Slots, Dispatcher(d) PROVE RunsFit'
  <2>1. UNCHANGED <<agent, snap>> /\ \A e \in Slots : e # d => disp'[e] = disp[e]
    BY <1>3, DispatcherType
  <2>2. agent.session <= agent.session /\ snap.session <= snap.session /\ agent.session \in Nat /\ snap.session \in Nat
    BY SessionTypes
  <2>3. ASSUME NEW e \in Slots, disp'[e] = disp[e] PROVE RunFits(e)'
    BY <2>1, <2>2, <2>3, <1>t, RunKeeps DEF RunsFit
  <2>4. RunFits(d)'
    <3>0. RunFits(d)
      BY DEF RunsFit
    <3> DEFINE x == disp[d]  y == disp'[d]
    <3>1. CASE y.pc \in {"off", "pass"}
      BY <3>1 DEF RunFits, Clearing, Reading, Proving
    <3>2. CASE Starts(d)
      <4>1. y.pc = "sweep" /\ y.snap = snap /\ y.mark = None /\ snap \in Snaps
        BY <3>2, Types DEF Starts, Takes
      <4> QED BY <4>1, <2>1, <2>2 DEF RunFits, Clearing, Reading, Proving, SessionsGrow
    <3>3. CASE Sweeps(d)
      BY <3>0, <3>3, <2>1 DEF RunFits, Clearing, Reading, Proving, Sweeps, Takes
    <3>4. CASE Reads(d)
      BY <3>0, <3>4, <2>1 DEF RunFits, Clearing, Reading, Proving, Reads, Takes
    <3>5. CASE SameHand(d)
      <4>0. (Same(d)' <=> Same(d)) /\ (Proved(d)' <=> Proved(d)) /\ (VoidFor(y.rec, y.snap) <=> VoidFor(x.rec, x.snap))
        BY <3>5 DEF SameHand, Same, Proved, VoidFor
      <4>1. CASE Takes(d, "prove", Verdict(d))
        BY <4>0, <4>1, <3>0, <3>5, <2>1, StepsAre, VerdictDoes DEF RunFits, Clearing, Reading, Proving, Takes, SameHand
      <4>2. CASE Takes(d, "judge", "reserve") /\ ~VoidFor(disp[d].rec, disp[d].snap)
        BY <4>0, <4>2, <3>0, <3>5, <2>1 DEF RunFits, Clearing, Reading, Proving, Takes, SameHand
      <4>3. CASE Takes(d, "look", "type") \/ Takes(d, "look", "unmark") \/ Takes(d, "reserve", "look")
        BY <4>0, <4>3, <3>0, <3>5, <2>1 DEF RunFits, Clearing, Reading, Proving, Takes, SameHand
      <4>4. CASE Takes(d, "resume", "forget") \/ Takes(d, "rebuild", "note") \/ Takes(d, "note", "unmark") \/ Takes(d, "forget", "unmark")
        BY <4>0, <4>4, <3>0, <3>5, <2>1 DEF RunFits, Clearing, Reading, Proving, Takes, SameHand
      <4>5. CASE ~Decides(d) /\ ~Works(d)
        BY <4>5, <3>5, <1>3, RunMoves, <2>3, <3>1, <3>2, <3>3, <3>4 DEF Stays
      <4> QED BY <4>1, <4>2, <4>3, <4>4, <4>5 DEF Decides, Works
    <3> QED BY <3>1, <3>2, <3>3, <3>4, <3>5, <2>3, <1>3, RunMoves DEF Stays, Decides, Works
  <2> QED BY <2>1, <2>3, <2>4 DEF RunsFit
<1> QED BY <1>1, <1>2, <1>3 DEF Next

-----------------------------------------------------------------------------
(* The holder.                                                              *)

\* What a step of another run, or a refused one, leaves of the bus.
LEMMA OnlyHolder ==
    ASSUME TypeOK, RunsFit, NEW d \in Slots, Dispatcher(d)
    PROVE  /\ lease' = lease \/ (lease' = d /\ disp'[d].pc = "pass") \/ lease' = None
           /\ lease # d => UNCHANGED mark /\ once'.end = once.end /\ hist'.sent = hist.sent
           /\ hist'.uncovered = hist.uncovered
<1>1. Quiet(d) => SameBus
  BY QuietDoes
<1>2. ASSUME Quiet(d) PROVE lease' = lease \/ (lease' = d /\ disp'[d].pc = "pass") \/ lease' = None
  <2>1. CASE Acquire(d)
    <3>1. Goto(d, "pass") /\ lease' = d /\ "pass" \in Steps /\ disp \in [Slots -> Runs]
      BY <2>1, StepsAre, Types DEF Acquire
    <3> QED BY <3>1, Going
  <2>2. CASE ~Acquire(d)
    BY <2>2, <1>2 DEF Quiet, Pass, Sweep, Read, Prove, Judge, LookAgain, Fail, Crash, Lose, Expire, Refused
  <2> QED BY <2>1, <2>2
<1>3. Void(d) \/ Forget(d) => SameBus /\ lease' = lease
  BY DropDoes
<1>4. Sends(d) => lease' = lease /\ hist'.uncovered = hist.uncovered /\ (lease # d => UNCHANGED mark /\ once' = once /\ hist' = hist)
  BY SendDoes
<1>5. Unmark(d) => lease' = lease /\ once' = once /\ hist' = hist /\ (lease # d => mark' = mark)
  BY UnmarkDoes
<1>6. Reserve(d) => /\ lease' = lease /\ once' = once /\ hist'.sent = hist.sent /\ hist'.uncovered = hist.uncovered
                    /\ lease # d => mark' = mark
  BY ReserveDoes
<1>7. Type(d) => lease' = lease /\ mark' = mark /\ once' = once /\ hist'.sent = hist.sent /\ hist'.uncovered = hist.uncovered
  BY TypeDoes
<1> QED BY <1>1, <1>2, <1>3, <1>4, <1>5, <1>6, <1>7, Kinds DEF SameBus

LEMMA HolderStep ==
    TypeOK /\ SessionsGrow /\ RecordFits /\ RunsFit /\ HolderInv /\ [Next]_vars => HolderInv'
<1> SUFFICES ASSUME TypeOK, SessionsGrow, RecordFits, RunsFit, HolderInv, [Next]_vars PROVE HolderInv'
  OBVIOUS
<1>1. CASE UNCHANGED vars
  BY <1>1 DEF vars, HolderInv, HolderKnows, Committed, Stands, Same, Proved
<1>2. CASE Client
  <2>1. /\ once' = once /\ lease' = lease /\ disp' = disp
        /\ (mark = None => mark' = None)
        /\ (mark # None => mark' # None /\ mark'.session = mark.session)
        /\ agent.session <= agent'.session
        /\ \A s \in hist'.uncovered : s \in hist.uncovered \/ s = agent.session
    BY <1>2, ClientDoes
  <2>2. agent'.session \in Nat
    <3>1. agent'.session \in Sessions
      BY <1>2, ClientType DEF TypeOK
    <3> QED BY <3>1, Numbers
  <2>3. ASSUME NEW d \in Slots, lease' = d PROVE HolderKnows(d)'
    <3>1. HolderKnows(d)
      BY <2>1, <2>3 DEF HolderInv
    <3>2. disp[d].mark # None => disp[d].mark.session \in Nat
      <4>1. disp[d].mark \in Marks
        BY Types DEF Runs
      <4>2. disp[d].mark # None => disp[d].mark.session \in Sessions
        BY <4>1 DEF Marks
      <4> QED BY <4>2, Numbers
    <3>3. \A s : Stands(s) => Stands(s)'
      BY <2>1 DEF Stands
    <3>4. (Committed(d)' <=> Committed(d)) /\ (Same(d)' <=> Same(d)) /\ (Proved(d)' <=> Proved(d))
      BY <2>1 DEF Committed, Same, Proved
    <3>5. disp[d].pc \in {"judge", "reserve"} => mark' = None
      BY <3>1, <2>1 DEF HolderKnows
    <3>6. Committed(d) => Stands(disp[d].rec.session)'
      BY <3>1, <3>3, <2>1 DEF HolderKnows, Stands
    <3>7. disp[d].pc \notin {"off", "pass"} /\ ~Committed(d) /\ mark' # None =>
               disp[d].snap.session = 0 \/ mark'.session <= disp[d].snap.session
      BY <3>1, <2>1 DEF HolderKnows
    <3>8. ASSUME disp[d].pc \in Proving, disp[d].mark # None
          PROVE
               /\ Stands(disp[d].mark.session)'
               /\ disp[d].pc = "prove" => disp[d].ended = once'.end
               /\ disp[d].pc \in {"note", "forget", "unmark"} => once'.end = disp[d].mark.session
               /\ Same(d) /\ Proved(d) => disp[d].mark.session < agent'.session /\ disp[d].mark.session \notin hist'.uncovered
      <4>1. /\ Stands(disp[d].mark.session)
            /\ disp[d].pc = "prove" => disp[d].ended = once.end
            /\ disp[d].pc \in {"note", "forget", "unmark"} => once.end = disp[d].mark.session
            /\ Same(d) /\ Proved(d) => disp[d].mark.session < agent.session /\ disp[d].mark.session \notin hist.uncovered
        BY <3>1, <3>8 DEF HolderKnows
      <4>2. Stands(disp[d].mark.session)'
        BY <4>1, <2>1 DEF Stands
      <4>3. ASSUME Same(d), Proved(d) PROVE disp[d].mark.session < agent'.session /\ disp[d].mark.session \notin hist'.uncovered
        <5>1. disp[d].mark.session < agent.session /\ disp[d].mark.session \notin hist.uncovered /\ agent.session \in Nat
              /\ disp[d].mark.session \in Nat
          BY <4>1, <4>3, <3>2, <3>8, SessionTypes
        <5> QED BY <5>1, <2>1, <2>2
      <4> QED BY <4>1, <4>2, <4>3, <2>1
    <3>9. disp' = disp
      BY <2>1
    <3> QED BY <3>4, <3>5, <3>6, <3>7, <3>8, <3>9 DEF HolderKnows
  <2> QED BY <2>3 DEF HolderInv
<1>3. ASSUME NEW d \in Slots, Dispatcher(d) PROVE HolderInv'
  <2>1. UNCHANGED <<agent, snap>> /\ \A e \in Slots : e # d => disp'[e] = disp[e]
    BY <1>3, DispatcherType
  <2>2. /\ lease' = lease \/ (lease' = d /\ disp'[d].pc = "pass") \/ lease' = None
        /\ lease # d => UNCHANGED mark /\ once'.end = once.end
        /\ hist'.uncovered = hist.uncovered
    BY <1>3, OnlyHolder
  <2>3. ASSUME NEW e \in Slots, e # d, lease' = e PROVE HolderKnows(e)'
    <3>1. lease = e /\ lease # d /\ None # e
      BY <2>2, <2>3, ClearAssumption
    <3>2. HolderKnows(e) /\ disp'[e] = disp[e] /\ mark' = mark /\ once'.end = once.end
      BY <3>1, <2>1, <2>2, <2>3 DEF HolderInv
    <3> QED BY <3>2, <2>1, <2>2 DEF HolderKnows, Committed, Stands, Same, Proved
  <2>4. ASSUME lease' = d PROVE HolderKnows(d)'
    <3> DEFINE x == disp[d]  y == disp'[d]
    <3>1. CASE y.pc \in {"off", "pass"}
      BY <3>1 DEF HolderKnows, Committed, Proving
    <3>2. CASE y.pc \notin {"off", "pass"}
      <4>1. lease = d /\ lease' # None
        BY <3>2, <2>2, <2>4, ClearAssumption
      <4>2. HolderKnows(d) /\ RunFits(d)
        BY <4>1 DEF HolderInv, RunsFit
      <4>3. CASE Starts(d) /\ SameBus
        <5>1. mark # None => snap.session = 0 \/ mark.session <= snap.session
          BY DEF SessionsGrow, Beneath
        <5> QED BY <4>3, <5>1, <2>1 DEF Starts, Takes, SameBus, HolderKnows, Committed, Proving
      <4>4. CASE Sweeps(d) /\ SameBus
        BY <4>2, <4>4, <2>1 DEF Sweeps, Takes, SameBus, HolderKnows, Committed, Proving
      <4>5. CASE Reads(d) /\ SameBus /\ record' = record
        <5>1. x.pc = "read" /\ ~Committed(d) /\ (mark # None => x.snap.session = 0 \/ mark.session <= x.snap.session)
          BY <4>2, <4>5 DEF Reads, Takes, HolderKnows, Committed
        <5>2. x.snap \in Snaps /\ x.snap.session <= agent.session
          BY <4>2, <5>1 DEF RunFits
        <5>3. x.snap.session \in Nat
          <6>1. \A n \in Sessions \union {0} : n \in Nat
            BY Numbers
          <6> QED BY <6>1, <5>2 DEF Snaps
        <5>4. CASE y.pc = "prove"
          <6>1. /\ y.snap = x.snap /\ y.rec = record /\ mark # None /\ y.mark = mark /\ y.ended = once.end
                /\ mark' = mark /\ once' = once /\ hist' = hist /\ agent' = agent
            BY <4>5, <5>4, <2>1 DEF Reads, Takes, SameBus
          <6>2. ASSUME Same(d)', Proved(d)' PROVE mark.session < agent.session /\ mark.session \notin hist.uncovered
            <7>1. record # None /\ record.session = mark.session /\ x.snap.session \notin {0, mark.session}
              BY <6>1, <6>2 DEF Same, Proved
            <7>2. mark.session < agent.session
              BY <7>1, <6>1, <5>1, <5>2, <5>3, SessionTypes
            <7> QED BY <7>1, <7>2 DEF RecordFits
          <6>3. mark' # None => y.snap.session = 0 \/ mark'.session <= y.snap.session
            BY <6>1, <5>1
          <6> HIDE DEF x
          <6> QED BY <6>1, <6>2, <6>3, <5>4 DEF HolderKnows, Committed, Stands, Proving
        <5>5. CASE y.pc = "judge"
          BY <4>5, <5>5 DEF Reads, Takes, SameBus, HolderKnows, Committed, Proving
        <5> QED BY <4>5, <5>4, <5>5 DEF Reads, Takes
      <4>6. CASE Decides(d) /\ SameBus
        <5>1. (Same(d)' <=> Same(d)) /\ (Proved(d)' <=> Proved(d))
          BY <4>6 DEF Decides, SameHand, Same, Proved
        <5>2. SameHand(d) /\ mark' = mark /\ once' = once /\ hist' = hist /\ agent' = agent
          BY <4>6, <2>1 DEF Decides, SameBus
        <5>3. CASE Takes(d, "prove", Verdict(d))
          <6>1. x.pc = "prove" /\ y.pc = Verdict(d) /\ x.mark # None
            BY <5>3, <4>2 DEF Takes, RunFits, Proving
          <6>2. Verdict(d) \in Proving \union {"pass"} /\ Verdict(d) \notin {"prove", "note", "forget", "judge", "reserve", "look", "type"}
            BY StepsAre DEF Proving
          <6>3. Verdict(d) = "unmark" => x.ended = x.mark.session
            BY VerdictDoes
          <6>4. ~Committed(d) /\ ~Committed(d)'
            BY <6>1, <6>2, <5>2 DEF Committed, SameHand
          <6>5. /\ Stands(x.mark.session) /\ x.ended = once.end
                /\ Same(d) /\ Proved(d) => x.mark.session < agent.session /\ x.mark.session \notin hist.uncovered
                /\ mark # None => x.snap.session = 0 \/ mark.session <= x.snap.session
            BY <4>2, <6>1, <6>4 DEF HolderKnows, Proving
          <6> QED BY <5>1, <5>2, <6>1, <6>2, <6>3, <6>4, <6>5 DEF HolderKnows, Stands, SameHand
        <5>4. CASE Takes(d, "judge", "reserve")
          BY <5>1, <5>2, <5>4, <4>2 DEF Takes, SameHand, HolderKnows, Committed, Proving
        <5>5. CASE Takes(d, "look", "type") \/ Takes(d, "look", "unmark")
          <6>1. x.mark = None /\ Committed(d) /\ Committed(d)' /\ y.pc \in {"type", "unmark"}
            BY <5>2, <5>5, <4>2 DEF Takes, SameHand, RunFits, Clearing, Committed
          <6> QED BY <6>1, <5>2, <4>2 DEF SameHand, HolderKnows, Stands
        <5> QED BY <4>6, <5>3, <5>4, <5>5 DEF Decides
      <4>7. CASE Works(d)
        <5>1. (Same(d)' <=> Same(d)) /\ (Proved(d)' <=> Proved(d)) /\ SameHand(d)
          BY <4>7 DEF Works, SameHand, Same, Proved
        <5>2. CASE Takes(d, "reserve", "look")
          <6>1. Reserve(d)
            BY <5>2, <4>7 DEF Works, Takes
          <6>2. mark' # None /\ mark'.session = x.rec.session /\ y.pc = "look" /\ y.rec = x.rec
            BY <6>1, <5>2, ReserveDoes DEF Takes
          <6> QED BY <6>2 DEF HolderKnows, Committed, Stands, Proving
        <5>3. CASE Takes(d, "resume", "forget") \/ Takes(d, "rebuild", "note") \/ Takes(d, "note", "unmark") \/ Takes(d, "forget", "unmark")
          <6>1. x.mark # None /\ x.pc \in Proving /\ y.pc \in {"forget", "note", "unmark"} /\ y.mark = x.mark /\ y.snap = x.snap
            BY <5>1, <5>3, <4>2 DEF Takes, SameHand, RunFits, Proving
          <6>2. mark' = mark /\ once'.end = x.mark.session
            <7>1. CASE x.pc \in {"resume", "rebuild", "note"}
              <8>1. Sends(d)
                BY <7>1, <4>7 DEF Works, Takes
              <8>2. x.pc = "note" => once.end = x.mark.session
                BY <4>2, <6>1 DEF HolderKnows
              <8> QED BY <8>1, <8>2, <6>1, <7>1, SendDoes
            <7>2. CASE x.pc = "forget"
              <8>1. Forget(d)
                BY <7>2, <4>7 DEF Works, Takes
              <8>3. UNCHANGED <<mark, once>>
                BY <8>1, DropDoes DEF SameBus
              <8>4. once.end = x.mark.session
                BY <4>2, <6>1, <7>2 DEF HolderKnows
              <8> QED BY <8>3, <8>4
            <7> QED BY <7>1, <7>2, <5>3 DEF Takes
          <6>3. ~Committed(d) /\ ~Committed(d)'
            BY <6>1, <4>2, <5>3 DEF Committed, Takes
          <6>4. /\ Stands(x.mark.session)
                /\ Same(d) /\ Proved(d) => x.mark.session < agent.session /\ x.mark.session \notin hist.uncovered
                /\ mark # None => x.snap.session = 0 \/ mark.session <= x.snap.session
            BY <4>2, <6>1, <6>3, <5>3 DEF HolderKnows, Takes
          <6> QED BY <6>1, <6>2, <6>3, <6>4, <5>1, <2>1, <2>2 DEF HolderKnows, Stands
        <5> QED BY <4>7, <5>2, <5>3 DEF Works
      <4> QED BY <3>2, <4>1, <4>3, <4>4, <4>5, <4>6, <4>7, <1>3, RunMoves DEF Stays
    <3> QED BY <3>1, <3>2
  <2> QED BY <2>3, <2>4 DEF HolderInv
<1> QED BY <1>1, <1>2, <1>3 DEF Next

-----------------------------------------------------------------------------
(* The clears that are spent.                                               *)

LEMMA HandOffType ==
    /\ None \notin HandOffs
    /\ \A r \in HandOffs : r.session \in Sessions /\ r.session \in Nat /\ r.session >= 1 /\ r.proc \in Nat /\ r.at \in Nat
    /\ \A r \in Records : r # None => r \in HandOffs
<1>1. \A r \in Records : r # None => r \in HandOffs
  BY DEF Records, HandOffs
<1>2. ASSUME NEW r \in HandOffs PROVE r.session \in Sessions /\ r.proc \in Nat /\ r.at \in Times
  BY <1>2 DEF HandOffs
<1>3. (\A s \in Sessions : s \in Nat /\ s >= 1) /\ Times \subseteq Nat
  BY Numbers
<1>4. ASSUME NEW r \in HandOffs PROVE r # None
  <2>1. r = [session |-> r.session, proc |-> r.proc, at |-> r.at]
    BY <1>4 DEF HandOffs
  <2>2. r \in [session : Nat, proc : Nat, at : Nat]
    BY <2>1, <1>2, <1>3
  <2> QED BY <2>2, ClearAssumption
<1> QED BY <1>1, <1>2, <1>3, <1>4

LEMMA CalledGrows ==
    ASSUME hist \in Hists, NEW r, NEW t \in Records, hist'.calls = Append(hist.calls, t)
    PROVE  /\ Called(r)' <=> Called(r) \/ r = t
           /\ DOMAIN hist'.calls = DOMAIN hist.calls \union {Len(hist.calls) + 1}
           /\ Len(hist.calls) + 1 \notin DOMAIN hist.calls
           /\ \A i \in DOMAIN hist.calls : hist'.calls[i] = hist.calls[i]
           /\ hist'.calls[Len(hist.calls) + 1] = t
<1>1. hist.calls \in Seq(Records)
  BY DEF Hists
<1>2. Len(hist.calls) \in Nat /\ DOMAIN hist.calls = 1 .. Len(hist.calls)
      /\ DOMAIN hist'.calls = 1 .. (Len(hist.calls) + 1)
      /\ (\A i \in 1 .. Len(hist.calls) : hist'.calls[i] = hist.calls[i])
      /\ hist'.calls[Len(hist.calls) + 1] = t
  BY <1>1
<1>3. DOMAIN hist'.calls = DOMAIN hist.calls \union {Len(hist.calls) + 1} /\ Len(hist.calls) + 1 \notin DOMAIN hist.calls
  BY <1>2
<1> QED BY <1>2, <1>3 DEF Called

\* A run commits to a clear by reserving it, and only Runtime.Clear is a call.
LEMMA Commits ==
    ASSUME TypeOK, RunsFit, NEW d \in Slots, Dispatcher(d)
    PROVE  /\ Committed(d)' => /\ disp'[d].rec = disp[d].rec
                               /\ Committed(d) \/ (Reserve(d) /\ disp'[d].pc = "look" /\ disp[d].pc = "reserve")
           /\ hist'.calls = hist.calls \/ (Type(d) /\ ~Committed(d)')
<1>0. RunFits(d)
  BY DEF RunsFit
<1>1. ASSUME Committed(d)'
      PROVE  /\ disp'[d].rec = disp[d].rec
             /\ Committed(d) \/ (Reserve(d) /\ disp'[d].pc = "look" /\ disp[d].pc = "reserve")
  <2>1. disp'[d].pc \in {"look", "type", "unmark"} /\ (disp'[d].pc = "unmark" => disp'[d].mark = None)
    BY <1>1 DEF Committed
  <2>2. CASE Decides(d)
    <3>1. CASE Takes(d, "prove", Verdict(d))
      BY <3>1, <2>1, <2>2, <1>0, StepsAre DEF Decides, Takes, SameHand, RunFits, Proving
    <3>2. CASE Takes(d, "look", "type") \/ Takes(d, "look", "unmark")
      BY <3>2, <2>2 DEF Decides, Takes, SameHand, Committed
    <3> QED BY <3>1, <3>2, <2>1, <2>2 DEF Decides, Takes
  <2>3. CASE Works(d)
    BY <2>1, <2>3, <1>0 DEF Works, Takes, SameHand, RunFits, Proving
  <2>4. CASE Stays(d)
    BY <1>1, <2>4 DEF Stays, Committed
  <2>5. ~Starts(d) /\ ~Sweeps(d) /\ ~Reads(d)
    BY <2>1 DEF Starts, Sweeps, Reads, Takes
  <2> QED BY <2>1, <2>2, <2>3, <2>4, <2>5, RunMoves
<1>2. Type(d) => ~Committed(d)'
  BY TypeDoes DEF Committed
<1>3. ~Type(d) => hist'.calls = hist.calls
  BY Kinds, QuietDoes, DropDoes, SendDoes, UnmarkDoes, ReserveDoes DEF SameBus
<1> QED BY <1>1, <1>2, <1>3

\* What is told stays told, and a record once gone does not come back.
LEMMA SettledStays ==
    ASSUME TypeOK, SessionsGrow, RunsFit, [Next]_vars, NEW r \in HandOffs, r.at <= Now
    PROVE  /\ Told(r.session) => Told(r.session)'
           /\ record # r => record' # r
           /\ Past(r, snap) => UpTo(r, snap)
           /\ UpTo(r, snap) => UpTo(r, snap')
           /\ Past(r, snap) => Past(r, snap')
           /\ Settled(r) => Settled(r)'
           /\ r.at <= Now'
<1>0. /\ r.session \in Sessions /\ r.session \in Nat /\ r.proc \in Nat /\ r.at \in Nat /\ r # None /\ hist \in Hists
      /\ Now \in Nat /\ snap.session \in Nat /\ snap.proc \in Nat
  BY HandOffType, Types, SessionTypes
<1>1. /\ hist'.sent = hist.sent \/ \E t \in Sessions : \E kind : hist'.sent = Append(hist.sent, <<t, kind>>)
      /\ \/ record' = record \/ record' = None
         \/ record' = [session |-> agent.session, proc |-> agent.proc, at |-> Now'] /\ Now' = Now + 2
      /\ snap.proc < snap'.proc \/ (snap.proc = snap'.proc /\ snap.session <= snap'.session)
      /\ Now <= Now'
  <2>1. CASE UNCHANGED vars
    BY <2>1, <1>0 DEF vars, Now, Statuses
  <2>2. CASE Client
    BY <2>2, ClientDoes
  <2>3. ASSUME NEW d \in Slots, Dispatcher(d)
        PROVE  /\ hist'.sent = hist.sent \/ \E t \in Sessions : \E kind : hist'.sent = Append(hist.sent, <<t, kind>>)
               /\ record' = record \/ record' = None
               /\ snap' = snap /\ Now' = Now
    <3>1. snap' = snap /\ Now' = Now
      BY <2>3, DispatcherType, Kinds
    <3>2. CASE Sends(d)
      BY <3>1, <3>2, SendDoes
    <3>3. CASE ~Sends(d)
      BY <3>1, <3>3, <2>3, Kinds, QuietDoes, DropDoes, UnmarkDoes, ReserveDoes, TypeDoes DEF SameBus
    <3> QED BY <3>2, <3>3
  <2>4. CASE \E d \in Slots : Dispatcher(d)
    BY <2>3, <2>4, <1>0
  <2> QED BY <2>1, <2>2, <2>4 DEF Next
<1>2. Told(r.session) => Told(r.session)'
  <2>1. CASE hist'.sent = hist.sent
    BY <2>1 DEF Told
  <2>2. ASSUME NEW t \in Sessions, NEW kind, hist'.sent = Append(hist.sent, <<t, kind>>) PROVE Told(r.session) => Told(r.session)'
    BY <2>2, <1>0, ToldGrows
  <2> QED BY <1>1, <2>1, <2>2
<1>3. record # r => record' # r
  <2>1. CASE record' = [session |-> agent.session, proc |-> agent.proc, at |-> Now'] /\ Now' = Now + 2
    <3>1. record'.at = Now + 2
      BY <2>1
    <3> QED BY <3>1, <1>0
  <2> QED BY <1>1, <2>1, <1>0
<1>4. snap'.session \in Nat /\ snap'.proc \in Nat /\ Now' \in Nat
  <2>1. TypeOK'
    BY TypeStep
  <2>2. snap'.proc \in Nat /\ snap'.session \in Sessions \union {0} /\ left'.statuses \in Nat /\ left'.statuses <= MaxStatuses
    BY <2>1 DEF TypeOK, Snaps
  <2>3. \A n \in Sessions \union {0} : n \in Nat
    BY Numbers
  <2>4. MaxStatuses - left'.statuses \in Nat
    BY <2>2, Numbers
  <2> QED BY <2>2, <2>3, <2>4 DEF Now, Statuses
<1>5. (UpTo(r, snap) => UpTo(r, snap')) /\ (Past(r, snap) => Past(r, snap'))
  BY <1>0, <1>1, <1>4 DEF UpTo, Past
<1>6. r.at <= Now'
  BY <1>0, <1>1, <1>4
<1>7. Past(r, snap) => UpTo(r, snap)
  BY <1>0 DEF Past, UpTo
<1> QED BY <1>2, <1>3, <1>5, <1>6, <1>7 DEF Settled, Past

\* A hand-off is spent by a reservation, and only by one the holder makes of the record.
LEMMA SpentBefore ==
    ASSUME TypeOK, RunsFit, NEW d \in Slots, Dispatcher(d), NEW r \in HandOffs, Spent(r)'
    PROVE  \/ Spent(r)
           \/ /\ Reserve(d) /\ disp[d].pc = "reserve" /\ disp'[d].pc = "look"
              /\ disp[d].rec = r /\ disp'[d].rec = r
<1>1. \A e \in Slots : e # d => disp'[e] = disp[e]
  BY DispatcherType
<1>2. /\ Committed(d)' => /\ disp'[d].rec = disp[d].rec
                          /\ Committed(d) \/ (Reserve(d) /\ disp'[d].pc = "look" /\ disp[d].pc = "reserve")
      /\ hist'.calls = hist.calls \/ (Type(d) /\ ~Committed(d)')
  BY Commits
<1>3. ASSUME Called(r)' PROVE Spent(r)
  <2>1. CASE hist'.calls = hist.calls
    BY <1>3, <2>1 DEF Called, Spent
  <2>2. CASE Type(d)
    <3>1. hist'.calls = Append(hist.calls, disp[d].rec) /\ disp[d].pc = "type"
      BY <2>2, TypeDoes
    <3>2. disp[d].rec \in Records /\ hist \in Hists
      BY Types DEF Runs
    <3>3. Called(r) \/ r = disp[d].rec
      BY <1>3, <3>1, <3>2, CalledGrows
    <3> QED BY <3>1, <3>3 DEF Spent, Clears, Committed
  <2> QED BY <1>2, <2>1, <2>2
<1>4. ASSUME NEW e \in Slots, e # d, Clears(e, r)' PROVE Spent(r)
  <2>1. Clears(e, r)
    BY <1>1, <1>4 DEF Clears, Committed
  <2> QED BY <2>1 DEF Spent
<1>5. ASSUME Clears(d, r)' PROVE Spent(r) \/ (Reserve(d) /\ disp[d].pc = "reserve" /\ disp'[d].pc = "look" /\ disp[d].rec = r /\ disp'[d].rec = r)
  <2>1. Committed(d)' /\ disp'[d].rec = r
    BY <1>5 DEF Clears
  <2>2. CASE Committed(d)
    BY <1>2, <2>1, <2>2 DEF Spent, Clears
  <2> QED BY <1>2, <2>1, <2>2
<1> QED BY <1>3, <1>4, <1>5 DEF Spent

\* A run that reserves a clear reserves one that is not spent.
LEMMA ReservesUnspent ==
    ASSUME TypeOK, RunsFit, HolderInv, SpentInv, NEW d \in Slots, Reserve(d), disp'[d].pc = "look"
    PROVE  /\ disp[d].rec \in HandOffs /\ ~Spent(disp[d].rec)
           /\ lease = d /\ lease' = d /\ mark = None /\ record = disp[d].rec /\ record' = record
           /\ mark' # None /\ mark'.session = record.session /\ disp'[d].rec = disp[d].rec
<1>1. /\ disp[d].pc = "reserve" /\ lease = d /\ lease' = d /\ record # None /\ record = disp[d].rec /\ record' = record
      /\ mark' # None /\ mark'.session = record.session /\ disp'[d].rec = disp[d].rec
  BY ReserveDoes
<1>2. mark = None /\ ~Committed(d)
  BY <1>1 DEF HolderInv, HolderKnows, Committed
<1>3. record \in HandOffs
  BY <1>1, SessionTypes
<1>4. ASSUME Spent(record) PROVE FALSE
  <2>1. HolderMinds(d, record)
    BY <1>1, <1>3, <1>4 DEF SpentInv, SpentFits
  <2>2. Past(record, disp[d].snap)
    BY <2>1, <1>1, <1>2 DEF HolderMinds, Stands
  <2>3. ~VoidFor(record, disp[d].snap)
    BY <1>1 DEF RunsFit, RunFits
  <2>4. record.proc \in Nat /\ record.session \in Nat
    BY <1>1, SessionTypes
  <2> QED BY <2>2, <2>3, <2>4 DEF Past, VoidFor
<1> QED BY <1>1, <1>2, <1>3, <1>4

\* What an Unmark by the holder leaves behind: the session was told.
LEMMA UnmarkSettles ==
    ASSUME TypeOK, SessionsGrow, RunsFit, HolderInv, SpentInv, SpentOnce,
           NEW d \in Slots, Unmark(d), Dispatcher(d), lease = d, disp[d].pc = "unmark", disp'[d].pc = "pass",
           NEW r \in HandOffs, Spent(r), Spent(r)', Stands(r.session)
    PROVE  Settled(r)
<1> DEFINE x == disp[d]
<1>0. /\ r.session \in Nat /\ r.session >= 1 /\ r.proc \in Nat /\ r # None
      /\ snap.session \in Nat /\ snap.proc \in Nat
  BY HandOffType, SessionTypes
<1>1. HolderKnows(d) /\ HolderMinds(d, r) /\ RunFits(d)
  BY DEF HolderInv, SpentInv, SpentFits, RunsFit
<1>2. CASE x.mark = None
  <2>1. Committed(d)
    BY <1>2 DEF Committed
  <2>2. ASSUME x.rec = r PROVE FALSE
    <3>1. ~Called(r) /\ \A e \in Slots : Clears(e, r) => e = d
      BY <2>1, <2>2 DEF SpentOnce, Clears
    <3>2. ~Committed(d)'
      BY DEF Committed
    <3>3. hist' = hist /\ \A e \in Slots : e # d => disp'[e] = disp[e]
      BY UnmarkDoes, DispatcherType
    <3>4. \A e \in Slots : ~Clears(e, r)'
      BY <3>1, <3>2, <3>3 DEF Clears, Committed
    <3>5. ~Called(r)'
      BY <3>1, <3>3 DEF Called
    <3> QED BY <3>4, <3>5 DEF Spent
  <2> QED BY <1>1, <2>1, <2>2 DEF HolderMinds
<1>3. CASE x.mark # None
  <2>1. ~Committed(d) /\ Stands(x.mark.session) /\ once.end = x.mark.session
    BY <1>1, <1>3 DEF HolderKnows, Committed, Proving
  <2>2. x.mark.session = r.session /\ Told(r.session)
    BY <2>1, <1>0 DEF Stands, SessionsGrow
  <2>3. ASSUME record = r PROVE Past(r, snap)
    <3>1. x.rec = r /\ UpTo(r, x.snap)
      BY <1>1, <1>3, <2>1, <2>3 DEF HolderMinds, Proving
    <3>2. Same(d)
      BY <3>1, <2>2, <1>0 DEF Same
    <3>3. Proved(d)
      BY <1>1, <1>3, <3>2 DEF RunFits
    <3>4. x.snap.proc = r.proc /\ x.snap.session # r.session
      BY <3>1, <3>3, <2>2 DEF Proved
    <3>5. /\ x.snap \in Snaps
          /\ x.snap.proc < snap.proc \/ (x.snap.proc = snap.proc /\ x.snap.session <= snap.session)
      BY <1>1 DEF RunFits
    <3>6. x.snap.session \in Nat /\ x.snap.proc \in Nat
      <4>1. \A n \in Sessions \union {0} : n \in Nat
        BY Numbers
      <4> QED BY <4>1, <3>5 DEF Snaps
    <3>7. r.session < x.snap.session
      BY <3>1, <3>4, <3>6, <1>0 DEF UpTo
    <3> QED BY <3>4, <3>5, <3>6, <3>7, <1>0 DEF Past
  <2> QED BY <2>2, <2>3 DEF Settled
<1> QED BY <1>2, <1>3

\* What a run knows of a spent clear lasts as long as the run stands still and the
\* mark does.
LEMMA MindsKept ==
    ASSUME TypeOK, SessionsGrow, RunsFit, [Next]_vars, NEW r \in HandOffs, r.at <= Now,
           NEW d \in Slots, HolderMinds(d, r), disp'[d] = disp[d],
           mark = None => mark' = None,
           mark # None => mark' # None /\ mark'.session = mark.session
    PROVE  HolderMinds(d, r)'
<1>1. (record # r => record' # r) /\ (Settled(r) => Settled(r)')
  BY SettledStays
<1>2. (Stands(r.session) => Stands(r.session)') /\ (Committed(d)' <=> Committed(d))
  BY DEF Stands, Committed
<1> QED BY <1>1, <1>2 DEF HolderMinds, UpTo, Past

\* What the holder's next step knows of a clear that was spent.
LEMMA MindsGrow ==
    ASSUME TypeOK, SessionsGrow, RunsFit, HolderInv, NEW d \in Slots, Dispatcher(d), [Next]_vars,
           NEW r \in HandOffs, SpentFits(r), lease = d, lease' = d, disp'[d].pc \notin {"off", "pass"}
    PROVE  HolderMinds(d, r)'
<1> DEFINE x == disp[d]  y == disp'[d]
<1>1. HolderKnows(d) /\ HolderMinds(d, r) /\ RunFits(d)
  BY DEF HolderInv, SpentFits, RunsFit
<1>2. /\ record # r => record' # r
      /\ Settled(r) => Settled(r)'
      /\ r.at <= Now
  BY SettledStays DEF SpentFits
<1>3. lease' # None /\ snap' = snap
  BY ClearAssumption, DispatcherType
<1>4. SameBus => (Stands(r.session) <=> Stands(r.session)')
  BY DEF SameBus, Stands
<1>5. CASE Starts(d) /\ SameBus
  <2>1. UpTo(r, snap) /\ (record # r \/ Stands(r.session) \/ Past(r, snap))
    BY DEF SpentFits, Settled
  <2>2. y.pc = "sweep" /\ y.snap = snap /\ ~Committed(d)'
    BY <1>5 DEF Starts, Takes, Committed
  <2> QED BY <2>1, <2>2, <1>2, <1>4, <1>5 DEF HolderMinds, Proving
<1>6. CASE Sweeps(d) /\ SameBus
  <2>1. ~Committed(d) /\ ~Committed(d)' /\ y.snap = x.snap /\ x.pc \in {"sweep", "void"} /\ y.pc \in {"void", "read"}
    BY <1>6 DEF Sweeps, Takes, Committed
  <2>2. UpTo(r, x.snap) /\ (record # r \/ Stands(r.session) \/ Past(r, x.snap))
    BY <1>1, <2>1 DEF HolderMinds
  <2> QED BY <2>1, <2>2, <1>2, <1>4, <1>6 DEF HolderMinds, Proving
<1>7. CASE Reads(d) /\ SameBus /\ record' = record
  <2>1. ~Committed(d) /\ ~Committed(d)' /\ y.snap = x.snap /\ x.pc = "read" /\ y.pc \in {"prove", "judge"} /\ y.rec = record
    BY <1>7 DEF Reads, Takes, Committed
  <2>2. UpTo(r, x.snap) /\ (record # r \/ Stands(r.session) \/ Past(r, x.snap))
    BY <1>1, <2>1 DEF HolderMinds
  <2> QED BY <2>1, <2>2, <1>2, <1>4, <1>7 DEF HolderMinds
<1>8. CASE Decides(d) /\ SameBus /\ record' = record
  <2>1. SameHand(d)
    BY <1>8 DEF Decides
  <2>2. CASE Takes(d, "look", "type") \/ Takes(d, "look", "unmark")
    <3>1. x.mark = None /\ Committed(d) /\ y.mark = None
      BY <2>1, <2>2, <1>1 DEF RunFits, Clearing, Takes, SameHand, Committed
    <3>2. Committed(d)'
      BY <2>2, <3>1 DEF Takes, Committed
    <3> QED BY <2>1, <3>1, <3>2, <1>1, <1>2 DEF HolderMinds, SameHand
  <2>3. CASE Takes(d, "prove", Verdict(d)) \/ Takes(d, "judge", "reserve")
    <3>1. ~Committed(d) /\ ~Committed(d)'
      <4>1. CASE Takes(d, "prove", Verdict(d))
        BY <4>1, <2>1, <1>1, StepsAre DEF Takes, SameHand, RunFits, Proving, Committed
      <4>2. CASE Takes(d, "judge", "reserve")
        BY <4>2 DEF Takes, Committed
      <4> QED BY <2>3, <4>1, <4>2
    <3>2. x.pc \notin {"off", "pass"} /\ (y.pc \in Proving => x.pc \in Proving)
      BY <2>3 DEF Takes, Proving
    <3>3. UpTo(r, x.snap) /\ (record # r \/ Stands(r.session) \/ Past(r, x.snap))
      BY <1>1, <3>1, <3>2 DEF HolderMinds
    <3> QED BY <2>1, <3>1, <3>2, <3>3, <1>1, <1>4, <1>8 DEF HolderMinds, SameHand
  <2> QED BY <1>8, <2>2, <2>3 DEF Decides
<1>9. CASE Works(d)
  <2>1. SameHand(d)
    BY <1>9 DEF Works
  <2>2. CASE Takes(d, "reserve", "look")
    <3>1. Settled(r)
      BY <2>2, <1>1 DEF HolderKnows, Takes, Stands, SpentFits
    <3>2. y.pc = "look"
      BY <2>2 DEF Takes
    <3> QED BY <3>1, <3>2, <1>2 DEF HolderMinds, Committed, Proving
  <2>3. CASE Takes(d, "forget", "unmark") \/ Takes(d, "resume", "forget") \/ Takes(d, "rebuild", "note") \/ Takes(d, "note", "unmark")
    <3>1. x.pc \in {"forget", "resume", "rebuild", "note"} /\ x.mark # None /\ y.mark # None
      BY <2>1, <2>3, <1>1 DEF Takes, SameHand, RunFits, Proving
    <3>2. ~Committed(d) /\ ~Committed(d)'
      BY <3>1, <2>3 DEF Committed, Takes
    <3>3. mark' = mark
      <4>1. CASE Forget(d)
        BY <4>1, DropDoes DEF SameBus
      <4>2. CASE Sends(d)
        BY <4>2, SendDoes
      <4> QED BY <4>1, <4>2, <2>3, <1>9 DEF Works, Takes
    <3>4. UpTo(r, x.snap) /\ (record # r \/ Stands(r.session) \/ Past(r, x.snap)) /\ (record = r => x.rec = r)
      BY <1>1, <3>1, <3>2 DEF HolderMinds, Proving
    <3>5. Stands(r.session) => Stands(r.session)'
      BY <3>3 DEF Stands
    <3> QED BY <2>1, <3>2, <3>4, <3>5, <1>2 DEF HolderMinds, SameHand
  <2> QED BY <1>9, <2>2, <2>3 DEF Works
<1> QED BY <1>3, <1>5, <1>6, <1>7, <1>8, <1>9, RunMoves DEF Stays

LEMMA SpentInvStep ==
    /\ TypeOK /\ SessionsGrow /\ RecordFits /\ RunsFit /\ HolderInv /\ SpentInv /\ SpentOnce
    /\ [Next]_vars
    => SpentInv'
<1> SUFFICES ASSUME TypeOK, SessionsGrow, RecordFits, RunsFit, HolderInv, SpentInv, SpentOnce, [Next]_vars,
                    NEW r \in HandOffs, Spent(r)'
             PROVE  SpentFits(r)'
  BY DEF SpentInv, HandOffs
<1>1. ASSUME Spent(r)
      PROVE  /\ r.at <= Now /\ r.at <= Now' /\ UpTo(r, snap)' /\ (Settled(r) => Settled(r)')
             /\ Settled(r) \/ Stands(r.session)
             /\ \A d \in Slots : lease = d => HolderMinds(d, r)
  <2>1. SpentFits(r)
    BY <1>1 DEF SpentInv
  <2>2. UpTo(r, snap')
    BY <2>1, SettledStays DEF SpentFits
  <2>3. UpTo(r, snap)'
    BY <2>2 DEF UpTo
  <2> QED BY <2>1, <2>3, SettledStays DEF SpentFits
<1>2. CASE UNCHANGED vars
  <2>1. Spent(r)
    BY <1>2 DEF Spent, Called, Clears, Committed, vars
  <2>2. (Stands(r.session) => Stands(r.session)') /\ lease' = lease
    BY <1>2 DEF vars, Stands
  <2>3. ASSUME NEW d \in Slots, lease = d PROVE HolderMinds(d, r)'
    <3>1. HolderMinds(d, r) /\ r.at <= Now /\ disp'[d] = disp[d] /\ mark' = mark
      BY <2>1, <2>3, <1>1, <1>2 DEF vars
    <3> QED BY <3>1, MindsKept
  <2> QED BY <1>1, <2>1, <2>2, <2>3 DEF SpentFits
<1>3. CASE Client
  <2>1. /\ lease' = lease /\ disp' = disp /\ hist'.calls = hist.calls
        /\ mark = None => mark' = None
        /\ mark # None => mark' # None /\ mark'.session = mark.session
    BY <1>3, ClientDoes
  <2>2. Spent(r)
    BY <2>1 DEF Spent, Called, Clears, Committed
  <2>3. Stands(r.session) => Stands(r.session)'
    BY <2>1 DEF Stands
  <2>4. ASSUME NEW d \in Slots, lease = d PROVE HolderMinds(d, r)'
    <3>1. HolderMinds(d, r) /\ r.at <= Now /\ disp'[d] = disp[d]
      BY <2>1, <2>2, <2>4, <1>1
    <3> QED BY <2>1, <3>1, MindsKept
  <2> QED BY <1>1, <2>1, <2>2, <2>3, <2>4 DEF SpentFits
<1>4. ASSUME NEW d \in Slots, Dispatcher(d) PROVE SpentFits(r)'
  <2>1. /\ UNCHANGED snap /\ \A e \in Slots : e # d => disp'[e] = disp[e]
        /\ Now' = Now
    BY <1>4, DispatcherType, Kinds
  <2>2. /\ lease' = lease \/ (lease' = d /\ disp'[d].pc = "pass") \/ lease' = None
        /\ lease # d => UNCHANGED mark
    BY <1>4, OnlyHolder
  <2>3. CASE Spent(r)
    <3>1. SpentFits(r)
      BY <2>3 DEF SpentInv
    <3>2. Settled(r)' \/ Stands(r.session)'
      <4>1. CASE Settled(r)
        BY <4>1, <1>1, <2>3
      <4>2. CASE Stands(r.session) /\ mark' = mark
        BY <4>2 DEF Stands
      <4>3. CASE Stands(r.session) /\ mark' # mark
        <5>1. CASE Unmark(d)
          <6>1. lease = d /\ disp[d].pc = "unmark" /\ disp'[d].pc = "pass"
            BY <4>3, <5>1, UnmarkDoes
          <6>2. Settled(r)
            BY <4>3, <5>1, <6>1, <1>4, <2>3, UnmarkSettles
          <6> QED BY <6>2, <1>1, <2>3
        <5>2. CASE Reserve(d)
          <6>1. disp'[d].pc = "look"
            BY <4>3, <5>2, ReserveDoes
          <6>2. mark = None
            BY <6>1, <5>2, ReservesUnspent
          <6> QED BY <6>2, <4>3 DEF Stands
        <5>3. CASE ~Unmark(d) /\ ~Reserve(d)
          BY <4>3, <5>3, <1>4, Kinds, QuietDoes, DropDoes, SendDoes, TypeDoes DEF SameBus
        <5> QED BY <5>1, <5>2, <5>3
      <4> QED BY <1>1, <2>3, <4>1, <4>2, <4>3
    <3>3. ASSUME NEW e \in Slots, lease' = e PROVE HolderMinds(e, r)'
      <4>1. CASE e # d
        <5>1. lease = e /\ lease # d /\ mark' = mark /\ disp'[e] = disp[e]
          BY <4>1, <3>3, <2>1, <2>2, ClearAssumption
        <5>2. HolderMinds(e, r) /\ r.at <= Now
          BY <5>1, <3>1 DEF SpentFits
        <5> QED BY <5>1, <5>2, MindsKept
      <4>2. CASE e = d /\ disp'[d].pc \in {"off", "pass"}
        BY <4>2 DEF HolderMinds, Committed, Proving
      <4>3. CASE e = d /\ disp'[d].pc \notin {"off", "pass"}
        <5>1. lease = d /\ lease' = d
          BY <4>3, <3>3, <2>2, ClearAssumption
        <5> QED BY <5>1, <3>1, <4>3, <1>4, MindsGrow
      <4> QED BY <4>1, <4>2, <4>3
    <3> QED BY <3>2, <3>3, <1>1, <2>3 DEF SpentFits
  <2>4. CASE ~Spent(r)
    <3>1. Reserve(d) /\ disp'[d].pc = "look" /\ disp[d].rec = r /\ disp'[d].rec = r
      BY <2>4, <1>4, SpentBefore
    <3>2. lease' = d /\ record = r /\ mark' # None /\ mark'.session = r.session
      BY <3>1, ReservesUnspent
    <3>3. r # None
      BY HandOffType
    <3>4. r.at <= Now /\ UpTo(r, snap)
      BY <3>2, <3>3 DEF RecordFits
    <3>5. r.at <= Now' /\ UpTo(r, snap)'
      BY <3>4, <2>1 DEF UpTo
    <3>6. Stands(r.session)'
      BY <3>2 DEF Stands
    <3>7. \A e \in Slots : lease' = e => HolderMinds(e, r)'
      BY <3>1, <3>2 DEF HolderMinds, Committed, Proving
    <3> QED BY <3>5, <3>6, <3>7 DEF SpentFits
  <2> QED BY <2>3, <2>4
<1> QED BY <1>2, <1>3, <1>4 DEF Next

LEMMA SpentOnceStep ==
    /\ TypeOK /\ SessionsGrow /\ RecordFits /\ RunsFit /\ HolderInv /\ SpentInv /\ SpentOnce
    /\ [Next]_vars
    => SpentOnce'
<1> SUFFICES ASSUME TypeOK, SessionsGrow, RecordFits, RunsFit, HolderInv, SpentInv, SpentOnce, [Next]_vars
             PROVE  SpentOnce'
  OBVIOUS
<1>1. CASE hist'.calls = hist.calls /\ disp' = disp
  BY <1>1 DEF SpentOnce, ClearOncePerHandoff, Called, Committed
<1>2. ASSUME NEW d \in Slots, Dispatcher(d) PROVE SpentOnce'
  <2>1. \A e \in Slots : e # d => disp'[e] = disp[e]
    BY <1>2, DispatcherType
  <2>2. /\ Committed(d)' => /\ disp'[d].rec = disp[d].rec
                            /\ Committed(d) \/ (Reserve(d) /\ disp'[d].pc = "look" /\ disp[d].pc = "reserve")
        /\ hist'.calls = hist.calls \/ (Type(d) /\ ~Committed(d)')
    BY <1>2, Commits
  <2>3. ASSUME Committed(d)', ~Committed(d)
        PROVE  ~Called(disp[d].rec) /\ \A e \in Slots : Committed(e) => disp[e].rec # disp[d].rec
    <3>1. ~Spent(disp[d].rec)
      BY <2>2, <2>3, ReservesUnspent
    <3> QED BY <3>1 DEF Spent, Clears
  <2>4. ASSUME NEW e \in Slots, Committed(e)'
        PROVE  disp'[e].rec = disp[e].rec /\ ~Called(disp[e].rec) /\ (e # d => Committed(e))
    <3>1. e # d => Committed(e)
      BY <2>1, <2>4 DEF Committed
    <3>2. disp'[e].rec = disp[e].rec
      BY <2>1, <2>2, <2>4
    <3>3. ~Called(disp[e].rec)
      BY <2>3, <2>4, <3>1 DEF SpentOnce
    <3> QED BY <3>1, <3>2, <3>3
  <2>5. ASSUME NEW e \in Slots, NEW f \in Slots, Committed(e)', Committed(f)', disp'[e].rec = disp'[f].rec
        PROVE  e = f
    <3>1. disp[e].rec = disp[f].rec /\ (e # d => Committed(e)) /\ (f # d => Committed(f))
      BY <2>4, <2>5
    <3>2. CASE Committed(e) /\ Committed(f)
      BY <3>1, <3>2 DEF SpentOnce
    <3>3. CASE ~Committed(e) \/ ~Committed(f)
      BY <3>1, <3>3, <2>3, <2>5
    <3> QED BY <3>2, <3>3
  <2>6. CASE hist'.calls = hist.calls
    <3>1. ClearOncePerHandoff' /\ \A i \in DOMAIN hist'.calls : hist'.calls[i] # None
      BY <2>6 DEF SpentOnce, ClearOncePerHandoff
    <3>2. \A e \in Slots : Committed(e)' => ~Called(disp[e].rec)'
      BY <2>4, <2>6, Zenon DEF Called
    <3> QED BY <3>1, <3>2, <2>5 DEF SpentOnce
  <2>7. CASE Type(d) /\ ~Committed(d)'
    <3> DEFINE t == disp[d].rec
    <3>1. hist'.calls = Append(hist.calls, t) /\ disp[d].pc = "type"
      BY <2>7, TypeDoes
    <3>2. Committed(d) /\ t # None /\ ~Called(t)
      BY <3>1 DEF Committed, RunsFit, RunFits, Clearing, SpentOnce
    <3>3. t \in Records /\ hist \in Hists
      BY Types DEF Runs
    <3>4. /\ DOMAIN hist'.calls = DOMAIN hist.calls \union {Len(hist.calls) + 1}
          /\ Len(hist.calls) + 1 \notin DOMAIN hist.calls
          /\ \A i \in DOMAIN hist.calls : hist'.calls[i] = hist.calls[i]
          /\ hist'.calls[Len(hist.calls) + 1] = t
          /\ \A r : Called(r)' <=> Called(r) \/ r = t
      BY <3>1, <3>3, CalledGrows
    <3> HIDE DEF t
    <3>5. ClearOncePerHandoff' /\ \A i \in DOMAIN hist'.calls : hist'.calls[i] # None
      BY <3>2, <3>4 DEF SpentOnce, ClearOncePerHandoff, Called
    <3>6. ASSUME NEW e \in Slots, Committed(e)' PROVE ~Called(disp[e].rec)'
      <4>1. e # d /\ Committed(e) /\ disp'[e].rec = disp[e].rec /\ ~Called(disp[e].rec)
        BY <3>6, <2>4, <2>7
      <4>2. disp[e].rec # t
        BY <4>1, <3>2 DEF SpentOnce, t
      <4>3. \A i \in DOMAIN hist'.calls : hist'.calls[i] # disp[e].rec
        BY <4>1, <4>2, <3>4 DEF Called
      <4> QED BY <4>1, <4>3 DEF Called
    <3> QED BY <3>5, <3>6, <2>5 DEF SpentOnce
  <2> QED BY <2>2, <2>6, <2>7
<1>3. CASE Client
  BY <1>1, <1>3, ClientDoes
<1>4. CASE UNCHANGED vars
  BY <1>1, <1>4 DEF vars
<1> QED BY <1>2, <1>3, <1>4 DEF Next

-----------------------------------------------------------------------------
(* What follows.                                                            *)

LEMMA InvInit == Init => ClearInv
<1> SUFFICES ASSUME Init PROVE ClearInv
  OBVIOUS
<1>1. TypeOK
  BY TypeInit
<1>2. /\ mark = None /\ record = None /\ lease = None /\ hooks = {}
      /\ once.end = 0 /\ snap.proc = 1 /\ snap.session = 1 /\ agent.proc = 1 /\ agent.session = 1
      /\ hist.sent = <<>> /\ hist.calls = <<>> /\ \A d \in Slots : disp[d] = Off
  BY DEF Init
<1>3. \A s : ~Told(s)
  BY <1>2 DEF Told
<1>4. SessionsGrow /\ RecordFits
  BY <1>2, <1>3 DEF SessionsGrow, RecordFits
<1>5. \A d \in Slots : disp[d].pc = "off" /\ ~Committed(d)
  BY <1>2, OffType DEF Committed
<1>6. RunsFit
  BY <1>5 DEF RunsFit, RunFits, Clearing, Reading, Proving
<1>7. HolderInv
  BY <1>2, ClearAssumption DEF HolderInv
<1>8. SpentInv /\ SpentOnce /\ OneMessagePerSession
  BY <1>2, <1>5 DEF SpentInv, Spent, Called, Clears, SpentOnce, ClearOncePerHandoff, OneMessagePerSession
<1> QED BY <1>1, <1>4, <1>6, <1>7, <1>8 DEF ClearInv

LEMMA InvStep == ClearInv /\ [Next]_vars => ClearInv'
BY TypeStep, SessionsGrowStep, RecordFitsStep, RunsFitStep, HolderStep, SpentInvStep, SpentOnceStep, OneMessageStep
   DEF ClearInv

\* The invariant that everything below rests on: what the record, the mark, the
\* message and every run in flight know of each other (bus/handoff.go, dispatch/clear.go).
THEOREM InvCorrect == Spec => []ClearInv
BY InvInit, InvStep, PTL DEF Spec

\* Every variable keeps its type, for any number of sessions, statuses, dispatchers
\* and faults.
THEOREM TypeCorrect == Spec => []TypeOK
<1>1. ClearInv => TypeOK
  BY DEF ClearInv
<1> QED BY <1>1, InvCorrect, PTL

\* A cleared session is told at most one terminal message, whoever crashes, loses its
\* lease or retries between FencedCmdOnce, the record's deletion and the mark's.
THEOREM OneMessageCorrect == Spec => []OneMessagePerSession
<1>1. ClearInv => OneMessagePerSession
  BY DEF ClearInv
<1> QED BY <1>1, InvCorrect, PTL

\* One hand-off is cleared at most once: Runtime.Clear is not fenced, yet no crash,
\* failed call, lost lease or second dispatcher repeats it for the same record.
THEOREM OnceCorrect == Spec => []ClearOncePerHandoff
<1>1. ClearInv => ClearOncePerHandoff
  BY DEF ClearInv, SpentOnce
<1> QED BY <1>1, InvCorrect, PTL

\* A /clear that may have been typed is never forgotten: its session was told
\* something, or the mark still stands for the next pass to settle.
THEOREM ForgottenCorrect == Spec => []NoClearForgotten
<1>1. ASSUME ClearInv PROVE NoClearForgotten
  <2>1. ASSUME NEW i \in DOMAIN hist.calls
        PROVE  Told(hist.calls[i].session) \/ (mark # None /\ mark.session = hist.calls[i].session)
    <3> DEFINE r == hist.calls[i]
    <3>1. r \in Records
      <4>1. hist.calls \in Seq(Records)
        BY <1>1, Types DEF ClearInv, Hists
      <4> QED BY <4>1, <2>1
    <3>2. r \in HandOffs
      BY <1>1, <2>1, <3>1, HandOffType DEF ClearInv, SpentOnce
    <3>3. Spent(r)
      BY <2>1 DEF Spent, Called
    <3> HIDE DEF r
    <3>4. SpentFits(r)
      BY <1>1, <3>2, <3>3 DEF ClearInv, SpentInv
    <3> QED BY <3>4 DEF SpentFits, Settled, Stands, r
  <2> QED BY <2>1 DEF NoClearForgotten
<1> QED BY <1>1, InvCorrect, PTL

\* An agent is told to go on from its hand-off only when its conversation was cleared
\* and the hand-off covers all it wrote in that conversation.
THEOREM ResumeCorrect == Spec => ResumeCoversWork
<1> DEFINE Covers == \A s \in Sessions : hist'.sent = Append(hist.sent, <<s, "resume">>) =>
                         s < agent.session /\ s \notin hist.uncovered
<1>1. ClearInv /\ [Next]_vars => [Covers]_vars
  <2> SUFFICES ASSUME ClearInv, Next, NEW s \in Sessions, hist'.sent = Append(hist.sent, <<s, "resume">>)
               PROVE  s < agent.session /\ s \notin hist.uncovered
    OBVIOUS
  <2>0. TypeOK /\ SessionsGrow /\ RunsFit /\ HolderInv /\ hist \in Hists
    BY Types DEF ClearInv
  <2>1. hist.sent \in Seq(Sessions \X {"resume", "rebuild", "escalate"})
    BY <2>0 DEF Hists
  <2>2. hist'.sent # hist.sent
    BY <2>1
  <2>3. ASSUME NEW d \in Slots, Dispatcher(d) PROVE s < agent.session /\ s \notin hist.uncovered
    <3>1. Sends(d)
      BY <2>0, <2>2, <2>3, Kinds, QuietDoes, DropDoes, UnmarkDoes, ReserveDoes, TypeDoes DEF SameBus
    <3>2. /\ lease = d /\ hist'.sent = Append(hist.sent, <<disp[d].mark.session, disp[d].pc>>)
          /\ disp[d].mark # None
      BY <2>0, <2>2, <3>1, SendDoes
    <3>3. <<disp[d].mark.session, disp[d].pc>> = <<s, "resume">>
      BY <2>1, <3>2
    <3>4. disp[d].mark.session = s /\ disp[d].pc = "resume"
      BY <3>3
    <3>5. Same(d) /\ Proved(d) /\ HolderKnows(d)
      BY <2>0, <3>2, <3>4 DEF RunsFit, RunFits, HolderInv
    <3> QED BY <3>2, <3>4, <3>5 DEF HolderKnows, Proving
  <2>4. ~Client
    BY <2>0, <2>2, ClientDoes
  <2> QED BY <2>3, <2>4 DEF Next
<1> QED BY <1>1, InvCorrect, PTL DEF Spec, ResumeCoversWork
=============================================================================
