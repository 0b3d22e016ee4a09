-------------------------- MODULE Conductor_proofs --------------------------
(***************************************************************************)
(* Why the conductor merges only what was checked and approved, for every  *)
(* change: ConductorInv is kept by every step, and what follows from it.   *)
(***************************************************************************)
EXTENDS ConductorRecords, WellFoundedInduction

-----------------------------------------------------------------------------
(* The process.                                                             *)

LEMMA ProcessTypes ==
    ASSUME NEW k \in Processes
    PROVE  /\ k.pc \in Steps /\ k.r \in Records /\ k.mem \in [Missions -> Records]
           /\ k.seen \in [Tasks -> Entries] /\ k.todo \subseteq Missions /\ k.cur \in 0 .. N
           /\ k.busy \in BOOLEAN /\ k.errs \in BOOLEAN /\ k.job \in {"startup", "repair", "pass", "op", "abort"}
BY DEF Processes

LEMMA AtIs ==
    ASSUME NEW k \in Processes, NEW pc \in Steps, NEW x \in Records, NEW k2, k2 = At(k, pc, x)
    PROVE  /\ k2 \in Processes /\ k2.pc = pc /\ k2.r = x
           /\ k2.cur = k.cur /\ k2.job = k.job /\ k2.mem = k.mem /\ k2.todo = k.todo
           /\ k2.seen = k.seen /\ k2.busy = k.busy /\ k2.errs = k.errs
<1>1. k2 = [[k EXCEPT !.pc = pc] EXCEPT !.r = x]
  BY DEF At, Processes
<1> QED BY <1>1 DEF Processes

LEMMA FailedIs ==
    ASSUME NEW k \in Processes, NEW x \in Records, NEW k2, k2 = Failed(k, x)
    PROVE  /\ k2 \in Processes /\ k2.pc = "failed" /\ k2.r = x
           /\ k2.cur = k.cur /\ k2.job = k.job /\ k2.mem = k.mem /\ k2.todo = k.todo
           /\ k2.seen = k.seen /\ k2.busy = k.busy /\ k2.errs
<1>1. k2 = [[[k EXCEPT !.pc = "failed"] EXCEPT !.r = x] EXCEPT !.errs = TRUE] /\ "failed" \in Steps
  BY DEF Failed, Processes, Steps, Working
<1> QED BY <1>1 DEF Processes

LEMMA FirstTurnIs ==
    ASSUME NEW k \in Processes, NEW k2, k2 = FirstTurn(k)
    PROVE  /\ k2 \in Processes /\ k2.pc = "turn" /\ k2.job = "pass" /\ k2.cur = 1 /\ k2.r = k.mem[1]
           /\ k2.mem = k.mem /\ k2.todo = k.todo /\ k2.seen = k.seen /\ k2.busy = k.busy
<1>1. 1 \in Missions /\ 1 \in 0 .. N /\ k.mem[1] \in Records
  BY ConductorAssumption DEF Missions, Processes
<1> DEFINE k1 == [[k EXCEPT !.job = "pass"] EXCEPT !.pc = "turn"]
<1>2. k2 = [[k1 EXCEPT !.cur = 1] EXCEPT !.r = k.mem[1]]
  BY DEF FirstTurn, Processes
<1>3. k1 \in Processes /\ k1.pc = "turn" /\ k1.job = "pass" /\ k1.mem = k.mem /\ k1.todo = k.todo
      /\ k1.seen = k.seen /\ k1.busy = k.busy
  BY DEF Processes, Steps, Working
<1> HIDE DEF k1
<1> QED BY <1>1, <1>2, <1>3 DEF Processes

LEMMA NewIs == New \in Records /\ NoEntry \in Entries
<1>1. 0 \in 0 .. MaxAttempts /\ <<>> \in Seq(HistoryEntries) /\ <<>> \in Seq(Deliveries)
  BY Constants
<1> QED BY <1>1 DEF New, NoEntry, Records, Entries, HistoryEntries, Life!States

\* Off and Idle are processes with nothing in hand.
LEMMA AtRest ==
    ASSUME NEW k2 \in {Off, Idle}
    PROVE  /\ k2 \in Processes /\ k2.pc \in {"down", "idle"} /\ k2.job = "pass"
           /\ \A t \in Tasks : k2.seen[t].st = "none"
           /\ \A m \in Missions : ~Keeps(k2, m) /\ ~Has(k2, m)
<1>1. New \in Records /\ NoEntry \in Entries
  BY NewIs
<1>2. Off \in Processes /\ Off.pc = "down" /\ Off.job = "pass" /\ \A t \in Tasks : Off.seen[t] = NoEntry
  <2>1. 0 \in 0 .. N
    BY Constants
  <2> QED BY <1>1, <2>1 DEF Off, Processes, Steps, Resting
<1>3. Idle \in Processes /\ Idle.pc = "idle" /\ Idle.job = "pass" /\ Idle.seen = Off.seen
  BY <1>2 DEF Idle, Processes, Steps, Resting
<1> QED BY <1>2, <1>3 DEF NoEntry, Keeps, Has, Working

LEMMA ReadIs ==
    ASSUME Types
    PROVE  /\ Read \in Processes /\ Read.pc = "idle" /\ Read.job = "pass" /\ Read.mem = rec /\ Read.seen = board
           /\ Read.cur = 0 /\ Read.busy = FALSE
<1>1. Idle \in Processes /\ Idle.pc = "idle" /\ Idle.job = "pass"
  BY AtRest DEF Idle, Off
<1>2. Idle.cur = 0 /\ Idle.busy = FALSE
  BY DEF Idle, Off
<1>3. Read = [[Idle EXCEPT !.mem = rec] EXCEPT !.seen = board]
  BY <1>1 DEF Read, Processes
<1> HIDE DEF Idle
<1> QED BY <1>1, <1>2, <1>3 DEF Types, TypeOK, Processes

\* The first of some positions of a history.
LEMMA FirstOf ==
    ASSUME NEW S, S \subseteq Nat, S # {}, NEW i, i = CHOOSE e \in S : \A j \in S : e <= j
    PROVE  i \in S
<1>1. PICK e \in S : \A f \in S : ~(<<f, e>> \in OpToRel(<, Nat))
  BY NatLessThanWellFounded, WFMin
<1>2. \A f \in S : e <= f
  <2>1. ASSUME NEW f \in S PROVE e <= f
    <3>1. f \in Nat /\ e \in Nat /\ <<f, e>> \in Nat \X Nat /\ <<f, e>>[1] = f /\ <<f, e>>[2] = e
      OBVIOUS
    <3>2. ~(f < e)
      BY <1>1, <3>1 DEF OpToRel
    <3> QED BY <3>1, <3>2
  <2> QED BY <2>1
<1> QED BY <1>1, <1>2

-----------------------------------------------------------------------------
(* A step of any kind: the copies after it are those before it and perhaps  *)
(* one more, z, of mission m.                                               *)

Makes(m, z) ==
    \A n \in Missions : \A x \in Records : Held(n, x, rec', c') => Copy(n, x) \/ (n = m /\ x = z)
Stay ==
    \A n \in Missions : \A x \in Records : Copy(n, x) => Sound(n, x, hist', board', OnBranch', spent')

LEMMA SoundStep ==
    ASSUME NEW m \in Missions, NEW z \in Records, Makes(m, z), Stay, Sound(m, z, hist', board', OnBranch', spent')
    PROVE  AllSound'
BY DEF Makes, Stay, AllSound, Copy

\* Where nothing but the history, the commands and the soils went on.
LEMMA CalmStays ==
    ASSUME ConductorInv, Grows(hist, hist'), board' = board, git'.branch = git.branch,
           spent'.ops = spent.ops \/ spent'.ops = spent.ops + 1, spent'.soils = 0 => spent.soils = 0
    PROVE  Stay
<1>1. ASSUME NEW n \in Missions, NEW x \in Records, Copy(n, x)
      PROVE  Sound(n, x, hist', board', OnBranch', spent')
  <2>1. Sound(n, x, hist, board, OnBranch, spent) /\ spent.ops \in Nat
    BY <1>1 DEF ConductorInv, AllSound, Types
  <2>2. OnBranch' = OnBranch
    BY DEF OnBranch
  <2> QED BY <2>1, <2>2, GrownSound
<1> QED BY <1>1 DEF Stay

\* What z is to the copy w it was made from, for the merges.
Follows(w, z) ==
    /\ z.st = "integrating" => w.st = "integrating" /\ z.preHead = w.preHead
    /\ z.st = "integrated" /\ ~z.skipped =>
           z.commit = w.commit /\ (w.st = "integrating" \/ (w.st = "integrated" /\ ~w.skipped))

LEMMA MergeFollows ==
    ASSUME OneMerge, NEW m \in Missions, NEW z \in Records, Makes(m, z), NEW w \in Records, Copy(m, w), Follows(w, z)
    PROVE  OneMerge'
<1>1. ASSUME NEW n1 \in Missions, NEW n2 \in Missions, NEW x \in Records, NEW y \in Records,
             Copy(n1, x) \/ (n1 = m /\ x = z), Copy(n2, y) \/ (n2 = m /\ y = z), x.st = "integrating"
      PROVE  /\ y.st = "integrating" => n1 = n2 /\ x.preHead = y.preHead
             /\ y.st = "integrated" /\ ~y.skipped /\ n1 # n2 => <<n2, y.commit>> \in ToSet(x.preHead)
  <2>1. PICK x1 \in Records : Copy(n1, x1) /\ x1.st = "integrating" /\ x1.preHead = x.preHead
    BY <1>1 DEF Follows
  <2>2. CASE Copy(n2, y)
    BY <2>1, <2>2 DEF OneMerge
  <2>3. CASE n2 = m /\ y = z
    <3>1. /\ w.st = "integrating" => n1 = m /\ x1.preHead = w.preHead
          /\ w.st = "integrated" /\ ~w.skipped /\ n1 # m => <<m, w.commit>> \in ToSet(x1.preHead)
      BY <2>1 DEF OneMerge
    <3> QED BY <2>1, <2>3, <3>1 DEF Follows
  <2> QED BY <1>1, <2>2, <2>3
<1> QED BY <1>1 DEF Makes, OneMerge, Copy

LEMMA MergeBegins ==
    ASSUME ConductorInv, NEW m \in Missions, NEW z \in Records, Makes(m, z),
           z.st = "integrating", ToSet(z.preHead) = OnBranch,
           \A n \in Missions : \A x \in Records : Copy(n, x) => x.st # "integrating"
    PROVE  OneMerge'
<1>1. ASSUME NEW n \in Missions, NEW y \in Records, Copy(n, y), y.st = "integrated", ~y.skipped
      PROVE  <<n, y.commit>> \in ToSet(z.preHead)
  BY <1>1 DEF ConductorInv, AllSound, Sound, Lands
<1>2. ASSUME NEW n1 \in Missions, NEW n2 \in Missions, NEW x \in Records, NEW y \in Records,
             Copy(n1, x) \/ (n1 = m /\ x = z), Copy(n2, y) \/ (n2 = m /\ y = z), x.st = "integrating"
      PROVE  /\ y.st = "integrating" => n1 = n2 /\ x.preHead = y.preHead
             /\ y.st = "integrated" /\ ~y.skipped /\ n1 # n2 => <<n2, y.commit>> \in ToSet(x.preHead)
  BY <1>1, <1>2
<1> QED BY <1>2 DEF Makes, OneMerge, Copy

\* Where every copy is an old one.
LEMMA MergeStays ==
    ASSUME OneMerge, \A n \in Missions : \A x \in Records : Held(n, x, rec', c') => Copy(n, x)
    PROVE  OneMerge'
BY DEF OneMerge, Copy

LEMMA SignalsAre ==
    ASSUME Types', AllSound', WorldFits', \A m \in Missions : hist'.noted[m] <= 1
    PROVE  SignalsHonest'
<1>1. ASSUME NEW m \in Missions, rec'[m].st = "blocked", rec'[m].escalated PROVE <<m, rec'[m].attempt>> \in hist'.warned
  <2>1. rec'[m] \in Records /\ Held(m, rec'[m], rec', c')
    BY DEF Types, TypeOK, Held
  <2>2. Tells(m, rec'[m], hist')
    BY <2>1 DEF AllSound, Copy, Sound
  <2> QED BY <1>1, <2>2 DEF Tells
<1>2. hist'.completed <= 1
  BY DEF WorldFits
<1> QED BY <1>1, <1>2 DEF SignalsHonest

-----------------------------------------------------------------------------
(* A step within the turn of a mission, that leaves z in hand.              *)

Turns(pc2, z) ==
    /\ c.pc \in Working /\ pc2 \in Working /\ z \in Records
    /\ c' \in Processes /\ c'.pc = pc2 /\ c'.r = z
    /\ c'.cur = c.cur /\ c'.job = c.job /\ c'.mem = c.mem /\ c'.todo = c.todo
    /\ rec' = rec \/ rec' = [rec EXCEPT ![c.cur] = z]

LEMMA InHand ==
    ASSUME ConductorInv, c.pc \in Working
    PROVE  /\ c.cur \in Missions /\ r \in Records /\ Copy(c.cur, r) /\ c \in Processes
           /\ Sound(c.cur, r, hist, board, OnBranch, spent)
<1>1. c.cur \in Missions /\ r \in Records /\ c \in Processes
  BY DEF ConductorInv, AtCall, Types, TypeOK, r
<1>2. Copy(c.cur, r)
  BY DEF Copy, Held, Has, r
<1> QED BY <1>1, <1>2 DEF ConductorInv, AllSound

LEMMA TurnMakes ==
    ASSUME ConductorInv, NEW pc2, NEW z, Turns(pc2, z)
    PROVE  Makes(c.cur, z) /\ \A n \in Missions : n # c.cur => rec'[n] = rec[n]
<1>1. rec \in [Missions -> Records] /\ c.cur \in Missions
  BY InHand DEF ConductorInv, Types, TypeOK, Turns
<1>2. \A n \in Missions : (n # c.cur => rec'[n] = rec[n]) /\ (rec'[n] = rec[n] \/ (n = c.cur /\ rec'[n] = z))
  BY <1>1 DEF Turns
<1>3. \A n \in Missions : (Keeps(c', n) <=> Keeps(c, n)) /\ (Has(c', n) => n = c.cur)
  BY DEF Turns, Keeps, Has
<1> QED BY <1>2, <1>3 DEF Makes, Held, Copy, Turns

LEMMA TurnAgrees ==
    ASSUME ConductorInv, NEW pc2, NEW z, Turns(pc2, z),
           c.job \in {"startup", "repair"} => Behind(c.mem[c.cur], z),
           pc2 \in {"turn", "publish", "check", "merge", "unmerge", "suite", "tell"} =>
               \/ z = rec'[c.cur]
               \/ c.job = "pass" /\ pc2 \in {"turn", "tell"} /\ Behind(z, rec'[c.cur])
    PROVE  Agree'
<1>1. rec \in [Missions -> Records] /\ c.cur \in Missions /\ c.cur \in Nat
  BY InHand, Constants DEF ConductorInv, Types, TypeOK, Turns
<1>2. ASSUME NEW n \in Missions, Keeps(c', n)
      PROVE  \/ c'.mem[n] = rec'[n]
             \/ Behind(c'.mem[n], rec'[n]) /\ (c'.job = "pass" \/ (c'.job \in {"startup", "repair"} /\ Has(c', n)))
  <2>1. Keeps(c, n) /\ (Has(c', n) <=> n = c.cur) /\ (Has(c, n) <=> n = c.cur)
    BY <1>2 DEF Turns, Keeps, Has
  <2>2. \/ c.mem[n] = rec[n]
        \/ Behind(c.mem[n], rec[n]) /\ (c.job = "pass" \/ (c.job \in {"startup", "repair"} /\ Has(c, n)))
    BY <2>1 DEF ConductorInv, Agree
  <2>3. CASE rec'[n] = rec[n]
    BY <2>1, <2>2, <2>3 DEF Turns
  <2>4. CASE rec'[n] # rec[n]
    <3>1. n = c.cur /\ rec'[n] = z
      BY <1>1, <2>4 DEF Turns
    <3>2. c.job \in {"startup", "repair"}
      BY <1>1, <2>1, <3>1 DEF Keeps, Turns, ConductorInv, AtCall
    <3> QED BY <2>1, <3>1, <3>2 DEF Turns
  <2> QED BY <2>3, <2>4
<1> QED BY <1>2 DEF Agree, Turns

LEMMA TurnReads ==
    ASSUME ConductorInv, NEW pc2, NEW z, Turns(pc2, z), c'.seen = c.seen, board' = board,
           c.job = "pass" /\ pc2 \notin {"failed", "late"} => Reads(c.cur, z, c.seen, board)
    PROVE  AllRead'
<1>1. ASSUME NEW n \in Missions, Keeps(c', n), ~Has(c', n), c'.job # "abort" PROVE Reads(n, c'.mem[n], c'.seen, board')
  <2>1. Keeps(c, n) /\ ~Has(c, n) /\ c.job # "abort"
    BY <1>1 DEF Turns, Keeps, Has
  <2>2. Reads(n, c.mem[n], c.seen, board)
    BY <2>1 DEF ConductorInv, AllRead
  <2> QED BY <2>2 DEF Turns
<1>2. c'.job = "pass" /\ c'.pc \in Working \ {"failed", "late"} => Reads(c'.cur, c'.r, c'.seen, board')
  BY DEF Turns
<1> QED BY <1>1, <1>2 DEF AllRead, ConductorInv

\* What is left alone by a call that does not touch the board or the branch.
Quiet(pc2, z) ==
    /\ Turns(pc2, z) /\ pc2 \notin Merging \cup {"tell", "late"}
    /\ c'.seen = c.seen /\ c'.busy = c.busy
    /\ hist' \in Histories /\ Grows(hist, hist') /\ hist'.completed = hist.completed
    /\ \A m \in Missions : hist'.noted[m] <= 1
    /\ gates' \in SUBSET Tasks /\ faults' \in Nat
    /\ UNCHANGED <<chg, board, git, ledger, overdue, spent>>

\* What the record it leaves in hand has to be.
Fits(pc2, z) ==
    /\ Follows(r, z)
    /\ c.job \in {"startup", "repair"} => Behind(c.mem[c.cur], z)
    /\ pc2 \in {"turn", "publish", "check"} =>
           z = rec'[c.cur] \/ (c.job = "pass" /\ pc2 = "turn" /\ Behind(z, rec'[c.cur]))
    /\ pc2 = "publish" => z.st \in {"requested", "accepted"} /\ c.job \in {"pass", "op"}
    /\ pc2 = "check" => z.st = "checking" /\ c.job = "pass"
    /\ pc2 = "uncheck" => z.st = "delivered"
    /\ c.job = "pass" /\ pc2 \notin {"failed", "late"} => Reads(c.cur, z, c.seen, board)

LEMMA QuietTurn ==
    ASSUME ConductorInv, NEW pc2, NEW z, Quiet(pc2, z), Fits(pc2, z), Sound(c.cur, z, hist', board, OnBranch, spent)
    PROVE  ConductorInv'
<1>1. Turns(pc2, z) /\ c.pc \in Working /\ pc2 \in Working /\ z \in Records
  BY DEF Quiet, Turns
<1>2. c.cur \in Missions /\ r \in Records /\ Copy(c.cur, r)
  BY <1>1, InHand
<1>3. Makes(c.cur, z)
  BY <1>1, TurnMakes
<1>4. OnBranch' = OnBranch /\ board' = board /\ spent' = spent /\ git' = git /\ chg' = chg
  BY DEF Quiet, OnBranch
<1>5. Types'
  <2>1. rec' \in [Missions -> Records]
    BY <1>1, <1>2 DEF Turns, ConductorInv, Types, TypeOK
  <2>2. c' \in Processes
    BY <1>1 DEF Turns
  <2>3. c'.r \in Records /\ c'.mem \in [Missions -> Records] /\ c'.seen \in [Tasks -> Entries]
        /\ c'.cur \in 0 .. N /\ c'.todo \in SUBSET Missions
    BY <2>2, ProcessTypes
  <2> QED BY <2>1, <2>2, <2>3 DEF Quiet, ConductorInv, Types, TypeOK
<1>6. AllSound'
  <2>1. Stay
    BY <1>4, CalmStays DEF Quiet
  <2> QED BY <1>1, <1>2, <1>3, <1>4, <2>1, SoundStep
<1>7. OneMerge'
  BY <1>1, <1>2, <1>3, MergeFollows DEF ConductorInv, Fits
<1>8. Agree'
  BY <1>1, TurnAgrees DEF Fits, Quiet, Merging
<1>9. AtCall'
  BY <1>1 DEF ConductorInv, AtCall, Quiet, Turns, Fits, Working
<1>10. AtMerge'
  <2>1. c'.pc \notin Merging
    BY DEF Quiet, Turns
  <2>2. ASSUME c'.job = "pass", chg'.st = "active", ~c'.busy, NEW n \in Missions, NEW x \in Records, Held(n, x, rec', c')
        PROVE  x.st # "integrating"
    <3>1. \A n1 \in Missions : \A y \in Records : Copy(n1, y) => y.st # "integrating"
      BY <1>1, <1>4, <2>2 DEF ConductorInv, AtMerge, Quiet, Turns
    <3>2. Copy(n, x) \/ x = z
      BY <1>3, <2>2 DEF Makes
    <3> QED BY <1>2, <2>2, <3>1, <3>2 DEF Fits, Follows
  <2> QED BY <2>1, <2>2 DEF AtMerge, Merging, Copy
<1>11. AllRead'
  BY <1>1, <1>4, TurnReads DEF Quiet, Fits
<1>12. WorldFits'
  BY <1>4 DEF ConductorInv, WorldFits, Quiet, Grows
<1>13. MergedWasReviewed'
  BY <1>4 DEF ConductorInv, MergedWasReviewed, Quiet, Grows
<1>14. SignalsHonest'
  BY <1>5, <1>6, <1>12, SignalsAre DEF Quiet
<1> QED BY <1>5, <1>6, <1>7, <1>8, <1>9, <1>10, <1>11, <1>12, <1>13, <1>14 DEF ConductorInv

\* The history that nothing changed.
LEMMA SameHistory ==
    ASSUME ConductorInv, UNCHANGED hist
    PROVE  hist' \in Histories /\ Grows(hist, hist') /\ hist'.completed = hist.completed /\ \A m \in Missions : hist'.noted[m] <= 1
BY DEF ConductorInv, Types, Grows, SignalsHonest

\* At a call, failed or done, that leaves rec alone or writes z.
LEMMA QuietCall ==
    ASSUME ConductorInv, c.pc \in Working, NEW z \in Records, NEW pc2 \in Working \ (Merging \cup {"tell", "late"}),
           c' = At(c, pc2, z) \/ (pc2 = "failed" /\ c' = Failed(c, z)),
           rec' = rec \/ rec' = [rec EXCEPT ![c.cur] = z],
           hist' \in Histories, Grows(hist, hist'), hist'.completed = hist.completed, \A m \in Missions : hist'.noted[m] <= 1,
           gates' \in SUBSET Tasks, faults' \in Nat, UNCHANGED <<chg, board, git, ledger, overdue, spent>>
    PROVE  Quiet(pc2, z)
<1>1. c \in Processes /\ pc2 \in Steps
  BY InHand DEF Steps
<1>2. c' \in Processes /\ c'.pc = pc2 /\ c'.r = z /\ c'.cur = c.cur /\ c'.job = c.job /\ c'.mem = c.mem
      /\ c'.todo = c.todo /\ c'.seen = c.seen /\ c'.busy = c.busy
  BY <1>1, AtIs, FailedIs
<1> QED BY <1>2 DEF Quiet, Turns

\* A record like the one in hand.
LEMMA LikeFits ==
    ASSUME ConductorInv, NEW z, NEW h, NEW b, c.pc \in Working, Like(c.cur, r, z, h, b), NEW pc2 \in {"turn", "flag", "failed"},
           c.job = "pass" /\ pc2 # "failed" => Reads(c.cur, r, c.seen, board),
           pc2 = "turn" => z = rec'[c.cur] \/ (c.job = "pass" /\ Behind(z, rec'[c.cur]))
    PROVE  Fits(pc2, z)
<1>1. Follows(r, z)
  BY DEF Like, Follows
<1>2. c.job \in {"startup", "repair"} => Behind(c.mem[c.cur], z)
  BY DEF ConductorInv, Agree, Like, Behind, r
<1>3. c.job = "pass" /\ pc2 # "failed" => Reads(c.cur, z, c.seen, board)
  BY DEF Like, Reads
<1> QED BY <1>1, <1>2, <1>3 DEF Fits

-----------------------------------------------------------------------------
(* The effects a record owes.                                               *)

LEMMA QuietLike ==
    ASSUME ConductorInv, NEW z, NEW pc2 \in {"turn", "flag", "failed"}, Quiet(pc2, z), Like(c.cur, r, z, hist', board),
           c.job = "pass" /\ pc2 # "failed" => Reads(c.cur, r, c.seen, board),
           pc2 = "turn" => z = rec'[c.cur] \/ (c.job = "pass" /\ Behind(z, rec'[c.cur]))
    PROVE  ConductorInv'
<1>1. c.pc \in Working
  BY DEF Quiet, Turns
<1>2. Sound(c.cur, r, hist', board, OnBranch, spent) /\ r \in Records
  <2>1. Sound(c.cur, r, hist, board, OnBranch, spent) /\ r \in Records
    BY <1>1, InHand
  <2>2. Grows(hist, hist') /\ spent.ops \in Nat
    BY DEF Quiet, ConductorInv, Types
  <2> QED BY <2>1, <2>2, GrownSound
<1>3. Sound(c.cur, z, hist', board, OnBranch, spent)
  BY <1>2, LikeSound
<1>4. Fits(pc2, z)
  BY <1>1, LikeFits
<1> QED BY <1>3, <1>4, QuietTurn

LEMMA LikeItself ==
    ASSUME ConductorInv, c.pc \in Working, NEW h, Grows(hist, h), NEW b
    PROVE  Like(c.cur, r, r, h, b)
<1>1. Tells(c.cur, r, hist) /\ r \in Records
  BY InHand DEF Sound
<1> QED BY <1>1 DEF Tells, Like, Grows

LEMMA LikeButFlags ==
    ASSUME ConductorInv, c.pc \in Working, NEW h, Grows(hist, h), NEW b, NEW z \in Records,
           z.st = r.st, z.attempt = r.attempt, z.rejections = r.rejections, z.commit = r.commit, z.subject = r.subject,
           z.skipped = r.skipped, z.preHead = r.preHead, z.tested = r.tested, z.history = r.history,
           z.escalated => r.escalated \/ <<c.cur, r.attempt>> \in h.warned
    PROVE  Like(c.cur, r, z, h, b)
<1>1. Tells(c.cur, r, hist) /\ r \in Records
  BY InHand DEF Sound
<1> QED BY <1>1 DEF Tells, Like, Grows

\* At a turn, the record in hand is the one on the bus, or a stale one.
LEMMA AtTurn ==
    ASSUME ConductorInv, c.pc \in {"turn", "tell"}
    PROVE  /\ r = rec[c.cur] \/ (c.job = "pass" /\ Behind(r, rec[c.cur]))
           /\ c.job = "pass" => Reads(c.cur, r, c.seen, board)
BY DEF ConductorInv, Agree, AllRead, Working, r

LEMMA ClosedIs ==
    ASSUME ConductorInv, c.pc \in Working, NEW i \in DOMAIN r.history, NEW h, Grows(hist, h), NEW b,
           <<c.cur, r.history[i].n>> \in h.told \/ b[<<c.cur, r.history[i].n>>].st = "none"
    PROVE  Closed(i) \in Records /\ Like(c.cur, r, Closed(i), h, b)
<1>1. r \in Records /\ Tells(c.cur, r, hist)
  BY InHand DEF Sound
<1>2. r.history \in Seq(HistoryEntries) /\ r.history[i] \in HistoryEntries
  BY <1>1, RecordTypes
<1> DEFINE e == [r.history[i] EXCEPT !.closed = TRUE]
           s == [r.history EXCEPT ![i] = e]
<1>3. e \in HistoryEntries /\ e.n = r.history[i].n /\ e.closed = TRUE
  BY <1>2 DEF HistoryEntries
<1>4. s \in Seq(HistoryEntries) /\ DOMAIN s = DOMAIN r.history /\ s[i] = e
      /\ \A j \in DOMAIN r.history : j # i => s[j] = r.history[j]
  <2> HIDE DEF e
  <2> QED BY <1>2, <1>3
<1>5. Closed(i) = [r EXCEPT !.history = s]
  BY <1>1 DEF Closed, Records
<1> HIDE DEF s
<1>6. /\ Closed(i) \in Records /\ Closed(i).history = s
      /\ Closed(i).st = r.st /\ Closed(i).attempt = r.attempt /\ Closed(i).rejections = r.rejections
      /\ Closed(i).commit = r.commit /\ Closed(i).subject = r.subject /\ Closed(i).skipped = r.skipped
      /\ Closed(i).preHead = r.preHead /\ Closed(i).tested = r.tested /\ Closed(i).escalated = r.escalated
  BY <1>1, <1>4, <1>5 DEF Records, HistoryEntries
<1> HIDE DEF e
<1>7. \A j \in DOMAIN r.history : r.history[j].closed => s[j].closed
  BY <1>3, <1>4
<1> QED BY <1>1, <1>3, <1>4, <1>6, <1>7 DEF Like, Tells, Grows

LEMMA OldestOwed ==
    ASSUME ConductorInv, c.pc \in Working, Owed # {}
    PROVE  Oldest \in DOMAIN r.history /\ ~r.history[Oldest].closed /\ r.history[Oldest].n \in Attempts
<1>1. r \in Records /\ r.history \in Seq(HistoryEntries)
  BY InHand, RecordTypes
<1>2. Owed \subseteq Nat
  BY <1>1 DEF Owed
<1>3. Oldest \in Owed
  BY <1>2, FirstOf DEF Oldest
<1> QED BY <1>1, <1>3, RecordTypes DEF Owed

LEMMA EffectStep ==
    ASSUME ConductorInv, c.pc \in {"turn", "tell"}, NEW z \in Records,
           \/ c' = At(c, "flag", z) /\ Like(c.cur, r, z, hist', board)
           \/ c' = Failed(c, r),
           hist' \in Histories, Grows(hist, hist'), hist'.completed = hist.completed, \A m \in Missions : hist'.noted[m] <= 1,
           gates' \in SUBSET Tasks, faults' = faults \/ faults' = faults + 1,
           UNCHANGED <<rec, chg, board, git, ledger, overdue, spent>>
    PROVE  ConductorInv'
<1>1. c.pc \in Working /\ r \in Records /\ faults' \in Nat
  BY InHand DEF Working, ConductorInv, Types
<1>2. CASE c' = At(c, "flag", z) /\ Like(c.cur, r, z, hist', board)
  <2>1. Quiet("flag", z)
    BY <1>1, <1>2, QuietCall DEF Working, Merging
  <2> QED BY <1>1, <1>2, <2>1, AtTurn, QuietLike
<1>3. CASE c' = Failed(c, r)
  <2>1. Quiet("failed", r)
    BY <1>1, <1>3, QuietCall DEF Working, Merging
  <2> QED BY <1>1, <2>1, LikeItself, QuietLike
<1> QED BY <1>2, <1>3

LEMMA WriteStep ==
    ASSUME ConductorInv, c.pc \in {"turn", "flag"}, NEW z \in Records, Like(c.cur, r, z, hist, board),
           Put(c.cur, z, At(c, "turn", z), Failed(c, z)), UNCHANGED <<chg, board, gates, git, world, hist>>
    PROVE  ConductorInv'
<1>1. c.pc \in Working /\ r \in Records /\ c.cur \in Missions /\ rec \in [Missions -> Records]
      /\ gates' \in SUBSET Tasks /\ faults' \in Nat
  BY InHand DEF Working, ConductorInv, Types, TypeOK, Put, Fault
<1>2. hist' \in Histories /\ Grows(hist, hist') /\ hist'.completed = hist.completed /\ \A m \in Missions : hist'.noted[m] <= 1
      /\ UNCHANGED <<ledger, overdue, spent>> /\ hist' = hist
  BY SameHistory DEF world
<1>3. CASE rec' = [rec EXCEPT ![c.cur] = z] /\ c' = At(c, "turn", z)
  <2>1. Quiet("turn", z)
    BY <1>1, <1>2, <1>3, QuietCall DEF Working, Merging
  <2>2. c.job = "pass" => Reads(c.cur, r, c.seen, board)
    BY DEF ConductorInv, AllRead, Working, r
  <2> QED BY <1>1, <1>2, <1>3, <2>1, <2>2, QuietLike
<1>4. CASE rec' \in {rec, [rec EXCEPT ![c.cur] = z]} /\ c' = Failed(c, z)
  <2>1. Quiet("failed", z)
    BY <1>1, <1>2, <1>4, QuietCall DEF Working, Merging
  <2> QED BY <1>1, <1>2, <2>1, QuietLike
<1> QED BY <1>3, <1>4 DEF Put

\* What the history of a step says of the world.
LEMMA ToldIs ==
    ASSUME ConductorInv, NEW m \in Missions, NEW n \in Attempts,
           hist' = [hist EXCEPT !.told = @ \cup {<<m, n>>}] \/ hist' = hist
    PROVE  /\ hist' \in Histories /\ Grows(hist, hist') /\ hist'.completed = hist.completed
           /\ \A i \in Missions : hist'.noted[i] <= 1
<1>1. <<m, n>> \in Tasks /\ hist \in Histories
  BY DEF Tasks, ConductorInv, Types
<1>2. hist' = [hist EXCEPT !.told = hist.told \cup {<<m, n>>}] \/ hist' = hist
  BY <1>1 DEF Histories
<1>3. hist' \in Histories /\ hist'.noted = hist.noted /\ Grows(hist, hist') /\ hist'.completed = hist.completed
  BY <1>1, <1>2 DEF Histories, Grows
<1> QED BY <1>3 DEF ConductorInv, SignalsHonest

LEMMA TellAgentInv == ASSUME ConductorInv, TellAgent PROVE ConductorInv'
<1>1. c.pc = "tell" /\ c.pc \in Working /\ c.cur \in Missions /\ gates' \in SUBSET Tasks /\ Owed # {}
  BY InHand DEF TellAgent, Working, ConductorInv, AtCall, Types, TypeOK, redis
<1>2. Oldest \in DOMAIN r.history /\ r.history[Oldest].n \in Attempts
  BY <1>1, OldestOwed
<1> DEFINE n == r.history[Oldest].n
           told == [hist EXCEPT !.told = @ \cup {<<c.cur, n>>}]
<1>3. hist' = told \/ hist' = hist
  BY DEF TellAgent, Call
<1>4. hist' \in Histories /\ Grows(hist, hist') /\ hist'.completed = hist.completed /\ \A i \in Missions : hist'.noted[i] <= 1
  <2> HIDE DEF n
  <2> QED BY <1>1, <1>2, <1>3, ToldIs DEF n
<1>5. \/ c' = At(c, "flag", Closed(Oldest)) /\ hist' = told
      \/ c' = Failed(c, r)
  BY DEF TellAgent, Call
<1>6. UNCHANGED <<rec, chg, board, git, ledger, overdue, spent>> /\ (faults' = faults \/ faults' = faults + 1)
  BY DEF TellAgent, Call, Fault, redis, world
<1>7. CASE c' = At(c, "flag", Closed(Oldest)) /\ hist' = told
  <2>1. <<c.cur, n>> \in hist'.told
    BY <1>7 DEF ConductorInv, Types, Histories
  <2>2. Closed(Oldest) \in Records /\ Like(c.cur, r, Closed(Oldest), hist', board)
    BY <1>1, <1>2, <1>4, <2>1, ClosedIs
  <2> HIDE DEF told
  <2> QED BY <1>1, <1>4, <1>6, <1>7, <2>2, EffectStep
<1>8. CASE c' = Failed(c, r)
  <2>1. r \in Records
    BY <1>1, InHand
  <2> QED BY <1>1, <1>4, <1>6, <1>8, <2>1, EffectStep
<1> QED BY <1>5, <1>7, <1>8

LEMMA CloseReviewInv == ASSUME ConductorInv, CloseReview PROVE ConductorInv'
<1> DEFINE z == [r EXCEPT !.reviewOpen = FALSE]
<1>1. c.pc = "turn" /\ c.pc \in Working /\ r \in Records /\ gates' \in SUBSET Tasks
  BY InHand DEF CloseReview, Working, ConductorInv, Types, TypeOK, Call
<1>2. z \in Records /\ Like(c.cur, r, z, hist, board)
  <2>1. /\ z \in Records /\ z.st = r.st /\ z.attempt = r.attempt /\ z.rejections = r.rejections /\ z.commit = r.commit
        /\ z.subject = r.subject /\ z.skipped = r.skipped /\ z.preHead = r.preHead /\ z.tested = r.tested
        /\ z.history = r.history /\ z.escalated = r.escalated
    BY <1>1 DEF Records
  <2> HIDE DEF z
  <2> QED BY <1>1, <2>1, LikeButFlags, SameHistory DEF Grows
<1>3. c' = At(c, "flag", z) \/ c' = Failed(c, r)
  BY DEF CloseReview, Call
<1>4. UNCHANGED <<rec, chg, board, git, ledger, overdue, spent, hist>> /\ (faults' = faults \/ faults' = faults + 1)
  BY DEF CloseReview, Call, Fault, world
<1> HIDE DEF z
<1>5. hist' \in Histories /\ Grows(hist, hist') /\ hist'.completed = hist.completed /\ \A m \in Missions : hist'.noted[m] <= 1
  BY <1>4, SameHistory
<1> QED BY <1>1, <1>2, <1>3, <1>4, <1>5, EffectStep

LEMMA OpenReviewInv == ASSUME ConductorInv, OpenReview PROVE ConductorInv'
<1> DEFINE z == [r EXCEPT !.reviewOpen = TRUE]
           asked == [hist EXCEPT !.asked = IF <<c.cur, r.ref>> \in gates THEN @ ELSE @ \cup {<<c.cur, r.subject>>}]
<1>1. c.pc = "turn" /\ c.pc \in Working /\ r \in Records /\ c.cur \in Missions
  BY InHand DEF OpenReview, Working
<1>2. <<c.cur, r.ref>> \in Tasks /\ <<c.cur, r.subject>> \in Deliveries
  <2>1. r.st = "in_review" /\ r.ref # 0
    BY DEF OpenReview, MustOpen
  <2>2. r.subject # 0
    <3>1. Tells(c.cur, r, hist)
      BY <1>1, InHand DEF Sound
    <3> QED BY <2>1, <3>1 DEF Tells, Worked
  <2> QED BY <1>1, <2>1, <2>2 DEF Records, Tasks, Deliveries
<1>3. /\ gates' \in SUBSET Tasks /\ (hist' = asked \/ hist' = hist)
      /\ c' = At(c, "flag", z) \/ c' = Failed(c, r)
      /\ faults' = faults \/ faults' = faults + 1
      /\ UNCHANGED <<rec, chg, board, git, ledger, overdue, spent>>
  BY <1>2 DEF OpenReview, Call, Fault, world, ConductorInv, Types, TypeOK
<1>4. hist' \in Histories /\ Grows(hist, hist') /\ hist'.completed = hist.completed /\ \A m \in Missions : hist'.noted[m] <= 1
  <2>1. hist \in Histories /\ \A m \in Missions : hist.noted[m] <= 1
    BY DEF ConductorInv, Types, SignalsHonest
  <2> DEFINE a == IF <<c.cur, r.ref>> \in gates THEN hist.asked ELSE hist.asked \cup {<<c.cur, r.subject>>}
  <2>2. asked = [hist EXCEPT !.asked = a] /\ a \in SUBSET Deliveries
    BY <1>2, <2>1 DEF Histories
  <2> HIDE DEF a, asked
  <2>3. asked \in Histories /\ Grows(hist, asked) /\ asked.completed = hist.completed /\ asked.noted = hist.noted
    BY <2>1, <2>2 DEF Histories, Grows
  <2> QED BY <1>3, <2>1, <2>3, SameHistory
<1>5. z \in Records /\ Like(c.cur, r, z, hist', board)
  <2>1. /\ z \in Records /\ z.st = r.st /\ z.attempt = r.attempt /\ z.rejections = r.rejections /\ z.commit = r.commit
        /\ z.subject = r.subject /\ z.skipped = r.skipped /\ z.preHead = r.preHead /\ z.tested = r.tested
        /\ z.history = r.history /\ z.escalated = r.escalated
    BY <1>1 DEF Records
  <2> HIDE DEF z, asked
  <2> QED BY <1>1, <1>4, <2>1, LikeButFlags
<1> HIDE DEF z, asked
<1> QED BY <1>1, <1>3, <1>4, <1>5, EffectStep

LEMMA NoteSkipInv == ASSUME ConductorInv, NoteSkip PROVE ConductorInv'
<1> DEFINE z == [r EXCEPT !.skipBy = FALSE]
           noted == [hist EXCEPT !.noted[c.cur] = IF @ = 0 THEN 1 ELSE @]
<1>1. c.pc = "turn" /\ c.pc \in Working /\ r \in Records /\ c.cur \in Missions /\ gates' \in SUBSET Tasks
  BY InHand DEF NoteSkip, Working, redis, ConductorInv, Types, TypeOK
<1>2. /\ hist' = noted \/ hist' = hist
      /\ c' = At(c, "flag", z) \/ c' = Failed(c, r)
      /\ faults' = faults \/ faults' = faults + 1
      /\ UNCHANGED <<rec, chg, board, git, ledger, overdue, spent>>
  BY DEF NoteSkip, Call, Fault, world, redis
<1>3. hist' \in Histories /\ Grows(hist, hist') /\ hist'.completed = hist.completed /\ \A m \in Missions : hist'.noted[m] <= 1
  <2>1. hist \in Histories /\ hist.noted \in [Missions -> Nat] /\ \A m \in Missions : hist.noted[m] <= 1
    BY DEF ConductorInv, Types, SignalsHonest, Histories
  <2> DEFINE e == IF hist.noted[c.cur] = 0 THEN 1 ELSE hist.noted[c.cur]
             f == [hist.noted EXCEPT ![c.cur] = e]
  <2>2. f \in [Missions -> Nat] /\ \A m \in Missions : f[m] <= 1
    BY <1>1, <2>1
  <2>3. noted = [hist EXCEPT !.noted = f]
    BY <2>1 DEF Histories
  <2> HIDE DEF f, noted
  <2>4. noted \in Histories /\ Grows(hist, noted) /\ noted.completed = hist.completed /\ noted.noted = f
    BY <2>1, <2>2, <2>3 DEF Histories, Grows
  <2> QED BY <1>2, <2>1, <2>2, <2>4, SameHistory
<1>4. z \in Records /\ Like(c.cur, r, z, hist', board)
  <2>1. /\ z \in Records /\ z.st = r.st /\ z.attempt = r.attempt /\ z.rejections = r.rejections /\ z.commit = r.commit
        /\ z.subject = r.subject /\ z.skipped = r.skipped /\ z.preHead = r.preHead /\ z.tested = r.tested
        /\ z.history = r.history /\ z.escalated = r.escalated
    BY <1>1 DEF Records
  <2> HIDE DEF z, noted
  <2> QED BY <1>1, <1>3, <2>1, LikeButFlags
<1> HIDE DEF z, noted
<1> QED BY <1>1, <1>2, <1>3, <1>4, EffectStep

LEMMA EscalateInv == ASSUME ConductorInv, Escalate PROVE ConductorInv'
<1> DEFINE z == [r EXCEPT !.escalated = TRUE]
           warned == [hist EXCEPT !.warned = @ \cup {<<c.cur, r.attempt>>}]
<1>1. c.pc = "turn" /\ c.pc \in Working /\ r \in Records /\ c.cur \in Missions /\ gates' \in SUBSET Tasks
  BY InHand DEF Escalate, Working, redis, ConductorInv, Types, TypeOK
<1>2. /\ hist' = warned \/ hist' = hist
      /\ (c' = At(c, "flag", z) /\ hist' = warned) \/ c' = Failed(c, r)
      /\ faults' = faults \/ faults' = faults + 1
      /\ UNCHANGED <<rec, chg, board, git, ledger, overdue, spent>>
  BY DEF Escalate, Call, Fault, world, redis
<1>3. /\ hist' \in Histories /\ Grows(hist, hist') /\ hist'.completed = hist.completed /\ \A m \in Missions : hist'.noted[m] <= 1
      /\ hist' = warned => <<c.cur, r.attempt>> \in hist'.warned
  <2>1. hist \in Histories /\ \A m \in Missions : hist.noted[m] <= 1
    BY DEF ConductorInv, Types, SignalsHonest
  <2> DEFINE w == hist.warned \cup {<<c.cur, r.attempt>>}
  <2>2. warned = [hist EXCEPT !.warned = w] /\ w \in SUBSET (Missions \X (Attempts \cup {0}))
    BY <1>1, <2>1, RecordTypes DEF Histories
  <2> HIDE DEF warned
  <2>3. warned \in Histories /\ Grows(hist, warned) /\ warned.completed = hist.completed /\ warned.noted = hist.noted
        /\ <<c.cur, r.attempt>> \in warned.warned
    BY <2>1, <2>2 DEF Histories, Grows
  <2> QED BY <1>2, <2>1, <2>3, SameHistory
<1>4. z \in Records /\ (hist' = warned => Like(c.cur, r, z, hist', board))
  <2>1. /\ z \in Records /\ z.st = r.st /\ z.attempt = r.attempt /\ z.rejections = r.rejections /\ z.commit = r.commit
        /\ z.subject = r.subject /\ z.skipped = r.skipped /\ z.preHead = r.preHead /\ z.tested = r.tested
        /\ z.history = r.history
    BY <1>1 DEF Records
  <2> HIDE DEF z, warned
  <2> QED BY <1>1, <1>3, <2>1, LikeButFlags
<1> HIDE DEF z, warned
<1> QED BY <1>1, <1>2, <1>3, <1>4, EffectStep

LEMMA FlagInv == ASSUME ConductorInv, Flag PROVE ConductorInv'
<1>1. c.pc = "flag" /\ c.pc \in Working /\ r \in Records
  BY InHand DEF Flag, Working
<1>2. Like(c.cur, r, r, hist, board)
  BY <1>1, LikeItself DEF Grows
<1> QED BY <1>1, <1>2, WriteStep DEF Flag

-----------------------------------------------------------------------------
(* Events taken in a turn.                                                  *)

LEMMA TakeDoes ==
    ASSUME NEW k, NEW m, NEW x, NEW ev, Take(k, m, x, ev), NEW y, y = Transition(x, ev), NEW z, z = Made(x, ev)
    PROVE  \/ /\ rec' = [rec EXCEPT ![m] = z] /\ faults' = faults
              /\ c' = At(k, IF Sends(x, ev) THEN "publish" ELSE "turn", z)
           \/ /\ faults' = faults + 1
              /\ rec' \in {rec, [rec EXCEPT ![m] = z]}
              /\ c' = Failed(k, z) \/ (rec' = rec /\ c' = Failed(k, y))
<1>1. CASE Sends(x, ev)
  <2>1. NewAttempt(k, m, y) /\ z = Opened(y)
    BY <1>1 DEF Take, Made, Sends
  <2> QED BY <1>1, <2>1 DEF NewAttempt, Put, Fault, Opened
<1>2. CASE ~Sends(x, ev)
  <2>1. Put(m, y, At(k, "turn", y), Failed(k, y)) /\ z = y
    BY <1>2 DEF Take, Made, Sends
  <2> QED BY <1>2, <2>1 DEF Put, Fault
<1> QED BY <1>1, <1>2

Turning == {"deps_integrated", "accepted", "agent_blocked", "delivered", "timed_out", "check_started", "check_failed",
            "check_passed", "approved", "review_rejected", "integrated", "integrate_failed"}

\* What an event of a turn makes of the record in hand, but for its commit or its tests.
LEMMA TurnEventFits ==
    ASSUME ConductorInv, c.pc \in Working, NEW x \in Records, NEW ev \in Turning,
           x.st = r.st, x.attempt = r.attempt, x.skipped = r.skipped, x.commit = r.commit \/ r.st = "accepted",
           NEW b, NEW t, NEW h, Rightly(c.cur, x, ev, h, b, t, spent), Counts(x, spent.ops),
           NEW y, y = Transition(x, ev), NEW z, z = Made(x, ev), y \in Records, z \in Records,
           c.job = "pass" => Reads(c.cur, r, c.seen, board)
    PROVE  /\ Follows(r, y) /\ Follows(r, z)
           /\ c.job \in {"startup", "repair"} => Behind(c.mem[c.cur], y) /\ Behind(c.mem[c.cur], z)
           /\ Sends(x, ev) => z.st = "requested" /\ r.st \in {"checking", "in_review"}
           /\ c.job = "pass" => Reads(c.cur, z, c.seen, board)
<1>1. ev \in Events /\ x.st \in Life!From[ev] /\ (ev \in Life!Rejecting => x.rejections < MaxAttempts)
      /\ ev \notin {"retry", "reassign", "abort", "skip", "integrate_started"}
  BY EventRejections DEF Rightly, Turning
<1>2. /\ y.st = Step(x, ev) /\ y.attempt = x.attempt /\ y.commit = x.commit /\ y.preHead = x.preHead
      /\ y.skipped = x.skipped
  BY <1>1, Fields
<1>3. /\ y.st # "integrating"
      /\ y.st = "integrated" => ev = "integrated" /\ x.st = "integrating"
      /\ y.st = "accepted" => x.st = "requested"
      /\ x.st = "integrating" => y.st \in {"integrated", "blocked"} /\ ~Sends(x, ev)
      /\ x.st \notin {"approved", "integrated", "blocked"}
      /\ Sends(x, ev) => x.st \in {"checking", "in_review"} /\ y.st = "requested"
      /\ y.st = "requested" => Sends(x, ev)
  <2>1. /\ Step(x, ev) = "integrated" => ev = "integrated"
        /\ Step(x, ev) = "accepted" => ev = "accepted"
        /\ Step(x, ev) # "integrating"
    BY <1>1, Table DEF Turning, Life!Rejecting
  <2>2. x.st = "integrating" => ev \in {"integrated", "integrate_failed"}
    BY <1>1, Origins DEF Turning
  <2>3. x.st \notin {"approved", "integrated", "blocked"}
    BY <1>1, Origins DEF Turning
  <2>4. Sends(x, ev) <=> ev \in Life!Rejecting /\ Life!Left(x.rejections, ev)
    BY <1>1, Effects
  <2>5. ev \in {"integrated", "integrate_failed"} => ev \notin Life!Rejecting /\ Step(x, ev) \in {"integrated", "blocked"}
    BY <1>1, Table DEF Life!Rejecting
  <2>6. ev \in Life!Rejecting => /\ x.st \in {"checking", "in_review"}
                                 /\ Step(x, ev) = IF ~Life!Left(x.rejections, ev) THEN "blocked" ELSE "requested"
    BY <1>1, Table, Origins DEF Life!Rejecting
  <2>7. Step(x, ev) = "requested" => ev \in Life!Rejecting /\ Life!Left(x.rejections, ev)
    BY <1>1, Table DEF Turning, Life!Rejecting
  <2>8. (ev = "integrated" => x.st = "integrating") /\ (ev = "accepted" => x.st = "requested")
    BY <1>1, Origins
  <2> QED BY <1>2, <2>1, <2>2, <2>3, <2>4, <2>5, <2>6, <2>7, <2>8
<1>4. \/ ~Sends(x, ev) /\ z = y
      \/ Sends(x, ev) /\ z.st = "requested" /\ z.attempt = x.attempt + 1
  <2>1. Sends(x, ev) => z = Opened(y)
    BY DEF Made
  <2>2. Opened(y).st = "requested" /\ Opened(y).attempt = y.attempt + 1
    BY DEF Opened, Records
  <2> QED BY <1>2, <2>1, <2>2 DEF Made
<1>5. Follows(r, y) /\ Follows(r, z)
  BY <1>2, <1>3, <1>4, InHand DEF Follows, Sound, Tells, Ended
<1>6. c.job \in {"startup", "repair"} => Behind(c.mem[c.cur], y) /\ Behind(c.mem[c.cur], z)
  <2>1. c.job \in {"startup", "repair"} => Behind(c.mem[c.cur], r)
    BY DEF ConductorInv, Agree, r
  <2> QED BY <1>2, <1>3, <1>4, <2>1 DEF Behind
<1>7. ASSUME c.job = "pass" PROVE Reads(c.cur, z, c.seen, board)
  <2>1. CASE ~Sends(x, ev)
    BY <1>2, <1>3, <1>4, <1>7, <2>1 DEF Reads
  <2>2. CASE Sends(x, ev)
    <3> DEFINE n == x.attempt + 1
    <3>1. n \in Attempts /\ n # r.attempt /\ ~(n <= r.attempt) /\ <<c.cur, n>> \in Tasks
      <4>1. x.attempt \in Nat /\ z.attempt \in Attempts \cup {0}
        BY RecordTypes
      <4> QED BY <1>3, <1>4, <2>2, <4>1, InHand DEF Tasks
    <3>2. Posts(c.cur, r, hist, board)
      BY InHand DEF Sound
    <3>3. board[<<c.cur, n>>].st = "none"
      BY <3>1, <3>2 DEF Posts
    <3>4. c.seen[<<c.cur, n>>].st = "none"
      BY <3>1, <3>3 DEF ConductorInv, AllRead
    <3> QED BY <1>3, <1>4, <2>2, <3>4 DEF Reads
  <2> QED BY <2>1, <2>2
<1> QED BY <1>3, <1>4, <1>5, <1>6, <1>7

\* An event taken in a turn, behind a history that grew.
LEMMA TurnTake ==
    ASSUME ConductorInv, c.pc \in Working \ {"failed", "late"}, NEW x \in Records, NEW ev \in Turning,
           x.st = r.st, x.attempt = r.attempt, x.skipped = r.skipped, x.commit = r.commit \/ r.st = "accepted",
           Sound(c.cur, x, hist', board, OnBranch, spent), Rightly(c.cur, x, ev, hist', board, OnBranch, spent),
           ev \in Life!Rejecting => c.job = "pass", Take(c, c.cur, x, ev),
           hist' \in Histories, Grows(hist, hist'), hist'.completed = hist.completed, \A m \in Missions : hist'.noted[m] <= 1,
           UNCHANGED <<chg, board, gates, git, ledger, overdue, spent>>
    PROVE  ConductorInv'
<1> DEFINE y == Transition(x, ev)
           z == Made(x, ev)
<1>1. c.cur \in Missions /\ r \in Records /\ spent.ops \in Nat /\ spent.ops <= MaxOps /\ c.pc \in Working
      /\ rec \in [Missions -> Records] /\ gates' \in SUBSET Tasks
  BY InHand DEF ConductorInv, Types, TypeOK
<1>2. y \in Records /\ z \in Records /\ Sound(c.cur, y, hist', board, OnBranch, spent)
      /\ Sound(c.cur, z, hist', board, OnBranch, spent)
  <2>1. ev \notin {"retry", "reassign"}
    BY DEF Turning
  <2> QED BY <1>1, <2>1, MadeSound
<1>3. /\ Follows(r, y) /\ Follows(r, z)
      /\ c.job \in {"startup", "repair"} => Behind(c.mem[c.cur], y) /\ Behind(c.mem[c.cur], z)
      /\ Sends(x, ev) => z.st = "requested"
      /\ c.job = "pass" => Reads(c.cur, z, c.seen, board)
  <2>1. c.job = "pass" => Reads(c.cur, r, c.seen, board)
    BY DEF ConductorInv, AllRead, r
  <2>2. Counts(x, spent.ops)
    BY DEF Sound
  <2> QED BY <1>1, <1>2, <2>1, <2>2, TurnEventFits
<1>4. Sends(x, ev) => c.job = "pass"
  <2>1. ev \in Events /\ ev \notin {"retry", "reassign"}
    BY DEF Turning, Events
  <2> QED BY <2>1, Effects
<1>5. \/ /\ rec' = [rec EXCEPT ![c.cur] = z] /\ faults' = faults
         /\ c' = At(c, IF Sends(x, ev) THEN "publish" ELSE "turn", z)
      \/ /\ faults' = faults + 1
         /\ rec' \in {rec, [rec EXCEPT ![c.cur] = z]}
         /\ c' = Failed(c, z) \/ (rec' = rec /\ c' = Failed(c, y))
  BY TakeDoes
<1>6. faults' \in Nat
  BY <1>5 DEF ConductorInv, Types
<1> HIDE DEF y, z
<1>7. CASE rec' = [rec EXCEPT ![c.cur] = z] /\ c' = At(c, IF Sends(x, ev) THEN "publish" ELSE "turn", z)
  <2> DEFINE pc2 == IF Sends(x, ev) THEN "publish" ELSE "turn"
  <2>1. Quiet(pc2, z)
    BY <1>1, <1>2, <1>6, <1>7, QuietCall DEF Working, Merging
  <2>2. Fits(pc2, z)
    BY <1>1, <1>3, <1>4, <1>7 DEF Fits
  <2> QED BY <1>2, <2>1, <2>2, QuietTurn
<1>8. CASE rec' \in {rec, [rec EXCEPT ![c.cur] = z]} /\ c' = Failed(c, z)
  <2>1. Quiet("failed", z)
    BY <1>1, <1>2, <1>6, <1>8, QuietCall DEF Working, Merging
  <2>2. Fits("failed", z)
    BY <1>3 DEF Fits
  <2> QED BY <1>2, <2>1, <2>2, QuietTurn
<1>9. CASE rec' = rec /\ c' = Failed(c, y)
  <2>1. Quiet("failed", y)
    BY <1>1, <1>2, <1>6, <1>9, QuietCall DEF Working, Merging
  <2>2. Fits("failed", y)
    BY <1>3 DEF Fits
  <2> QED BY <1>2, <2>1, <2>2, QuietTurn
<1> QED BY <1>5, <1>7, <1>8, <1>9

\* The same, of the record in hand itself and with no history to write.
LEMMA TurnTakes ==
    ASSUME ConductorInv, c.pc \in Working \ {"failed", "late"}, NEW ev \in Turning,
           Rightly(c.cur, r, ev, hist, board, OnBranch, spent),
           ev \in Life!Rejecting => c.job = "pass", Take(c, c.cur, r, ev),
           UNCHANGED <<chg, board, gates, git, world, hist>>
    PROVE  ConductorInv'
<1>1. c.pc \in Working /\ UNCHANGED <<ledger, overdue, spent>>
  BY DEF world
<1>2. r \in Records /\ Sound(c.cur, r, hist, board, OnBranch, spent)
  BY <1>1, InHand
<1>3. hist' \in Histories /\ Grows(hist, hist') /\ hist'.completed = hist.completed /\ \A m \in Missions : hist'.noted[m] <= 1
  BY SameHistory
<1> QED BY <1>1, <1>2, <1>3, TurnTake

\* What a settled mission advances on.
LEMMA AtAdvance ==
    ASSUME ConductorInv, Advancing
    PROVE  /\ c.pc = "turn" /\ c.job = "pass" /\ c.pc \in Working \ {"failed", "late"} /\ c.cur \in Missions /\ r \in Records
           /\ Sound(c.cur, r, hist, board, OnBranch, spent) /\ AllClosed(r) /\ chg.st = "active"
           /\ Reads(c.cur, r, c.seen, board)
<1>1. c.pc = "turn" /\ c.job = "pass" /\ Owed = {} /\ chg.st = "active" /\ c.pc \in Working \ {"failed", "late"}
  BY DEF Advancing, Settled, Working
<1>2. AllClosed(r)
  BY <1>1 DEF Owed, AllClosed
<1> QED BY <1>1, <1>2, InHand, AtTurn

LEMMA UnlockInv == ASSUME ConductorInv, Unlock PROVE ConductorInv'
<1>1. "deps_integrated" \in Turning /\ "deps_integrated" \notin Life!Rejecting
  BY DEF Turning, Life!Rejecting
<1>2. Rightly(c.cur, r, "deps_integrated", hist, board, OnBranch, spent)
  <2>1. r.st = "pending"
    BY DEF Unlock
  <2> QED BY <2>1 DEF Rightly, Events, Life!From
<1> QED BY <1>1, <1>2, AtAdvance, TurnTakes DEF Unlock

LEMMA ReadReviewInv == ASSUME ConductorInv, ReadReview PROVE ConductorInv'
<1>1. c.job = "pass" /\ r.st = "in_review" /\ c.cur \in Missions /\ r \in Records /\ Tells(c.cur, r, hist)
      /\ c.pc \in Working \ {"failed", "late"}
  BY AtAdvance DEF ReadReview, Sound
<1>2. r.subject = r.commit /\ <<c.cur, r.commit>> \in Deliveries
  BY <1>1 DEF Tells, Worked, Records, Deliveries
<1> DEFINE verdict == ledger[<<c.cur, r.subject>>]
           ev == IF verdict = "APPROVED" THEN "approved" ELSE "review_rejected"
<1>3. ev \in Turning
  BY DEF Turning
<1>4. Rightly(c.cur, r, ev, hist, board, OnBranch, spent)
  <2>1. verdict = "APPROVED" => <<c.cur, r.commit>> \in hist.approved
    BY <1>2 DEF ConductorInv, WorldFits
  <2>2. r.st \in Life!From[ev]
    BY <1>1 DEF Life!From
  <2> QED BY <2>1, <2>2 DEF Rightly, Events
<1>5. Take(c, c.cur, r, ev) /\ UNCHANGED <<chg, board, gates, git, world, hist>>
  BY DEF ReadReview
<1> HIDE DEF ev
<1> QED BY <1>1, <1>3, <1>4, <1>5, TurnTakes

LEMMA CheckFailsInv == ASSUME ConductorInv, CheckFails PROVE ConductorInv'
<1>1. c.pc \in Working \ {"failed", "late"} /\ r.st = "checking" /\ c.job = "pass"
  BY DEF CheckFails, Working, ConductorInv, AtCall, r
<1>2. Rightly(c.cur, r, "check_failed", hist, board, OnBranch, spent) /\ "check_failed" \in Turning
  BY <1>1 DEF Rightly, Events, Life!From, Turning
<1> QED BY <1>1, <1>2, TurnTakes DEF CheckFails

LEMMA CheckPassesInv == ASSUME ConductorInv, CheckPasses PROVE ConductorInv'
<1> DEFINE d == <<c.cur, r.commit>>
           h == [hist EXCEPT !.checked = @ \cup {d}]
<1>1. c.pc \in Working \ {"failed", "late"} /\ r.st = "checking" /\ c.job = "pass" /\ hist' = h
      /\ Take(c, c.cur, r, "check_passed") /\ UNCHANGED <<chg, board, gates, git, ledger, overdue, spent>>
  BY DEF CheckPasses, Working, ConductorInv, AtCall, r, world
<1>2. c.cur \in Missions /\ r \in Records /\ Sound(c.cur, r, hist, board, OnBranch, spent) /\ spent.ops \in Nat
  BY <1>1, InHand DEF ConductorInv, Types
<1>3. d \in Deliveries
  BY <1>1, <1>2 DEF Sound, Tells, Worked, Records, Deliveries
<1>4. hist' \in Histories /\ Grows(hist, hist') /\ hist'.completed = hist.completed /\ d \in hist'.checked
      /\ \A m \in Missions : hist'.noted[m] <= 1
  <2>1. hist \in Histories /\ \A m \in Missions : hist.noted[m] <= 1
    BY DEF ConductorInv, Types, SignalsHonest
  <2>2. h = [hist EXCEPT !.checked = hist.checked \cup {d}]
    BY <2>1 DEF Histories
  <2> HIDE DEF d
  <2>3. h \in Histories /\ Grows(hist, h) /\ h.completed = hist.completed /\ h.noted = hist.noted /\ d \in h.checked
    BY <1>3, <2>1, <2>2 DEF Histories, Grows
  <2> HIDE DEF h
  <2> QED BY <1>1, <2>1, <2>3
<1>5. Sound(c.cur, r, hist', board, OnBranch, spent)
  BY <1>2, <1>4, GrownSound
<1>6. Rightly(c.cur, r, "check_passed", hist', board, OnBranch, spent) /\ "check_passed" \in Turning /\ "check_passed" \notin Life!Rejecting
  BY <1>1, <1>4 DEF Rightly, Events, Life!From, Turning, Life!Rejecting
<1> HIDE DEF h
<1> QED BY <1>1, <1>2, <1>4, <1>5, <1>6, TurnTake

LEMMA NotIntegratedInv == ASSUME ConductorInv, NotIntegrated PROVE ConductorInv'
<1>1. c.pc \in {"unmerged", "merge"} /\ c.pc \in Working \ {"failed", "late"} /\ r.st = "integrating"
  BY DEF NotIntegrated, Working, ConductorInv, AtCall, Merging, r
<1>2. Rightly(c.cur, r, "integrate_failed", hist, board, OnBranch, spent)
      /\ "integrate_failed" \in Turning /\ "integrate_failed" \notin Life!Rejecting
  <2>1. spent.soils = 0 => \A d \in OnBranch : d[1] # c.cur
    BY <1>1 DEF ConductorInv, AtMerge
  <2> QED BY <1>1, <2>1 DEF Rightly, Events, Life!From, Turning, Life!Rejecting
<1> QED BY <1>1, <1>2, TurnTakes DEF NotIntegrated

LEMMA AnswerIs ==
    ASSUME r.st \in {"requested", "accepted"}
    PROVE  /\ Answer = "delivered" => Seen.st = "done" /\ ~PastDeadline /\ r.st = "accepted"
           /\ Answer = "accepted" => r.st = "requested"
           /\ Answer = "timed_out" => r.st = "accepted"
           /\ Answer = "unpublished" => Seen.st = "none"
<1>1. CASE Seen.st = "none"
  <2>1. ~PastDeadline
    BY <1>1 DEF PastDeadline
  <2> QED BY <1>1, <2>1 DEF Answer
<1>2. CASE Seen.st # "none" /\ PastDeadline /\ r.st = "requested"
  <2>1. Answer = "accepted"
    BY <1>2 DEF Answer, PastDeadline
  <2> QED BY <1>2, <2>1
<1>3. CASE Seen.st # "none" /\ PastDeadline /\ r.st # "requested"
  <2>1. Answer = "timed_out"
    BY <1>3 DEF Answer, PastDeadline
  <2> QED BY <1>3, <2>1
<1>4. CASE Seen.st # "none" /\ ~PastDeadline
  BY <1>4 DEF Answer
<1> QED BY <1>1, <1>2, <1>3, <1>4

LEMMA ReadAnswerInv == ASSUME ConductorInv, ReadAnswer PROVE ConductorInv'
<1> DEFINE ev == Answer
           x == IF ev = "delivered" THEN [r EXCEPT !.commit = Seen.commit] ELSE r
<1>1. /\ c.job = "pass" /\ c.cur \in Missions /\ r \in Records /\ Sound(c.cur, r, hist, board, OnBranch, spent)
      /\ c.pc \in Working \ {"failed", "late"} /\ AllClosed(r) /\ Reads(c.cur, r, c.seen, board)
      /\ r.st \in {"requested", "accepted"}
  BY AtAdvance DEF ReadAnswer
<1>2. ev \in Turning /\ ev \notin Life!Rejecting /\ Take(c, c.cur, x, ev) /\ UNCHANGED <<chg, board, gates, git, world, hist>>
  BY DEF ReadAnswer, Turning, Life!Rejecting
<1>3. /\ ev = "delivered" => Seen.st = "done" /\ ~PastDeadline /\ r.st = "accepted"
      /\ ev = "accepted" => r.st = "requested"
      /\ ev = "timed_out" => r.st = "accepted"
  BY <1>1, AnswerIs
<1>4. ev \in {"accepted", "agent_blocked", "timed_out", "delivered"}
  BY DEF ReadAnswer
<1>5. Task \in Tasks /\ r.attempt \in Attempts
  <2>1. r.attempt # 0 /\ r.attempt \in Attempts \cup {0}
    BY <1>1, RecordTypes DEF Sound, Counts, Ended
  <2> QED BY <1>1, <2>1 DEF Task, Tasks
<1>6. ASSUME ev = "delivered" PROVE Delivers(board[Task], Seen.commit) /\ Seen.commit \in Commits
  <2>1. Seen.st = "done" /\ Seen \in Entries /\ EntryFits(Seen)
    BY <1>3, <1>5, <1>6 DEF Seen, ConductorInv, WorldFits, Types, TypeOK
  <2>2. Seen.acc /\ Seen.commit # 0 /\ Seen.commit \in Commits /\ Seen.late \in BOOLEAN
    BY <2>1 DEF EntryFits, Entries
  <2>3. ~Seen.late
    BY <1>3, <1>6, <2>1, <2>2 DEF PastDeadline
  <2>4. board[Task] = Seen
    BY <1>1, <2>1 DEF Reads, Seen, Task
  <2> QED BY <2>1, <2>2, <2>3, <2>4 DEF Delivers
<1> HIDE DEF ev
<1>7. /\ x \in Records /\ Sound(c.cur, x, hist, board, OnBranch, spent) /\ x.st = r.st /\ x.attempt = r.attempt
      /\ x.skipped = r.skipped /\ (x.commit = r.commit \/ r.st = "accepted")
      /\ ev = "delivered" => x.commit = Seen.commit
      /\ ev # "delivered" => x = r
  <2>1. CASE ev = "delivered"
    <3> DEFINE k == Seen.commit
    <3>1. k \in Commits /\ x = [r EXCEPT !.commit = k] /\ r.st = "accepted"
      BY <1>3, <1>6, <2>1
    <3> HIDE DEF k, x
    <3>2. x \in Records /\ Sound(c.cur, x, hist, board, OnBranch, spent) /\ x.st = "accepted" /\ x.attempt = r.attempt
          /\ x.commit = k /\ x.skipped = r.skipped
      BY <1>1, <3>1, BroughtSound
    <3> QED BY <2>1, <3>1, <3>2 DEF k
  <2>2. CASE ev # "delivered"
    BY <1>1, <2>2
  <2> QED BY <2>1, <2>2
<1>8. Rightly(c.cur, x, ev, hist, board, OnBranch, spent)
  <2>1. x.st \in Life!From[ev]
    BY <1>1, <1>3, <1>4, <1>7 DEF Life!From
  <2>2. ev = "delivered" => x.commit # 0 /\ x.attempt \in Attempts /\ Delivers(board[<<c.cur, x.attempt>>], x.commit)
    BY <1>5, <1>6, <1>7, Constants DEF Task
  <2>3. ev \in {"accepted", "agent_blocked"} => AllClosed(x)
    BY <1>1, <1>7
  <2> HIDE DEF x
  <2> QED BY <1>4, <2>1, <2>2, <2>3 DEF Rightly, Events
<1> HIDE DEF x
<1>9. hist' \in Histories /\ Grows(hist, hist') /\ hist'.completed = hist.completed /\ hist' = hist
      /\ \A m \in Missions : hist'.noted[m] <= 1
  BY <1>2, SameHistory
<1>10. UNCHANGED <<chg, board, gates, git, ledger, overdue, spent>>
  BY <1>2 DEF world
<1>11. Sound(c.cur, x, hist', board, OnBranch, spent) /\ Rightly(c.cur, x, ev, hist', board, OnBranch, spent)
  BY <1>7, <1>8, <1>9
<1> QED BY <1>1, <1>2, <1>7, <1>9, <1>10, <1>11, TurnTake

LEMMA SuiteGreenInv == ASSUME ConductorInv, SuiteGreen PROVE ConductorInv'
<1> DEFINE head == git.branch
           x == [r EXCEPT !.tested = head]
           h == [hist EXCEPT !.green = @ \cup ToSet(git.branch)]
<1>1. /\ c.pc = "suite" /\ c.pc \in Working \ {"failed", "late"} /\ r.st = "integrating" /\ hist' = h
      /\ Take(c, c.cur, x, "integrated") /\ UNCHANGED <<chg, board, gates, git, ledger, overdue, spent>>
  BY DEF SuiteGreen, Working, Merging, ConductorInv, AtCall, r, world
<1>2. c.cur \in Missions /\ r \in Records /\ Sound(c.cur, r, hist, board, OnBranch, spent) /\ spent.ops \in Nat
  BY <1>1, InHand DEF ConductorInv, Types
<1>3. head \in Seq(Deliveries) /\ ToSet(head) \subseteq Deliveries
  BY DEF ConductorInv, Types, TypeOK, ToSet
<1>4. hist' \in Histories /\ Grows(hist, hist') /\ hist'.completed = hist.completed /\ OnBranch \subseteq hist'.green
      /\ \A m \in Missions : hist'.noted[m] <= 1
  <2>1. hist \in Histories /\ \A m \in Missions : hist.noted[m] <= 1
    BY DEF ConductorInv, Types, SignalsHonest
  <2> DEFINE g == hist.green \cup ToSet(head)
  <2>2. h = [hist EXCEPT !.green = g] /\ g \in SUBSET Deliveries /\ hist.green \subseteq g /\ OnBranch \subseteq g
    BY <1>3, <2>1 DEF Histories, OnBranch
  <2> HIDE DEF g, h
  <2>3. h \in Histories /\ Grows(hist, h) /\ h.completed = hist.completed /\ h.noted = hist.noted /\ h.green = g
    BY <2>1, <2>2 DEF Histories, Grows
  <2> QED BY <1>1, <2>1, <2>2, <2>3
<1> HIDE DEF h
<1>5. Sound(c.cur, r, hist', board, OnBranch, spent)
  BY <1>2, <1>4, GrownSound
<1>6. /\ x \in Records /\ x.st = r.st /\ x.attempt = r.attempt /\ x.rejections = r.rejections /\ x.commit = r.commit
      /\ x.subject = r.subject /\ x.skipped = r.skipped /\ x.preHead = r.preHead /\ x.tested = head
      /\ x.history = r.history /\ x.escalated = r.escalated
  <2> HIDE DEF head
  <2> QED BY <1>2, <1>3 DEF Records
<1>7. Like(c.cur, r, x, hist', board)
  BY <1>4, <1>6 DEF Like, OnBranch
<1> HIDE DEF x
<1>8. Sound(c.cur, x, hist', board, OnBranch, spent)
  BY <1>2, <1>5, <1>7, LikeSound
<1>9. Rightly(c.cur, x, "integrated", hist', board, OnBranch, spent) /\ "integrated" \in Turning /\ "integrated" \notin Life!Rejecting
  <2>1. <<c.cur, r.commit>> \in OnBranch
    BY <1>1 DEF ConductorInv, AtMerge, r
  <2> QED BY <1>1, <1>4, <1>6, <2>1 DEF Rightly, Events, Life!From, Turning, Life!Rejecting
<1> QED BY <1>1, <1>2, <1>4, <1>6, <1>8, <1>9, TurnTake

LEMMA RequestInv == ASSUME ConductorInv, Request PROVE ConductorInv'
<1> DEFINE z == Opened(r)
<1>1. /\ c.pc = "turn" /\ c.job = "pass" /\ c.cur \in Missions /\ r \in Records /\ Sound(c.cur, r, hist, board, OnBranch, spent)
      /\ Reads(c.cur, r, c.seen, board) /\ r.st = "ready" /\ c.pc \in Working
  BY AtAdvance DEF Request
<1>2. \/ rec' = [rec EXCEPT ![c.cur] = z] /\ c' = At(c, "publish", z)
      \/ rec' = [rec EXCEPT ![c.cur] = z] /\ c' = Failed(c, z)
      \/ rec' = rec /\ (c' = Failed(c, z) \/ c' = Failed(c, r))
  BY DEF Request, NewAttempt, Put, Fault, Opened
<1>3. /\ UNCHANGED <<chg, board, gates, git, ledger, overdue, spent, hist>>
      /\ faults' \in Nat /\ gates' \in SUBSET Tasks /\ rec \in [Missions -> Records]
  BY DEF Request, NewAttempt, Put, Fault, world, ConductorInv, Types, TypeOK
<1>4. hist' \in Histories /\ Grows(hist, hist') /\ hist'.completed = hist.completed /\ \A m \in Missions : hist'.noted[m] <= 1
  BY <1>3, SameHistory
<1>5. r.attempt = 0 /\ r.rejections < MaxAttempts /\ r.rejections \in Nat
  BY <1>1, RecordTypes DEF Sound, Counts, Ended
<1>6. z \in Records /\ Sound(c.cur, z, hist, board, OnBranch, spent) /\ z.st = "requested" /\ z.attempt = 1
  <2>1. spent.ops \in Nat /\ spent.ops <= MaxOps /\ MaxAttempts * spent.ops \in Nat
    BY Products DEF ConductorInv, Types
  <2>2. Room(r, spent.ops)
    BY <1>5, <2>1 DEF Room
  <2>3. z.st = "requested" /\ z.attempt = 1
    BY <1>1, <1>5 DEF Opened, Records
  <2> QED BY <1>1, <1>5, <2>1, <2>2, <2>3, OpenedSound
<1>7. Reads(c.cur, z, c.seen, board)
  <2>1. 1 \in Attempts /\ <<c.cur, 1>> \in Tasks
    BY <1>1, <1>6, RecordTypes DEF Tasks
  <2>2. board[<<c.cur, 1>>].st = "none"
    BY <1>1, <1>5, <2>1 DEF Sound, Posts
  <2>3. c.seen[<<c.cur, 1>>].st = "none"
    BY <2>1, <2>2 DEF ConductorInv, AllRead
  <2> QED BY <1>6, <2>3 DEF Reads
<1> HIDE DEF z
<1>8. Follows(r, z) /\ Follows(r, r)
  BY <1>1, <1>6 DEF Follows
<1>9. CASE rec' = [rec EXCEPT ![c.cur] = z] /\ c' = At(c, "publish", z)
  <2>1. Quiet("publish", z)
    BY <1>1, <1>3, <1>4, <1>6, <1>9, QuietCall DEF Working, Merging
  <2>2. Fits("publish", z)
    BY <1>1, <1>3, <1>6, <1>7, <1>8, <1>9 DEF Fits
  <2> QED BY <1>3, <1>6, <2>1, <2>2, QuietTurn
<1>10. CASE (rec' = rec \/ rec' = [rec EXCEPT ![c.cur] = z]) /\ c' = Failed(c, z)
  <2>1. Quiet("failed", z)
    BY <1>1, <1>3, <1>4, <1>6, <1>10, QuietCall DEF Working, Merging
  <2>2. Fits("failed", z)
    BY <1>1, <1>8 DEF Fits
  <2> QED BY <1>3, <1>6, <2>1, <2>2, QuietTurn
<1>11. CASE rec' = rec /\ c' = Failed(c, r)
  <2>1. Quiet("failed", r)
    BY <1>1, <1>3, <1>4, <1>11, QuietCall DEF Working, Merging
  <2>2. Fits("failed", r)
    BY <1>1, <1>8 DEF Fits
  <2> QED BY <1>1, <1>3, <2>1, <2>2, QuietTurn
<1> QED BY <1>2, <1>9, <1>10, <1>11

LEMMA FailStep ==
    ASSUME ConductorInv, c.pc \in Working, c' = Failed(c, r), faults' = faults \/ faults' = faults + 1,
           UNCHANGED <<rec, chg, board, gates, git, ledger, overdue, spent, hist>>
    PROVE  ConductorInv'
<1>1. r \in Records /\ faults' \in Nat /\ gates' \in SUBSET Tasks
  BY InHand DEF ConductorInv, Types, TypeOK
<1>2. hist' \in Histories /\ Grows(hist, hist') /\ hist'.completed = hist.completed /\ \A m \in Missions : hist'.noted[m] <= 1
  BY SameHistory
<1>3. Quiet("failed", r)
  BY <1>1, <1>2, QuietCall DEF Working, Merging
<1> QED BY <1>1, <1>2, <1>3, LikeItself, QuietLike

LEMMA SuiteBreaksInv == ASSUME ConductorInv, SuiteBreaks PROVE ConductorInv'
<1>1. c.pc \in Working /\ c' = Failed(c, r) /\ faults' = faults + 1
      /\ UNCHANGED <<rec, chg, board, gates, git, ledger, overdue, spent, hist>>
  BY DEF SuiteBreaks, Fault, Working, redis, world
<1> QED BY <1>1, FailStep

LEMMA RepublishInv == ASSUME ConductorInv, Republish PROVE ConductorInv'
<1>1. /\ c.pc = "turn" /\ c.job = "pass" /\ c.cur \in Missions /\ r \in Records /\ Sound(c.cur, r, hist, board, OnBranch, spent)
      /\ Reads(c.cur, r, c.seen, board) /\ r.st \in {"requested", "accepted"} /\ c.pc \in Working
  BY AtAdvance DEF Republish
<1>2. UNCHANGED <<rec, chg, board, gates, git, ledger, overdue, spent, hist, faults>> /\ gates' \in SUBSET Tasks /\ faults' \in Nat
  BY DEF Republish, redis, world, ConductorInv, Types, TypeOK
<1>3. c' = At(c, "publish", r)
  <2>1. c' = [c EXCEPT !.pc = "publish"] /\ c \in Processes
    BY <1>1, InHand DEF Republish
  <2> QED BY <2>1 DEF At, r, Processes
<1>4. hist' \in Histories /\ Grows(hist, hist') /\ hist'.completed = hist.completed /\ \A m \in Missions : hist'.noted[m] <= 1
  BY <1>2, SameHistory
<1>5. Quiet("publish", r)
  BY <1>1, <1>2, <1>3, <1>4, QuietCall DEF Working, Merging
<1>6. Fits("publish", r)
  <2>1. r = rec'[c.cur]
    BY <1>1, <1>2, AtTurn DEF Behind
  <2> QED BY <1>1, <2>1 DEF Fits, Follows
<1> QED BY <1>1, <1>2, <1>5, <1>6, QuietTurn

LEMMA StartCheckInv == ASSUME ConductorInv, StartCheck PROVE ConductorInv'
<1> DEFINE z == Transition(r, "check_started")
<1>1. /\ c.pc = "turn" /\ c.job = "pass" /\ c.cur \in Missions /\ r \in Records /\ Sound(c.cur, r, hist, board, OnBranch, spent)
      /\ r.st = "delivered" /\ c.pc \in Working /\ rec \in [Missions -> Records] /\ spent.ops \in Nat
  BY AtAdvance DEF StartCheck, ConductorInv, Types, TypeOK
<1>2. z \in Records /\ Sound(c.cur, z, hist, board, OnBranch, spent) /\ z.st = "checking"
  <2>1. Rightly(c.cur, r, "check_started", hist, board, OnBranch, spent)
    BY <1>1 DEF Rightly, Events, Life!From
  <2>2. "check_started" \in Events /\ "check_started" \notin Life!Rejecting
    BY DEF Events, Life!Rejecting
  <2>3. z.st = Step(r, "check_started") /\ Step(r, "check_started") = "checking"
    BY <1>1, <2>2, Fields, Table
  <2> QED BY <1>1, <2>1, <2>2, <2>3, EventSound
<1>3. /\ UNCHANGED <<chg, board, gates, git, ledger, overdue, spent, hist>> /\ faults' \in Nat /\ gates' \in SUBSET Tasks
      /\ \/ rec' = [rec EXCEPT ![c.cur] = z] /\ c' = At(c, "check", z)
         \/ (rec' = rec \/ rec' = [rec EXCEPT ![c.cur] = z]) /\ c' = Failed(c, z)
  BY DEF StartCheck, Put, Fault, world, ConductorInv, Types, TypeOK
<1>4. hist' \in Histories /\ Grows(hist, hist') /\ hist'.completed = hist.completed /\ \A m \in Missions : hist'.noted[m] <= 1
  BY <1>3, SameHistory
<1> HIDE DEF z
<1>5. Follows(r, z) /\ Reads(c.cur, z, c.seen, board)
  BY <1>2 DEF Follows, Reads
<1>6. CASE rec' = [rec EXCEPT ![c.cur] = z] /\ c' = At(c, "check", z)
  <2>1. Quiet("check", z)
    BY <1>1, <1>2, <1>3, <1>4, <1>6, QuietCall DEF Working, Merging
  <2>2. Fits("check", z)
    BY <1>1, <1>2, <1>5, <1>6 DEF Fits
  <2> QED BY <1>2, <1>3, <2>1, <2>2, QuietTurn
<1>7. CASE (rec' = rec \/ rec' = [rec EXCEPT ![c.cur] = z]) /\ c' = Failed(c, z)
  <2>1. Quiet("failed", z)
    BY <1>1, <1>2, <1>3, <1>4, <1>7, QuietCall DEF Working, Merging
  <2>2. Fits("failed", z)
    BY <1>1, <1>5 DEF Fits
  <2> QED BY <1>2, <1>3, <2>1, <2>2, QuietTurn
<1> QED BY <1>3, <1>6, <1>7

LEMMA CheckBreaksInv == ASSUME ConductorInv, CheckBreaks PROVE ConductorInv'
<1> DEFINE z == [r EXCEPT !.st = "delivered"]
<1>1. /\ c.pc = "check" /\ c.pc \in Working /\ c.cur \in Missions /\ r \in Records /\ Sound(c.cur, r, hist, board, OnBranch, spent)
      /\ r.st = "checking" /\ c.job = "pass"
  BY InHand DEF CheckBreaks, Working, ConductorInv, AtCall, r
<1>2. z \in Records /\ Sound(c.cur, z, hist, board, OnBranch, spent) /\ z.st = "delivered"
  BY <1>1, RedoSound
<1>3. /\ UNCHANGED <<rec, chg, board, gates, git, ledger, overdue, spent, hist>> /\ faults' \in Nat /\ gates' \in SUBSET Tasks
      /\ c' = At(c, "uncheck", z)
  BY DEF CheckBreaks, Fault, world, redis, ConductorInv, Types, TypeOK
<1>4. hist' \in Histories /\ Grows(hist, hist') /\ hist'.completed = hist.completed /\ \A m \in Missions : hist'.noted[m] <= 1
  BY <1>3, SameHistory
<1> HIDE DEF z
<1>5. Quiet("uncheck", z)
  BY <1>1, <1>2, <1>3, <1>4, QuietCall DEF Working, Merging
<1>6. Fits("uncheck", z)
  BY <1>1, <1>2 DEF Fits, Follows, Reads
<1> QED BY <1>2, <1>3, <1>5, <1>6, QuietTurn

LEMMA UncheckInv == ASSUME ConductorInv, Uncheck PROVE ConductorInv'
<1>1. /\ c.pc = "uncheck" /\ c.pc \in Working /\ c.cur \in Missions /\ r \in Records
      /\ Sound(c.cur, r, hist, board, OnBranch, spent)
  BY InHand DEF Uncheck, Working
<1>2. /\ UNCHANGED <<chg, board, gates, git, ledger, overdue, spent, hist>> /\ faults' \in Nat /\ gates' \in SUBSET Tasks
      /\ c' = Failed(c, r) /\ (rec' = rec \/ rec' = [rec EXCEPT ![c.cur] = r])
  BY DEF Uncheck, Put, Fault, world, ConductorInv, Types, TypeOK
<1>3. hist' \in Histories /\ Grows(hist, hist') /\ hist'.completed = hist.completed /\ \A m \in Missions : hist'.noted[m] <= 1
  BY <1>2, SameHistory
<1>4. Quiet("failed", r)
  BY <1>1, <1>2, <1>3, QuietCall DEF Working, Merging
<1> QED BY <1>1, <1>2, <1>3, <1>4, LikeItself, QuietLike

-----------------------------------------------------------------------------
(* The calls of a turn that change the board.                               *)

LEMMA BoardTurn ==
    ASSUME ConductorInv, NEW pc2 \in {"turn", "tell", "failed"}, Turns(pc2, r), rec' = rec, c'.busy = c.busy,
           faults' \in Nat, board' \in [Tasks -> Entries], UNCHANGED <<chg, gates, git, ledger, overdue, spent, hist>>,
           Stay, AllRead', \A t \in Tasks : EntryFits(board'[t]) /\ EntryFits(c'.seen[t]),
           pc2 # "failed" => r = rec[c.cur] \/ (c.job = "pass" /\ Behind(r, rec[c.cur])),
           pc2 = "tell" => Owed # {} /\ board'[<<c.cur, r.history[Oldest].n>>].st # "none"
    PROVE  ConductorInv'
<1>1. c.pc \in Working /\ c.cur \in Missions /\ r \in Records /\ Copy(c.cur, r)
  BY InHand DEF Turns
<1>2. Makes(c.cur, r)
  BY TurnMakes
<1>3. Types'
  <2>1. c' \in Processes
    BY DEF Turns
  <2>2. c'.r \in Records /\ c'.mem \in [Missions -> Records] /\ c'.seen \in [Tasks -> Entries]
        /\ c'.cur \in 0 .. N /\ c'.todo \in SUBSET Missions
    BY <2>1, ProcessTypes
  <2> QED BY <2>1, <2>2 DEF ConductorInv, Types, TypeOK
<1>4. AllSound'
  <2>1. Sound(c.cur, r, hist', board', OnBranch', spent')
    BY <1>1 DEF Stay
  <2> QED BY <1>1, <1>2, <2>1, SoundStep
<1>5. OneMerge'
  <2>1. \A n \in Missions : \A x \in Records : Held(n, x, rec', c') => Copy(n, x)
    BY <1>1, <1>2 DEF Makes
  <2> QED BY <2>1, MergeStays DEF ConductorInv
<1>6. Agree'
  <2>1. c.job \in {"startup", "repair"} => Behind(c.mem[c.cur], r)
    BY <1>1 DEF ConductorInv, Agree, r
  <2> QED BY <2>1, TurnAgrees
<1>7. AtCall'
  <2>1. /\ c'.pc = pc2 /\ pc2 \in Working \ {"late"} /\ c'.r = r /\ c'.cur = c.cur /\ c'.job = c.job /\ c'.todo = c.todo
        /\ c'.mem = c.mem
    BY DEF Turns, Working
  <2>2. pc2 = "tell" => Owed' # {} /\ board'[<<c.cur, r'.history[Oldest'].n>>].st # "none"
    <3>1. r' = r
      BY <2>1 DEF r
    <3>2. Owed' = Owed /\ Oldest' = Oldest
      BY <3>1 DEF Owed, Oldest
    <3> QED BY <3>1, <3>2
  <2> QED BY <1>1, <2>1, <2>2 DEF ConductorInv, AtCall, Merging, Working
<1>8. AtMerge'
  <2>1. c'.pc \notin Merging /\ c'.job = c.job
    BY DEF Turns, Merging
  <2>2. ASSUME c'.job = "pass", chg'.st = "active", ~c'.busy, NEW n \in Missions, NEW x \in Records, Held(n, x, rec', c')
        PROVE  x.st # "integrating"
    <3>1. Copy(n, x)
      BY <1>1, <1>2, <2>2 DEF Makes
    <3> QED BY <1>1, <2>1, <2>2, <3>1 DEF ConductorInv, AtMerge
  <2> QED BY <2>1, <2>2 DEF AtMerge, Merging, Copy
<1>9. WorldFits'
  BY DEF ConductorInv, WorldFits
<1>10. MergedWasReviewed'
  BY DEF ConductorInv, MergedWasReviewed, OnBranch
<1>11. SignalsHonest'
  BY <1>3, <1>4, <1>9, SignalsAre, SameHistory
<1> QED BY <1>3, <1>4, <1>5, <1>6, <1>7, <1>8, <1>9, <1>10, <1>11 DEF ConductorInv

LEMMA PublishInv == ASSUME ConductorInv, Publish PROVE ConductorInv'
<1> DEFINE t == <<c.cur, r.attempt>>
           e == [NoEntry EXCEPT !.st = "requested"]
<1>1. /\ c.pc = "publish" /\ c.pc \in Working /\ c.cur \in Missions /\ r \in Records /\ c \in Processes
      /\ Sound(c.cur, r, hist, board, OnBranch, spent)
      /\ r.st \in {"requested", "accepted"} /\ c.job \in {"pass", "op"} /\ r = rec[c.cur]
  BY InHand DEF Publish, Working, ConductorInv, AtCall, Agree, r
<1>2. t \in Tasks /\ r.attempt \in Attempts /\ ~GivenUp(r, r.attempt)
  <2>1. r.attempt # 0 /\ r.attempt \in Attempts \cup {0} /\ r.attempt \in Nat /\ ~r.skipped
    BY <1>1, RecordTypes DEF Sound, Counts, Tells, Ended
  <2> QED BY <1>1, <2>1 DEF Tasks, GivenUp
<1>3. /\ Published \/ board' = board
      /\ \/ Published /\ c' = [c EXCEPT !.pc = "turn", !.seen[t] = e]
         \/ c' = Failed(c, r)
      /\ UNCHANGED <<rec, chg, gates, git, ledger, overdue, spent, hist>> /\ faults' \in Nat
  BY DEF Publish, Call, Fault, world, ConductorInv, Types
<1>4. e \in Entries /\ e.st = "requested" /\ EntryFits(e)
  BY DEF NoEntry, Entries, EntryFits
<1>5. /\ board' \in [Tasks -> Entries]
      /\ \A u \in Tasks : (u # t => board'[u] = board[u]) /\ (board[u].st # "none" => board'[u] = board[u])
      /\ Published => board'[t].st # "none"
      /\ \A u \in Tasks : EntryFits(board'[u])
  <2>1. board \in [Tasks -> Entries] /\ \A u \in Tasks : EntryFits(board[u]) /\ board[u] \in Entries
    BY DEF ConductorInv, Types, TypeOK, WorldFits
  <2>2. CASE board[t].st = "none" /\ Published
    <3> DEFINE f == [board[t] EXCEPT !.st = "requested"]
    <3>1. f \in Entries /\ f.st = "requested" /\ EntryFits(f)
      BY <1>2, <2>1 DEF Entries, EntryFits
    <3>2. board' = [board EXCEPT ![t] = f]
      BY <2>1, <2>2 DEF Published
    <3> HIDE DEF f
    <3> QED BY <1>2, <2>1, <2>2, <3>1, <3>2
  <2>3. CASE board[t].st # "none" /\ Published
    BY <2>1, <2>3 DEF Published
  <2>4. CASE board' = board /\ ~Published
    BY <2>1, <2>4
  <2> QED BY <1>3, <2>2, <2>3, <2>4
<1>6. Stay
  <2>1. ASSUME NEW n \in Missions, NEW x \in Records, Copy(n, x) PROVE Sound(n, x, hist', board', OnBranch', spent')
    <3>1. Sound(n, x, hist, board, OnBranch, spent) /\ hist' = hist /\ OnBranch' = OnBranch /\ spent' = spent
      BY <1>3, <2>1 DEF ConductorInv, AllSound, OnBranch
    <3>2. CASE n # c.cur
      <4>1. \A a \in Attempts : <<n, a>> \in Tasks /\ board'[<<n, a>>] = board[<<n, a>>]
        BY <1>5, <3>2 DEF Tasks
      <4>2. x.st \in Worked => x.attempt \in Attempts
        BY <3>1 DEF Sound, Posts
      <4> QED BY <3>1, <4>1, <4>2, BoardSound
    <3>3. CASE n = c.cur
      <4>1. x = r
        <5>1. ~Keeps(c, n)
          BY <1>1, <3>3, Constants DEF Keeps
        <5> QED BY <1>1, <2>1, <3>3, <5>1 DEF Copy, Held, r
      <4>2. \A a \in Attempts : board'[<<n, a>>].st # "none" => board[<<n, a>>].st # "none" \/ (a = x.attempt /\ ~GivenUp(x, a))
        <5>1. ASSUME NEW a \in Attempts, board'[<<n, a>>].st # "none", board[<<n, a>>].st = "none" PROVE a = r.attempt
          <6>1. <<n, a>> \in Tasks /\ (<<n, a>> = t => a = r.attempt)
            BY DEF Tasks
          <6> QED BY <1>5, <5>1, <6>1
        <5> QED BY <1>2, <4>1, <5>1
      <4>3. x.st \notin Worked
        BY <1>1, <4>1 DEF Worked
      <4>4. Sound(n, x, hist, board', OnBranch, spent)
        <5>1. x.st \in Worked => board'[<<n, x.attempt>>] = board[<<n, x.attempt>>]
          BY <4>3
        <5>2. \A a \in Attempts : board'[<<n, a>>].st # "none" =>
                 board[<<n, a>>].st # "none" \/ (a = x.attempt /\ ~GivenUp(x, a))
          BY <4>2
        <5> HIDE DEF t, e
        <5> QED BY <3>1, <5>1, <5>2, BoardSound
      <4> QED BY <3>1, <4>4
    <3> QED BY <3>2, <3>3
  <2> QED BY <2>1 DEF Stay
<1>7. ASSUME NEW n \in Missions, Keeps(c, n), ~Has(c, n), c.job # "abort", NEW f \in [Tasks -> Entries],
             \A u \in Tasks : u # t => f[u] = c.seen[u]
      PROVE  Reads(n, c.mem[n], f, board')
  <2>1. n # c.cur /\ Reads(n, c.mem[n], c.seen, board)
    BY <1>1, <1>7 DEF Has, ConductorInv, AllRead
  <2>2. ASSUME c.mem[n].st \in {"requested", "accepted"} PROVE <<n, c.mem[n].attempt>> \in Tasks
    <3>1. c.mem[n] \in Records /\ Copy(n, c.mem[n])
      BY <1>1, <1>7, ProcessTypes DEF Copy, Held
    <3>2. Counts(c.mem[n], spent.ops)
      BY <3>1 DEF ConductorInv, AllSound, Sound
    <3> QED BY <2>2, <3>1, <3>2, RecordTypes DEF Counts, Ended, Tasks
  <2> QED BY <1>5, <1>7, <2>1, <2>2 DEF Reads
<1>8. CASE Published /\ c' = [c EXCEPT !.pc = "turn", !.seen[t] = e]
  <2> DEFINE f == [c.seen EXCEPT ![t] = e]
  <2>1. f \in [Tasks -> Entries] /\ f[t] = e /\ \A u \in Tasks : u # t => f[u] = c.seen[u]
    BY <1>1, <1>2, <1>4, ProcessTypes
  <2>2. c' = [[c EXCEPT !.pc = "turn"] EXCEPT !.seen = f]
    BY <1>1, <1>8 DEF Processes
  <2> HIDE DEF e, f, t
  <2>3. /\ c' \in Processes /\ c'.pc = "turn" /\ c'.r = c.r /\ c'.cur = c.cur /\ c'.job = c.job /\ c'.mem = c.mem
        /\ c'.todo = c.todo /\ c'.busy = c.busy /\ c'.seen = f
    BY <1>1, <2>1, <2>2 DEF Processes, Steps, Working
  <2>4. Turns("turn", r)
    BY <1>1, <1>3, <2>3 DEF Turns, Working, r
  <2>5. \A u \in Tasks : EntryFits(board'[u]) /\ EntryFits(f[u])
    BY <1>4, <1>5, <2>1 DEF ConductorInv, WorldFits
  <2>6. AllRead'
    <3>1. \A u \in Tasks : f[u].st # "none" => board'[u].st # "none"
      BY <1>5, <1>8, <2>1 DEF ConductorInv, AllRead
    <3>2. ASSUME NEW n \in Missions, Keeps(c', n), ~Has(c', n), c'.job # "abort" PROVE Reads(n, c'.mem[n], c'.seen, board')
      <4>1. Keeps(c, n) /\ ~Has(c, n)
        BY <1>1, <2>3, <3>2 DEF Keeps, Has, Working
      <4> QED BY <1>7, <2>1, <2>3, <3>2, <4>1
    <3>3. Reads(c'.cur, c'.r, c'.seen, board')
      BY <1>4, <2>1, <2>3 DEF Reads, t, r
    <3> QED BY <2>3, <3>1, <3>2, <3>3 DEF AllRead
  <2> QED BY <1>1, <1>3, <1>5, <1>6, <2>3, <2>4, <2>5, <2>6, BoardTurn
<1>9. CASE c' = Failed(c, r)
  <2>1. /\ c' \in Processes /\ c'.pc = "failed" /\ c'.r = r /\ c'.cur = c.cur /\ c'.job = c.job /\ c'.mem = c.mem
        /\ c'.todo = c.todo /\ c'.busy = c.busy /\ c'.seen = c.seen
    BY <1>1, <1>9, FailedIs
  <2>2. Turns("failed", r)
    BY <1>1, <1>3, <2>1 DEF Turns, Working
  <2>3. \A u \in Tasks : EntryFits(board'[u]) /\ EntryFits(c'.seen[u])
    BY <1>5, <2>1 DEF ConductorInv, WorldFits
  <2>4. AllRead'
    <3>1. \A u \in Tasks : c.seen[u].st # "none" => board'[u].st # "none"
      BY <1>5 DEF ConductorInv, AllRead
    <3>2. ASSUME NEW n \in Missions, Keeps(c', n), ~Has(c', n), c'.job # "abort" PROVE Reads(n, c'.mem[n], c'.seen, board')
      <4>1. Keeps(c, n) /\ ~Has(c, n) /\ c.seen \in [Tasks -> Entries]
        BY <1>1, <2>1, <3>2, ProcessTypes DEF Keeps, Has, Working
      <4> QED BY <1>7, <2>1, <3>2, <4>1
    <3> QED BY <2>1, <3>1, <3>2 DEF AllRead
  <2> QED BY <1>1, <1>3, <1>5, <1>6, <2>1, <2>2, <2>3, <2>4, BoardTurn
<1> QED BY <1>3, <1>8, <1>9

\* An attempt still to be closed is not the one that a copy of the mission works on.
LEMMA OwedIsOld ==
    ASSUME ConductorInv, c.pc = "turn", NEW i \in Owed, NEW x \in Records, Copy(c.cur, x), x.st \in Worked
    PROVE  r.history[i].n # x.attempt
<1>1. c.pc \in Working /\ c.cur \in Missions /\ c.cur \in Nat /\ r \in Records /\ Sound(c.cur, r, hist, board, OnBranch, spent)
      /\ i \in DOMAIN r.history /\ ~r.history[i].closed
  BY InHand, Constants DEF Working, Owed
<1>2. r.st \notin {"requested", "aborted"} /\ ~r.skipped => r.history[i].n # r.attempt
  BY <1>1 DEF Sound, Counts
<1>3. r.st \notin Ended => ~r.skipped
  BY <1>1 DEF Sound, Tells
<1>4. CASE x = r
  BY <1>2, <1>3, <1>4 DEF Worked, Ended
<1>5. CASE x = rec[c.cur]
  <2>1. r = rec[c.cur] \/ Behind(r, rec[c.cur])
    BY AtTurn
  <2> QED BY <1>2, <1>3, <1>4, <1>5, <2>1 DEF Behind, Ended
<1>6. CASE Keeps(c, c.cur) /\ x = c.mem[c.cur]
  <2>1. c.job \in {"startup", "repair"}
    BY <1>1, <1>6 DEF Keeps, ConductorInv, AtCall
  <2>2. Behind(x, r)
    BY <1>1, <1>6, <2>1 DEF ConductorInv, Agree, r
  <2> QED BY <1>2, <2>2 DEF Behind
<1> QED BY <1>1, <1>4, <1>5, <1>6 DEF Copy, Held, r

LEMMA CloseAttemptInv == ASSUME ConductorInv, CloseAttempt PROVE ConductorInv'
<1> DEFINE t == <<c.cur, r.history[Oldest].n>>
           super == [board EXCEPT ![t].st = "superseded"]
<1>1. c.pc = "turn" /\ c.pc \in Working /\ Owed # {} /\ c.cur \in Missions /\ r \in Records /\ c \in Processes
  BY InHand DEF CloseAttempt, Working
<1>2. Oldest \in DOMAIN r.history /\ ~r.history[Oldest].closed /\ t \in Tasks /\ Oldest \in Owed
  BY <1>1, OldestOwed DEF Tasks, Owed
<1>3. CASE board[t].st = "none"
  <2>1. Put(c.cur, Closed(Oldest), At(c, "turn", Closed(Oldest)), Failed(c, Closed(Oldest)))
        /\ UNCHANGED <<chg, board, gates, git, world, hist>>
    BY <1>3 DEF CloseAttempt
  <2>2. Closed(Oldest) \in Records /\ Like(c.cur, r, Closed(Oldest), hist, board)
    BY <1>1, <1>2, <1>3, ClosedIs DEF Grows
  <2> QED BY <1>1, <2>1, <2>2, WriteStep
<1>4. CASE board[t].st # "none"
  <2> DEFINE s2 == IF c.seen[t].st = "none" THEN "none" ELSE "superseded"
             f == [c.seen EXCEPT ![t].st = s2]
  <2>1. board \in [Tasks -> Entries] /\ c.seen \in [Tasks -> Entries]
        /\ \A u \in Tasks : EntryFits(board[u]) /\ EntryFits(c.seen[u])
    BY DEF ConductorInv, Types, TypeOK, WorldFits
  <2>2. /\ board' = super \/ board' = board
        /\ \/ board' = super /\ c' = [[c EXCEPT !.pc = "tell"] EXCEPT !.seen = f]
           \/ c' = Failed(c, r)
        /\ UNCHANGED <<rec, chg, gates, git, ledger, overdue, spent, hist>> /\ faults' \in Nat
    <3>1. [c EXCEPT !.pc = "tell", !.seen[t].st = IF @ = "none" THEN @ ELSE "superseded"]
            = [[c EXCEPT !.pc = "tell"] EXCEPT !.seen = f]
      BY <1>1, <1>2, <2>1 DEF Processes
    <3>2. /\ Call(board' = super, UNCHANGED board,
                  [c EXCEPT !.pc = "tell", !.seen[t].st = IF @ = "none" THEN @ ELSE "superseded"], Failed(c, r))
          /\ UNCHANGED <<rec, chg, gates, git, world, hist>>
      BY <1>4 DEF CloseAttempt
    <3> DEFINE c2 == [[c EXCEPT !.pc = "tell"] EXCEPT !.seen = f]
    <3>3. Call(board' = super, UNCHANGED board, c2, Failed(c, r)) /\ faults \in Nat
      BY <3>1, <3>2 DEF ConductorInv, Types
    <3> HIDE DEF c2, super
    <3>4. board' = super \/ board' = board
      BY <3>3 DEF Call
    <3>5. (board' = super /\ c' = c2) \/ c' = Failed(c, r)
      BY <3>3 DEF Call
    <3>6. faults' \in Nat
      BY <3>3 DEF Call, Fault
    <3> QED BY <3>2, <3>4, <3>5, <3>6 DEF world, c2
  <2>3. /\ f \in [Tasks -> Entries] /\ \A u \in Tasks : u # t => f[u] = c.seen[u]
        /\ f[t].st # "done" /\ (f[t].st # "none" => c.seen[t].st # "none")
        /\ \A u \in Tasks : EntryFits(f[u])
    <3> DEFINE e == [c.seen[t] EXCEPT !.st = s2]
    <3>1. e \in Entries /\ e.st = s2 /\ EntryFits(e)
      <4>1. c.seen[t] \in Entries /\ s2 \in {"none", "superseded"}
        BY <1>2, <2>1
      <4> HIDE DEF s2
      <4>2. e \in Entries /\ e.st = s2
        BY <4>1 DEF Entries
      <4> QED BY <4>1, <4>2 DEF EntryFits
    <3>2. f = [c.seen EXCEPT ![t] = e] /\ (s2 # "none" => c.seen[t].st # "none") /\ s2 # "done"
      BY <2>1
    <3> HIDE DEF e, s2, f
    <3> QED BY <1>2, <2>1, <3>1, <3>2
  <2>4. /\ super \in [Tasks -> Entries] /\ \A u \in Tasks : u # t => super[u] = board[u]
        /\ super[t].st = "superseded" /\ \A u \in Tasks : EntryFits(super[u])
    <3> DEFINE e == [board[t] EXCEPT !.st = "superseded"]
    <3>1. e \in Entries /\ e.st = "superseded" /\ EntryFits(e)
      <4>1. board[t] \in Entries
        BY <1>2, <2>1
      <4>2. e \in Entries /\ e.st = "superseded"
        BY <4>1 DEF Entries
      <4> QED BY <4>2 DEF EntryFits
    <3>2. super = [board EXCEPT ![t] = e]
      BY <2>1
    <3> HIDE DEF e, super
    <3> QED BY <1>2, <2>1, <3>1, <3>2
  <2> HIDE DEF super, f, s2
  <2>5. board' \in [Tasks -> Entries] /\ (\A u \in Tasks : EntryFits(board'[u]) /\ (u # t => board'[u] = board[u])
            /\ (board'[u].st # "none" <=> board[u].st # "none"))
    BY <1>4, <2>1, <2>2, <2>4
  <2>6. Stay
    <3>1. ASSUME NEW n \in Missions, NEW x \in Records, Copy(n, x) PROVE Sound(n, x, hist', board', OnBranch', spent')
      <4>1. Sound(n, x, hist, board, OnBranch, spent) /\ hist' = hist /\ OnBranch' = OnBranch /\ spent' = spent
        BY <2>2, <3>1 DEF ConductorInv, AllSound, OnBranch
      <4>2. x.st \in Worked => x.attempt \in Attempts
        BY <4>1 DEF Sound, Posts
      <4>3. x.st \in Worked => <<n, x.attempt>> # t
        BY <1>1, <1>2, <3>1, OwedIsOld
      <4>4. x.st \in Worked => board'[<<n, x.attempt>>] = board[<<n, x.attempt>>]
        <5> HIDE DEF t
        <5> QED BY <2>5, <4>2, <4>3 DEF Tasks
      <4>5. \A a \in Attempts : board'[<<n, a>>].st # "none" => board[<<n, a>>].st # "none" \/ (a = x.attempt /\ ~GivenUp(x, a))
        <5> HIDE DEF t
        <5> QED BY <2>5 DEF Tasks
      <4>6. Sound(n, x, hist, board', OnBranch, spent)
        BY <4>1, <4>4, <4>5, BoardSound
      <4> QED BY <4>1, <4>6
    <3> QED BY <3>1 DEF Stay
  <2>7. ASSUME NEW n \in Missions, Keeps(c, n), ~Has(c, n), c.job # "abort", NEW g \in [Tasks -> Entries],
               \A u \in Tasks : u # t => g[u] = c.seen[u]
        PROVE  Reads(n, c.mem[n], g, board')
    <3>1. n # c.cur /\ Reads(n, c.mem[n], c.seen, board)
      BY <1>1, <2>7 DEF Has, ConductorInv, AllRead
    <3>2. ASSUME c.mem[n].st \in {"requested", "accepted"} PROVE <<n, c.mem[n].attempt>> \in Tasks
      <4>1. c.mem[n] \in Records /\ Copy(n, c.mem[n])
        BY <1>1, <2>7, ProcessTypes DEF Copy, Held
      <4>2. Counts(c.mem[n], spent.ops)
        BY <4>1 DEF ConductorInv, AllSound, Sound
      <4> QED BY <3>2, <4>1, <4>2, RecordTypes DEF Counts, Ended, Tasks
    <3> QED BY <2>5, <2>7, <3>1, <3>2 DEF Reads
  <2>8. CASE board' = super /\ c' = [[c EXCEPT !.pc = "tell"] EXCEPT !.seen = f]
    <3>1. /\ c' \in Processes /\ c'.pc = "tell" /\ c'.r = c.r /\ c'.cur = c.cur /\ c'.job = c.job /\ c'.mem = c.mem
          /\ c'.todo = c.todo /\ c'.busy = c.busy /\ c'.seen = f
      BY <1>1, <2>3, <2>8 DEF Processes, Steps, Working
    <3>2. Turns("tell", r)
      BY <1>1, <2>2, <3>1 DEF Turns, Working, r
    <3>3. AllRead'
      <4>1. \A u \in Tasks : f[u].st # "none" => board'[u].st # "none"
        BY <2>3, <2>5 DEF ConductorInv, AllRead
      <4>2. ASSUME NEW n \in Missions, Keeps(c', n), ~Has(c', n), c'.job # "abort" PROVE Reads(n, c'.mem[n], c'.seen, board')
        <5>1. Keeps(c, n) /\ ~Has(c, n)
          BY <1>1, <3>1, <4>2 DEF Keeps, Has, Working
        <5> QED BY <2>3, <2>7, <3>1, <4>2, <5>1
      <4>3. c.job = "pass" => Reads(c.cur, r, f, board')
        <5>1. ASSUME r.st \in {"requested", "accepted"} PROVE <<c.cur, r.attempt>> \in Tasks
          <6>1. Counts(r, spent.ops)
            BY <1>1, InHand DEF Sound
          <6> QED BY <1>1, <5>1, <6>1, RecordTypes DEF Counts, Ended, Tasks
        <5>2. c.job = "pass" => Reads(c.cur, r, c.seen, board)
          BY <1>1, AtTurn
        <5> HIDE DEF t
        <5> QED BY <2>3, <2>5, <5>1, <5>2 DEF Reads
      <4> QED BY <3>1, <4>1, <4>2, <4>3 DEF AllRead, r
    <3>4. board'[<<c.cur, r.history[Oldest].n>>].st # "none"
      BY <1>2, <2>4, <2>8
    <3>5. \A u \in Tasks : EntryFits(board'[u]) /\ EntryFits(c'.seen[u])
      BY <2>3, <2>5, <3>1
    <3>6. r = rec[c.cur] \/ (c.job = "pass" /\ Behind(r, rec[c.cur]))
      BY <1>1, AtTurn
    <3> QED BY <1>1, <2>2, <2>5, <2>6, <3>1, <3>2, <3>3, <3>4, <3>5, <3>6, BoardTurn
  <2>9. CASE c' = Failed(c, r)
    <3>1. /\ c' \in Processes /\ c'.pc = "failed" /\ c'.r = r /\ c'.cur = c.cur /\ c'.job = c.job /\ c'.mem = c.mem
          /\ c'.todo = c.todo /\ c'.busy = c.busy /\ c'.seen = c.seen
      BY <1>1, <2>9, FailedIs
    <3>2. Turns("failed", r)
      BY <1>1, <2>2, <3>1 DEF Turns, Working
    <3>3. AllRead'
      <4>1. \A u \in Tasks : c.seen[u].st # "none" => board'[u].st # "none"
        BY <2>5 DEF ConductorInv, AllRead
      <4>2. ASSUME NEW n \in Missions, Keeps(c', n), ~Has(c', n), c'.job # "abort" PROVE Reads(n, c'.mem[n], c'.seen, board')
        <5>1. Keeps(c, n) /\ ~Has(c, n)
          BY <1>1, <3>1, <4>2 DEF Keeps, Has, Working
        <5> QED BY <2>1, <2>7, <3>1, <4>2, <5>1
      <4> QED BY <3>1, <4>1, <4>2 DEF AllRead
    <3>4. \A u \in Tasks : EntryFits(board'[u]) /\ EntryFits(c'.seen[u])
      BY <2>1, <2>5, <3>1
    <3> QED BY <1>1, <2>2, <2>5, <2>6, <3>1, <3>2, <3>3, <3>4, BoardTurn
  <2> QED BY <2>2, <2>8, <2>9
<1> QED BY <1>3, <1>4

-----------------------------------------------------------------------------
(* A merge.                                                                 *)

\* While it merges, every copy of the mission is of the same integration.
LEMMA MergeCopies ==
    ASSUME ConductorInv, c.pc \in Merging
    PROVE  /\ c.pc \in Working /\ c.cur \in Missions /\ r \in Records /\ c \in Processes /\ r.st = "integrating" /\ Copy(c.cur, r)
           /\ Sound(c.cur, r, hist, board, OnBranch, spent)
           /\ \A n \in Missions : \A x \in Records : Copy(n, x) =>
                  /\ n = c.cur => x.st = "integrating" /\ x.preHead = r.preHead
                  /\ n # c.cur => x.st # "integrating"
                  /\ n # c.cur /\ x.st = "integrated" /\ ~x.skipped => <<n, x.commit>> \in ToSet(r.preHead)
           /\ c.pc = "merge" => r = rec[c.cur] /\ \A x \in Records : Copy(c.cur, x) => x.commit = r.commit
<1>1. c.pc \in Working /\ c.cur \in Missions /\ r \in Records /\ c \in Processes /\ r.st = "integrating" /\ Copy(c.cur, r)
      /\ Sound(c.cur, r, hist, board, OnBranch, spent) /\ c.cur \in Nat
  BY InHand, Constants DEF Merging, Working, ConductorInv, AtCall, r
<1>2. ASSUME NEW n \in Missions, NEW x \in Records, Copy(n, x)
      PROVE  /\ n = c.cur => x.st = "integrating" /\ x.preHead = r.preHead
             /\ n # c.cur => x.st # "integrating"
             /\ n # c.cur /\ x.st = "integrated" /\ ~x.skipped => <<n, x.commit>> \in ToSet(r.preHead)
  <2>1. n = c.cur => x.st = "integrating"
    BY <1>2 DEF ConductorInv, AtMerge
  <2>2. /\ x.st = "integrating" => c.cur = n /\ r.preHead = x.preHead
        /\ x.st = "integrated" /\ ~x.skipped /\ c.cur # n => <<n, x.commit>> \in ToSet(r.preHead)
    BY <1>1, <1>2 DEF ConductorInv, OneMerge
  <2> QED BY <2>1, <2>2
<1>3. ASSUME c.pc = "merge" PROVE r = rec[c.cur] /\ \A x \in Records : Copy(c.cur, x) => x.commit = r.commit
  <2>1. r = rec[c.cur] /\ c.job \in {"pass", "startup", "repair"}
    BY <1>3 DEF ConductorInv, Agree, AtCall, Merging, r
  <2>2. Keeps(c, c.cur) => Behind(c.mem[c.cur], r)
    BY <1>1, <2>1 DEF Keeps, ConductorInv, Agree, r
  <2> QED BY <2>1, <2>2 DEF Copy, Held, Behind, r
<1> QED BY <1>1, <1>2, <1>3

LEMMA MergingTurn ==
    ASSUME ConductorInv, c.pc \in Merging, NEW z \in Records, z = r \/ z = [r EXCEPT !.tested = <<>>],
           NEW pc2 \in {"unmerge", "suite", "reset", "unmerged", "failed"},
           c' = At(c, pc2, z) \/ (pc2 = "failed" /\ c' = Failed(c, z)),
           pc2 \in {"unmerge", "suite"} => c.pc = "merge" /\ z = r,
           git' \in [branch : Seq(Deliveries), merging : BOOLEAN, dirty : BOOLEAN], git'.dirty = git.dirty, faults' \in Nat,
           UNCHANGED <<rec, chg, board, gates, ledger, overdue, spent, hist>>,
           Stay, OnBranch' \subseteq hist.checked \cap hist.approved,
           pc2 = "suite" => <<c.cur, r.commit>> \in OnBranch',
           pc2 \in {"unmerge", "unmerged"} /\ spent.soils = 0 => \A d \in OnBranch' : d[1] # c.cur
    PROVE  ConductorInv'
<1>1. c.pc \in Working /\ c.cur \in Missions /\ r \in Records /\ c \in Processes /\ r.st = "integrating" /\ Copy(c.cur, r)
  BY MergeCopies
<1>2. z.st = "integrating" /\ z.attempt = r.attempt /\ z.commit = r.commit /\ z.preHead = r.preHead /\ z.skipped = r.skipped
  BY <1>1 DEF Records
<1>3. /\ c' \in Processes /\ c'.pc = pc2 /\ c'.r = z /\ c'.cur = c.cur /\ c'.job = c.job /\ c'.mem = c.mem
      /\ c'.todo = c.todo /\ c'.busy = c.busy /\ c'.seen = c.seen
  <2>1. pc2 \in Steps
    BY DEF Steps, Working
  <2>2. CASE c' = At(c, pc2, z)
    BY <1>1, <2>1, <2>2, AtIs
  <2>3. CASE pc2 = "failed" /\ c' = Failed(c, z)
    BY <1>1, <2>3, FailedIs
  <2> QED BY <2>2, <2>3
<1>4. Turns(pc2, z)
  BY <1>1, <1>3 DEF Turns, Working
<1>5. Makes(c.cur, z)
  BY <1>4, TurnMakes
<1>6. Types'
  <2>1. c'.r \in Records /\ c'.mem \in [Missions -> Records] /\ c'.seen \in [Tasks -> Entries]
        /\ c'.cur \in 0 .. N /\ c'.todo \in SUBSET Missions
    BY <1>3, ProcessTypes
  <2> QED BY <1>3, <2>1 DEF ConductorInv, Types, TypeOK
<1>7. AllSound'
  <2>1. Sound(c.cur, r, hist', board', OnBranch', spent')
    BY <1>1 DEF Stay
  <2>2. Like(c.cur, r, z, hist', board')
    <3>1. ToSet(z.tested) \subseteq hist'.green
      <4>1. ToSet(<<>>) = {}
        BY DEF ToSet
      <4>2. z.tested = r.tested \/ z.tested = <<>>
        BY <1>1 DEF Records
      <4> QED BY <2>1, <4>1, <4>2 DEF Sound, Tells
    <3>2. z.history = r.history /\ z.subject = r.subject /\ z.rejections = r.rejections /\ z.escalated = r.escalated
      BY <1>1 DEF Records
    <3> QED BY <1>1, <1>2, <3>1, <3>2, LikeFields
  <2>3. Sound(c.cur, z, hist', board', OnBranch', spent')
    BY <1>1, <2>1, <2>2, LikeSound
  <2> QED BY <1>1, <1>5, <2>3, SoundStep
<1>8. OneMerge'
  <2>1. Follows(r, z)
    BY <1>1, <1>2 DEF Follows
  <2> QED BY <1>1, <1>5, <2>1, MergeFollows DEF ConductorInv
<1>9. Agree'
  <2>1. c.job \in {"startup", "repair"} => Behind(c.mem[c.cur], z)
    <3>1. c.job \in {"startup", "repair"} => Behind(c.mem[c.cur], r)
      BY <1>1 DEF ConductorInv, Agree, r
    <3> QED BY <1>1, <1>2, <3>1 DEF Behind
  <2>2. pc2 \in {"unmerge", "suite"} => z = rec'[c.cur]
    BY MergeCopies
  <2> QED BY <1>4, <2>1, <2>2, TurnAgrees
<1>10. AtCall'
  BY <1>1, <1>2, <1>3 DEF ConductorInv, AtCall, Merging, Working
<1>11. AtMerge'
  <2>1. ASSUME NEW x \in Records, Held(c'.cur, x, rec', c') PROVE x.st = "integrating"
    BY <1>1, <1>2, <1>3, <1>5, <2>1, MergeCopies DEF Makes
  <2>2. ~(c.job = "pass" /\ chg.st = "active" /\ ~c.busy)
    BY <1>1 DEF ConductorInv, AtMerge
  <2> QED BY <1>2, <1>3, <2>1, <2>2 DEF AtMerge, Copy
<1>12. AllRead'
  <2>1. Reads(c.cur, z, c.seen, board)
    BY <1>2 DEF Reads
  <2> QED BY <1>3, <1>4, <2>1, TurnReads
<1>13. WorldFits'
  BY <1>3 DEF ConductorInv, WorldFits
<1>14. MergedWasReviewed'
  BY DEF MergedWasReviewed
<1>15. SignalsHonest'
  BY <1>6, <1>7, <1>13, SignalsAre, SameHistory
<1> QED BY <1>6, <1>7, <1>8, <1>9, <1>10, <1>11, <1>12, <1>13, <1>14, <1>15 DEF ConductorInv

\* Where the branch is what it was.
LEMMA BranchKept ==
    ASSUME ConductorInv, git'.branch = git.branch, UNCHANGED <<board, spent, hist>>
    PROVE  Stay /\ OnBranch' = OnBranch /\ OnBranch' \subseteq hist.checked \cap hist.approved
<1>1. Stay
  BY CalmStays, SameHistory
<1> QED BY <1>1 DEF OnBranch, ConductorInv, MergedWasReviewed

LEMMA MergeInv == ASSUME ConductorInv, Merge PROVE ConductorInv'
<1> DEFINE d == <<c.cur, r.commit>>
           head == IF d \in ToSet(git.branch) THEN git.branch ELSE Append(git.branch, d)
<1>1. /\ c.pc = "merge" /\ c.pc \in Merging /\ r \in Records /\ c.cur \in Missions /\ r.st = "integrating"
      /\ Sound(c.cur, r, hist, board, OnBranch, spent)
  BY MergeCopies DEF Merge, Merging
<1>2. git \in [branch : Seq(Deliveries), merging : BOOLEAN, dirty : BOOLEAN] /\ faults \in Nat
  BY DEF ConductorInv, Types, TypeOK
<1>3. d \in Deliveries /\ d \in hist.checked \cap hist.approved
  BY <1>1 DEF Sound, Tells, Worked, Records, Deliveries
<1>4. head \in Seq(Deliveries) /\ ToSet(head) = OnBranch \cup {d}
  BY <1>2, <1>3, AppendIs DEF OnBranch
<1>5. /\ UNCHANGED <<rec, chg, board, gates, ledger, overdue, spent, hist>> /\ faults' \in Nat
      /\ \/ git' = [git EXCEPT !.branch = head] /\ (c' = At(c, "suite", r) \/ c' = Failed(c, r))
         \/ git' = git /\ c' = Failed(c, r)
         \/ git' = [git EXCEPT !.merging = TRUE] /\ c' = At(c, "unmerge", r)
  BY <1>2 DEF Merge, Call, Fault, redis, world
<1> HIDE DEF head
<1>6. CASE git' = [git EXCEPT !.branch = head] /\ (c' = At(c, "suite", r) \/ c' = Failed(c, r))
  <2>1. /\ git' \in [branch : Seq(Deliveries), merging : BOOLEAN, dirty : BOOLEAN] /\ git'.dirty = git.dirty
        /\ OnBranch' = OnBranch \cup {d}
    BY <1>2, <1>4, <1>6 DEF OnBranch
  <2>2. Stay
    <3>1. ASSUME NEW n \in Missions, NEW x \in Records, Copy(n, x) PROVE Sound(n, x, hist', board', OnBranch', spent')
      <4>1. Sound(n, x, hist, board, OnBranch, spent) /\ hist' = hist /\ board' = board /\ spent' = spent
        BY <1>5, <3>1 DEF ConductorInv, AllSound
      <4>2. n = c.cur => x.st = "integrating" /\ x.commit = r.commit
        BY <1>1, <3>1, MergeCopies
      <4>3. /\ x.st = "integrated" /\ ~x.skipped => <<n, x.commit>> \in OnBranch'
            /\ x.st = "integrating" => ToSet(x.preHead) \subseteq OnBranch'
        BY <2>1, <4>1 DEF Sound, Lands
      <4>4. \A e \in OnBranch' : e \in OnBranch \/ (e[1] = n => x.st \in {"integrating"} \cup Ended /\ x.commit = e[2])
        BY <2>1, <4>2
      <4> QED BY <4>1, <4>3, <4>4, BranchSound
    <3> QED BY <3>1 DEF Stay
  <2>3. OnBranch' \subseteq hist.checked \cap hist.approved
    BY <1>3, <2>1 DEF ConductorInv, MergedWasReviewed
  <2> HIDE DEF d
  <2>4. CASE c' = At(c, "suite", r)
    BY <1>1, <1>5, <2>1, <2>2, <2>3, <2>4, MergingTurn DEF d
  <2>5. CASE c' = Failed(c, r)
    BY <1>1, <1>5, <2>1, <2>2, <2>3, <2>5, MergingTurn
  <2> QED BY <1>6, <2>4, <2>5
<1>7. CASE git' = git /\ c' = Failed(c, r)
  BY <1>1, <1>2, <1>5, <1>7, BranchKept, MergingTurn
<1>8. CASE git' = [git EXCEPT !.merging = TRUE] /\ c' = At(c, "unmerge", r)
  <2>1. /\ git' \in [branch : Seq(Deliveries), merging : BOOLEAN, dirty : BOOLEAN] /\ git'.dirty = git.dirty
        /\ git'.branch = git.branch
    BY <1>2, <1>8
  <2>2. spent.soils = 0 => \A e \in OnBranch : e[1] # c.cur
    BY <1>1 DEF ConductorInv, AtMerge
  <2> QED BY <1>1, <1>5, <1>8, <2>1, <2>2, BranchKept, MergingTurn
<1> QED BY <1>5, <1>6, <1>7, <1>8

LEMMA AbortMergeInv == ASSUME ConductorInv, AbortMerge PROVE ConductorInv'
<1>1. c.pc = "unmerge" /\ c.pc \in Merging /\ r \in Records
  BY MergeCopies DEF AbortMerge, Merging
<1>2. git \in [branch : Seq(Deliveries), merging : BOOLEAN, dirty : BOOLEAN] /\ faults \in Nat
  BY DEF ConductorInv, Types, TypeOK
<1>3. /\ UNCHANGED <<rec, chg, board, gates, ledger, overdue, spent, hist>> /\ faults' \in Nat
      /\ git' = [git EXCEPT !.merging = FALSE] \/ git' = git
      /\ c' = At(c, "unmerged", r) \/ c' = Failed(c, r)
  BY <1>2 DEF AbortMerge, Call, Fault, redis, world
<1>4. /\ git' \in [branch : Seq(Deliveries), merging : BOOLEAN, dirty : BOOLEAN] /\ git'.dirty = git.dirty
      /\ git'.branch = git.branch
  BY <1>2, <1>3
<1>5. spent.soils = 0 => \A e \in OnBranch : e[1] # c.cur
  BY <1>1 DEF ConductorInv, AtMerge
<1>6. CASE c' = At(c, "unmerged", r)
  BY <1>1, <1>3, <1>4, <1>5, <1>6, BranchKept, MergingTurn
<1>7. CASE c' = Failed(c, r)
  BY <1>1, <1>3, <1>4, <1>7, BranchKept, MergingTurn
<1> QED BY <1>3, <1>6, <1>7

LEMMA SuiteRedInv == ASSUME ConductorInv, SuiteRed PROVE ConductorInv'
<1> DEFINE z == [r EXCEPT !.tested = <<>>]
<1>1. c.pc = "suite" /\ c.pc \in Merging /\ r \in Records
  BY MergeCopies DEF SuiteRed, Merging
<1>2. git \in [branch : Seq(Deliveries), merging : BOOLEAN, dirty : BOOLEAN] /\ faults \in Nat
  BY DEF ConductorInv, Types, TypeOK
<1>3. /\ UNCHANGED <<rec, chg, board, gates, ledger, overdue, spent, hist, git>> /\ faults' \in Nat
      /\ c' = At(c, "reset", z)
  BY <1>2 DEF SuiteRed, redis, world
<1>4. z \in Records
  <2>1. <<>> \in Seq(Deliveries)
    OBVIOUS
  <2> QED BY <1>1, <2>1 DEF Records
<1>5. c.pc \in Merging /\ (z = r \/ z = [r EXCEPT !.tested = <<>>])
  BY <1>1
<1> HIDE DEF z
<1> QED BY <1>1, <1>2, <1>3, <1>4, <1>5, BranchKept, MergingTurn

LEMMA ResetInv == ASSUME ConductorInv, Reset PROVE ConductorInv'
<1> DEFINE head == r.preHead
<1>1. /\ c.pc = "reset" /\ c.pc \in Merging /\ r \in Records /\ c.cur \in Missions /\ r.st = "integrating"
      /\ Sound(c.cur, r, hist, board, OnBranch, spent)
  BY MergeCopies DEF Reset, Merging
<1>2. git \in [branch : Seq(Deliveries), merging : BOOLEAN, dirty : BOOLEAN] /\ faults \in Nat
  BY DEF ConductorInv, Types, TypeOK
<1>3. /\ head \in Seq(Deliveries) /\ ToSet(head) \subseteq OnBranch /\ ToSet(head) \subseteq hist.checked \cap hist.approved
      /\ spent.soils = 0 => \A e \in ToSet(head) : e[1] # c.cur
  BY <1>1, RecordTypes DEF Sound, Lands, Tells
<1>4. /\ UNCHANGED <<rec, chg, board, gates, ledger, overdue, spent, hist>> /\ faults' \in Nat
      /\ \/ git' = [git EXCEPT !.branch = head] /\ (c' = At(c, "unmerged", r) \/ c' = Failed(c, r))
         \/ git' = git /\ c' = Failed(c, r)
  BY <1>2 DEF Reset, Call, Fault, redis, world
<1>5. CASE git' = [git EXCEPT !.branch = head] /\ (c' = At(c, "unmerged", r) \/ c' = Failed(c, r))
  <2> HIDE DEF head
  <2>1. /\ git' \in [branch : Seq(Deliveries), merging : BOOLEAN, dirty : BOOLEAN] /\ git'.dirty = git.dirty
        /\ OnBranch' = ToSet(head)
    BY <1>2, <1>3, <1>5 DEF OnBranch
  <2>2. Stay
    <3>1. ASSUME NEW n \in Missions, NEW x \in Records, Copy(n, x) PROVE Sound(n, x, hist', board', OnBranch', spent')
      <4>1. Sound(n, x, hist, board, OnBranch, spent) /\ hist' = hist /\ board' = board /\ spent' = spent
        BY <1>4, <3>1 DEF ConductorInv, AllSound
      <4>2. /\ n = c.cur => x.st = "integrating" /\ x.preHead = head
            /\ n # c.cur => x.st # "integrating"
            /\ n # c.cur /\ x.st = "integrated" /\ ~x.skipped => <<n, x.commit>> \in ToSet(head)
        BY <1>1, <3>1, MergeCopies DEF head
      <4>3. /\ x.st = "integrated" /\ ~x.skipped => <<n, x.commit>> \in OnBranch'
            /\ x.st = "integrating" => ToSet(x.preHead) \subseteq OnBranch'
        BY <2>1, <4>2
      <4>4. \A e \in OnBranch' : e \in OnBranch \/ (e[1] = n => x.st \in {"integrating"} \cup Ended /\ x.commit = e[2])
        BY <1>3, <2>1
      <4> QED BY <4>1, <4>3, <4>4, BranchSound
    <3> QED BY <3>1 DEF Stay
  <2>3. CASE c' = At(c, "unmerged", r)
    BY <1>1, <1>3, <1>4, <2>1, <2>2, <2>3, MergingTurn
  <2>4. CASE c' = Failed(c, r)
    BY <1>1, <1>3, <1>4, <2>1, <2>2, <2>4, MergingTurn
  <2> QED BY <1>5, <2>3, <2>4
<1>6. CASE git' = git /\ c' = Failed(c, r)
  BY <1>1, <1>2, <1>4, <1>6, BranchKept, MergingTurn
<1> QED BY <1>4, <1>5, <1>6

LEMMA IntegrateInv == ASSUME ConductorInv, Integrate PROVE ConductorInv'
<1> DEFINE w == [r EXCEPT !.preHead = git.branch, !.tested = <<>>]
           z == Transition(w, "integrate_started")
           k == [c EXCEPT !.busy = TRUE]
<1>1. /\ c.pc = "turn" /\ c.job = "pass" /\ c.pc \in Working /\ c.cur \in Missions /\ r \in Records /\ chg.st = "active"
      /\ Sound(c.cur, r, hist, board, OnBranch, spent) /\ r.st = "approved" /\ ~c.busy /\ c \in Processes /\ c.cur \in Nat
  BY AtAdvance, InHand, Constants DEF Integrate
<1>2. /\ git.branch \in Seq(Deliveries) /\ spent.ops \in Nat /\ rec \in [Missions -> Records] /\ faults \in Nat
      /\ OnBranch \subseteq hist.checked \cap hist.approved
  BY DEF ConductorInv, Types, TypeOK, MergedWasReviewed
<1>3. w \in Records /\ Sound(c.cur, w, hist, board, OnBranch, spent) /\ w.st = "approved" /\ w.preHead = git.branch
  <2> DEFINE head == git.branch
  <2>1. head \in Seq(Deliveries) /\ <<>> \in Seq(Deliveries) /\ OnBranch = ToSet(head)
        /\ w = [[r EXCEPT !.preHead = head] EXCEPT !.tested = <<>>]
    BY <1>1, <1>2 DEF OnBranch, Records
  <2> HIDE DEF head, w
  <2>2. /\ w \in Records /\ w.st = r.st /\ w.attempt = r.attempt /\ w.rejections = r.rejections /\ w.commit = r.commit
        /\ w.subject = r.subject /\ w.skipped = r.skipped /\ w.history = r.history /\ w.escalated = r.escalated
        /\ w.preHead = head /\ w.tested = <<>>
    BY <1>1, <2>1 DEF Records
  <2>3. OnBranch \subseteq hist.checked /\ OnBranch \subseteq hist.approved /\ ToSet(w.preHead) = OnBranch
    BY <1>2, <2>1, <2>2
  <2>4. Sound(c.cur, w, hist, board, OnBranch, spent)
    BY <1>1, <2>2, <2>3, PreparedSound
  <2> QED BY <1>1, <2>2, <2>4 DEF head
<1> HIDE DEF w
<1>4. z \in Records /\ Sound(c.cur, z, hist, board, OnBranch, spent) /\ z.st = "integrating" /\ z.preHead = git.branch
  <2>1. "integrate_started" \in Events /\ "integrate_started" \notin Life!Rejecting
    BY DEF Events, Life!Rejecting
  <2>2. z.st = Step(w, "integrate_started") /\ Step(w, "integrate_started") = "integrating" /\ z.preHead = w.preHead
    BY <1>3, <2>1, Fields, Table
  <2>3. Rightly(c.cur, w, "integrate_started", hist, board, OnBranch, spent)
    BY <1>3, <2>1 DEF Rightly, Life!From, OnBranch
  <2> QED BY <1>2, <1>3, <2>1, <2>2, <2>3, EventSound
<1>5. /\ UNCHANGED <<chg, board, gates, git, ledger, overdue, spent, hist>> /\ faults' \in Nat
      /\ \/ rec' = [rec EXCEPT ![c.cur] = z] /\ c' = At(k, "merge", z)
         \/ (rec' = rec \/ rec' = [rec EXCEPT ![c.cur] = z]) /\ c' = Failed(k, z)
  BY <1>2 DEF Integrate, Put, Fault, world, w
<1> HIDE DEF z
<1>6. k \in Processes /\ k.cur = c.cur /\ k.job = "pass" /\ k.mem = c.mem /\ k.todo = c.todo /\ k.seen = c.seen /\ k.busy = TRUE
  BY <1>1 DEF Processes
<1> HIDE DEF k
<1> DEFINE pc2 == c'.pc
<1>7. /\ c' \in Processes /\ c'.pc \in {"merge", "failed"} /\ c'.r = z /\ c'.cur = c.cur /\ c'.job = "pass" /\ c'.mem = c.mem
      /\ c'.todo = c.todo /\ c'.busy = TRUE /\ c'.seen = c.seen
      /\ c'.pc = "merge" => rec' = [rec EXCEPT ![c.cur] = z]
  <2>1. CASE rec' = [rec EXCEPT ![c.cur] = z] /\ c' = At(k, "merge", z)
    <3>1. "merge" \in Steps
      BY DEF Steps, Working
    <3> QED BY <1>4, <1>6, <2>1, <3>1, AtIs
  <2>2. CASE c' = Failed(k, z)
    BY <1>4, <1>6, <2>2, FailedIs
  <2> QED BY <1>5, <2>1, <2>2
<1>8. Turns(pc2, z)
  BY <1>1, <1>4, <1>5, <1>7 DEF Turns, Working
<1>9. Makes(c.cur, z)
  BY <1>8, TurnMakes
<1>10. Types'
  <2>1. c'.r \in Records /\ c'.mem \in [Missions -> Records] /\ c'.seen \in [Tasks -> Entries]
        /\ c'.cur \in 0 .. N /\ c'.todo \in SUBSET Missions
    BY <1>7, ProcessTypes
  <2>2. rec' \in [Missions -> Records]
    BY <1>1, <1>2, <1>4, <1>5
  <2> QED BY <1>5, <1>7, <2>1, <2>2 DEF ConductorInv, Types, TypeOK
<1>11. AllSound'
  <2>1. Stay /\ OnBranch' = OnBranch
    BY <1>5, BranchKept
  <2> QED BY <1>1, <1>4, <1>5, <1>9, <2>1, SoundStep
<1>12. OneMerge'
  <2>1. \A n \in Missions : \A x \in Records : Copy(n, x) => x.st # "integrating"
    BY <1>1 DEF ConductorInv, AtMerge
  <2> QED BY <1>1, <1>4, <1>9, <2>1, MergeBegins DEF OnBranch
<1>13. Agree'
  <2>1. pc2 = "merge" => z = rec'[c.cur]
    BY <1>1, <1>2, <1>7
  <2> QED BY <1>1, <1>7, <1>8, <2>1, TurnAgrees
<1>14. AtCall'
  BY <1>1, <1>4, <1>7 DEF ConductorInv, AtCall, Merging, Working
<1>15. AtMerge'
  <2>1. ASSUME c'.pc = "merge", NEW x \in Records, Held(c'.cur, x, rec', c') PROVE x.st = "integrating"
    <3>1. ~Keeps(c', c'.cur)
      BY <1>1, <1>7 DEF Keeps
    <3> QED BY <1>1, <1>2, <1>4, <1>7, <2>1, <3>1 DEF Held
  <2>2. spent.soils = 0 => \A d \in OnBranch : d[1] # c.cur
    BY <1>1 DEF Sound, Lands, Ended
  <2>3. OnBranch' = OnBranch
    BY <1>5 DEF OnBranch
  <2> QED BY <1>5, <1>7, <2>1, <2>2, <2>3 DEF AtMerge, Copy, Merging
<1>16. AllRead'
  <2>1. Reads(c.cur, z, c.seen, board)
    BY <1>4 DEF Reads
  <2> QED BY <1>5, <1>7, <1>8, <2>1, TurnReads
<1>17. WorldFits'
  BY <1>5, <1>7 DEF ConductorInv, WorldFits
<1>18. MergedWasReviewed'
  BY <1>5 DEF ConductorInv, MergedWasReviewed, OnBranch
<1>19. SignalsHonest'
  BY <1>5, <1>10, <1>11, <1>17, SignalsAre, SameHistory
<1> QED BY <1>10, <1>11, <1>12, <1>13, <1>14, <1>15, <1>16, <1>17, <1>18, <1>19 DEF ConductorInv

-----------------------------------------------------------------------------
(* A step that leaves the board alone: what is left to show of it is how    *)
(* the copies agree.                                                        *)

Mild ==
    /\ c' \in Processes /\ rec' \in [Missions -> Records] /\ gates' \in SUBSET Tasks /\ faults' \in Nat
    /\ chg' \in [st : {"active", "aborted"}, complete : BOOLEAN, failedHeads : SUBSET Seq(Deliveries), dirtyTold : BOOLEAN]
    /\ git' \in [branch : Seq(Deliveries), merging : BOOLEAN, dirty : BOOLEAN] /\ (git'.dirty => spent'.soils # 0)
    /\ spent' \in [{"ops", "crashes", "verdicts", "soils"} -> Nat] /\ spent'.ops <= MaxOps
    /\ hist' \in Histories /\ Grows(hist, hist') /\ hist'.completed <= 1 /\ (hist'.completed = 1 => chg'.complete)
    /\ \A m \in Missions : hist'.noted[m] <= 1
    /\ \A t \in Tasks : EntryFits(c'.seen[t])
    /\ UNCHANGED <<board, ledger, overdue>>
    /\ Stay /\ OnBranch' \subseteq hist'.checked \cap hist'.approved

LEMMA MildInv ==
    ASSUME ConductorInv, Mild, NEW m \in Missions, NEW z \in Records, Makes(m, z), NEW w \in Records, Copy(m, w),
           Follows(w, z), Sound(m, z, hist', board', OnBranch', spent'), Agree', AtCall', AtMerge', AllRead'
    PROVE  ConductorInv'
<1>1. Types'
  <2>1. c'.r \in Records /\ c'.mem \in [Missions -> Records] /\ c'.seen \in [Tasks -> Entries]
        /\ c'.cur \in 0 .. N /\ c'.todo \in SUBSET Missions
    BY ProcessTypes DEF Mild
  <2> QED BY <2>1 DEF Mild, ConductorInv, Types, TypeOK
<1>2. AllSound'
  BY SoundStep DEF Mild
<1>3. OneMerge'
  BY MergeFollows DEF ConductorInv
<1>4. WorldFits'
  BY DEF Mild, ConductorInv, WorldFits, Grows
<1>5. MergedWasReviewed'
  BY DEF Mild, MergedWasReviewed
<1>6. SignalsHonest'
  BY <1>1, <1>2, <1>4, SignalsAre DEF Mild
<1> QED BY <1>1, <1>2, <1>3, <1>4, <1>5, <1>6 DEF ConductorInv

\* The branch is as it was, and the events of a history, of commands and of soils go on.
Calm ==
    /\ Mild /\ git'.branch = git.branch
    /\ spent'.ops = spent.ops \/ spent'.ops = spent.ops + 1
    /\ spent'.soils = 0 => spent.soils = 0

LEMMA CalmIs ==
    ASSUME ConductorInv, Calm
    PROVE  Mild /\ Stay /\ OnBranch' = OnBranch /\ board' = board
BY DEF Calm, Mild, OnBranch

LEMMA CalmInv ==
    ASSUME ConductorInv, Calm, NEW m \in Missions, NEW z \in Records, Makes(m, z), NEW w \in Records, Copy(m, w),
           Follows(w, z), Sound(m, z, hist', board, OnBranch, spent'), Agree', AtCall', AtMerge', AllRead'
    PROVE  ConductorInv'
<1>1. Sound(m, z, hist', board', OnBranch', spent') /\ Mild
  BY CalmIs
<1> QED BY <1>1, MildInv

LEMMA FirstIs ==
    ASSUME ConductorInv
    PROVE  1 \in Missions /\ rec[1] \in Records /\ Copy(1, rec[1])
<1>1. 1 \in Missions
  BY ConductorAssumption DEF Missions
<1>2. rec \in [Missions -> Records]
  BY DEF ConductorInv, Types, TypeOK
<1> QED BY <1>1, <1>2 DEF Copy, Held

\* Where no record is written but perhaps one that was in a copy already.
LEMMA CalmOld ==
    ASSUME ConductorInv, Calm, \A n \in Missions : \A x \in Records : Held(n, x, rec', c') => Copy(n, x),
           Agree', AtCall', AtMerge', AllRead'
    PROVE  ConductorInv'
<1>1. 1 \in Missions /\ rec[1] \in Records /\ Copy(1, rec[1])
  BY FirstIs
<1>2. Makes(1, rec[1]) /\ Follows(rec[1], rec[1])
  BY DEF Makes, Follows
<1>3. Sound(1, rec[1], hist', board, OnBranch, spent')
  BY <1>1, CalmIs DEF Stay
<1> QED BY <1>1, <1>2, <1>3, CalmInv

\* What is calm: nothing changes but rec, c and the faults.
LEMMA CalmAre ==
    ASSUME ConductorInv, c' \in Processes, rec' \in [Missions -> Records], faults' \in Nat,
           \A t \in Tasks : EntryFits(c'.seen[t]),
           UNCHANGED <<chg, board, gates, git, ledger, overdue, spent, hist>>
    PROVE  Calm
<1>1. Stay /\ OnBranch' \subseteq hist'.checked \cap hist'.approved
  BY BranchKept
<1> QED BY <1>1, SameHistory DEF Calm, Mild, ConductorInv, Types, TypeOK, WorldFits

-----------------------------------------------------------------------------
(* Out of the turn of a mission, in a pass.                                 *)

Onwards(z) ==
    /\ c' \in Processes /\ c'.job = "pass"
    /\ \/ /\ c'.pc = "late" /\ c'.cur = c.cur /\ c'.r = z
          /\ c'.seen = c.seen /\ c'.busy = c.busy /\ \A n \in Missions : n > c.cur => c'.mem[n] = c.mem[n]
       \/ /\ c'.pc = "turn" /\ c'.cur = c.cur + 1 /\ c'.cur \in Missions /\ c'.r = c.mem[c'.cur]
          /\ c'.seen = c.seen /\ c'.busy = c.busy /\ \A n \in Missions : n > c.cur => c'.mem[n] = c.mem[n]
       \/ c'.pc \in {"idle", "complete"} /\ \A t \in Tasks : c'.seen[t] = c.seen[t] \/ c'.seen[t].st = "none"

LEMMA OnwardsInv ==
    ASSUME ConductorInv, c.pc \in Working, c.job = "pass", NEW z \in Records, Onwards(z), Calm, chg'.st = chg.st,
           rec' = rec \/ rec' = [rec EXCEPT ![c.cur] = z], Follows(r, z), Sound(c.cur, z, hist', board, OnBranch, spent')
    PROVE  ConductorInv'
<1>1. c.cur \in Missions /\ c.cur \in Nat /\ Missions \subseteq Nat /\ r \in Records /\ Copy(c.cur, r) /\ rec \in [Missions -> Records]
  BY InHand, Constants DEF ConductorInv, Types, TypeOK
<1>2. \A n \in Missions : (n # c.cur => rec'[n] = rec[n]) /\ (rec'[n] = rec[n] \/ (n = c.cur /\ rec'[n] = z))
  BY <1>1
<1>3. ASSUME NEW n \in Missions
      PROVE  /\ Keeps(c', n) => Keeps(c, n) /\ ~Has(c, n) /\ n > c.cur /\ c'.mem[n] = c.mem[n]
             /\ Has(c', n) => \/ n = c.cur /\ c'.r = z /\ c'.pc = "late"
                              \/ n = c'.cur /\ c'.pc = "turn" /\ c'.r = c.mem[n] /\ Keeps(c, n) /\ ~Has(c, n) /\ n # c.cur
  BY <1>1 DEF Onwards, Keeps, Has, Working
<1>4. Makes(c.cur, z)
  BY <1>2, <1>3 DEF Makes, Held, Copy
<1>5. Agree'
  <2>1. ASSUME NEW n \in Missions, Keeps(c, n), n # c.cur
        PROVE  c.mem[n] = rec'[n] \/ Behind(c.mem[n], rec'[n])
    BY <1>2, <2>1 DEF ConductorInv, Agree
  <2>2. c'.pc \in Working => c'.cur \in Missions
    BY <1>1 DEF Onwards, Working
  <2>3. c'.pc = "turn" => c'.r = rec'[c'.cur] \/ Behind(c'.r, rec'[c'.cur])
    BY <1>3, <2>1, <2>2 DEF Has, Working, Onwards
  <2>4. \A n \in Missions : Keeps(c', n) => c'.mem[n] = rec'[n] \/ Behind(c'.mem[n], rec'[n])
    BY <1>1, <1>3, <2>1
  <2> QED BY <2>3, <2>4 DEF Agree, Onwards
<1>6. AtCall'
  BY <1>1 DEF AtCall, Onwards, Working, Merging
<1>7. AtMerge'
  <2>1. c'.pc \notin Merging
    BY DEF Onwards, Merging
  <2>2. ASSUME chg'.st = "active", c'.pc \in Working, ~c'.busy, NEW n \in Missions, NEW x \in Records, Held(n, x, rec', c')
        PROVE  x.st # "integrating"
    <3>1. ~c.busy
      BY <2>2 DEF Onwards, Working
    <3>2. \A n1 \in Missions : \A y \in Records : Copy(n1, y) => y.st # "integrating"
      BY <2>2, <3>1 DEF ConductorInv, AtMerge
    <3>3. Copy(n, x) \/ x = z
      BY <1>4, <2>2 DEF Makes
    <3> QED BY <1>1, <3>2, <3>3 DEF Follows
  <2> QED BY <2>1, <2>2 DEF AtMerge, Merging, Copy
<1>8. AllRead'
  <2>1. board' = board
    BY CalmIs
  <2>2. \A t \in Tasks : c'.seen[t].st # "none" => board[t].st # "none"
    BY DEF Onwards, ConductorInv, AllRead
  <2>3. ASSUME NEW n \in Missions, Keeps(c, n), ~Has(c, n) PROVE Reads(n, c.mem[n], c.seen, board)
    BY <2>3 DEF ConductorInv, AllRead
  <2>4. ASSUME NEW n \in Missions, Keeps(c', n), ~Has(c', n) PROVE Reads(n, c'.mem[n], c'.seen, board)
    <3>1. c'.pc \in Working
      BY <2>4 DEF Keeps, Onwards
    <3>2. c'.seen = c.seen
      BY <3>1 DEF Onwards, Working
    <3> QED BY <1>3, <2>3, <2>4, <3>2
  <2>5. ASSUME c'.pc \in Working \ {"failed", "late"} PROVE Reads(c'.cur, c'.r, c'.seen, board)
    <3>1. c'.pc = "turn" /\ c'.cur \in Missions /\ c'.seen = c.seen
      BY <2>5 DEF Onwards, Working
    <3>2. Has(c', c'.cur)
      BY <2>5 DEF Has
    <3> QED BY <1>3, <2>3, <3>1, <3>2
  <2> QED BY <2>1, <2>2, <2>4, <2>5 DEF AllRead
<1> QED BY <1>1, <1>4, <1>5, <1>6, <1>7, <1>8, CalmInv

\* The next mission's turn, or the end of the pass.
Passing(k) ==
    /\ k \in Processes /\ k.job = "pass" /\ k.cur = c.cur /\ k.seen = c.seen /\ k.busy = c.busy
    /\ \A n \in Missions : n > c.cur => k.mem[n] = c.mem[n]

LEMMA OnwardIs ==
    ASSUME ConductorInv, c.pc \in Working, NEW k, Passing(k), c' = Onward(k), NEW z
    PROVE  Onwards(z)
<1>1. k \in Processes /\ k.cur \in Missions /\ k.cur \in Nat /\ N \in Nat /\ c.cur = k.cur
  BY InHand, Constants DEF Passing
<1>2. CASE k.cur < N
  <2> DEFINE j == k.cur + 1
  <2>1. j \in Missions /\ j \in 0 .. N /\ j > k.cur /\ k.mem[j] \in Records
    BY <1>1, <1>2, ProcessTypes DEF Missions
  <2>2. c' = [[[k EXCEPT !.pc = "turn"] EXCEPT !.cur = j] EXCEPT !.r = k.mem[j]]
    BY <1>1, <1>2 DEF Onward, Processes
  <2> DEFINE k1 == [k EXCEPT !.pc = "turn"]
  <2>3. k1 \in Processes /\ k1.pc = "turn" /\ k1.job = k.job /\ k1.mem = k.mem /\ k1.seen = k.seen /\ k1.busy = k.busy
    BY <1>1 DEF Processes, Steps, Working
  <2> HIDE DEF k1, j
  <2>4. /\ c' \in Processes /\ c'.pc = "turn" /\ c'.job = k.job /\ c'.mem = k.mem /\ c'.seen = k.seen /\ c'.busy = k.busy
        /\ c'.cur = j /\ c'.r = k.mem[j]
    BY <2>1, <2>2, <2>3 DEF Processes, k1
  <2> QED BY <1>1, <2>1, <2>4 DEF Onwards, Passing, j
<1>3. CASE ~(k.cur < N) /\ c' = Idle
  <2>1. Idle \in Processes /\ Idle.pc = "idle" /\ Idle.job = "pass" /\ \A t \in Tasks : Idle.seen[t].st = "none"
    BY AtRest DEF Idle, Off
  <2> QED BY <1>3, <2>1 DEF Onwards
<1>4. CASE ~(k.cur < N) /\ c' # Idle
  <2>1. c' = [[k EXCEPT !.pc = "complete"] EXCEPT !.r = New]
    BY <1>1, <1>4 DEF Onward, Processes
  <2>2. New \in Records
    BY NewIs
  <2> HIDE DEF New
  <2>3. c' \in Processes /\ c'.pc = "complete" /\ c'.job = k.job /\ c'.seen = k.seen
    BY <1>1, <2>1, <2>2 DEF Processes, Steps, Resting
  <2> QED BY <2>3 DEF Onwards, Passing
<1> QED BY <1>2, <1>3, <1>4

LEMMA LeaveIs ==
    ASSUME ConductorInv, c.pc \in Working, c.job = "pass", NEW z \in Records, c' = Leave(c, z)
    PROVE  Onwards(z)
<1>1. c \in Processes /\ c.cur \in Missions /\ c.cur \in Nat /\ Missions \subseteq Nat
  BY InHand, Constants
<1> DEFINE f == [c.mem EXCEPT ![c.cur] = z]
           k1 == [c EXCEPT !.pc = "late"]
           k2 == [[k1 EXCEPT !.r = z] EXCEPT !.mem = f]
           k3 == [c EXCEPT !.pc = "late", !.r = z, !.mem[c.cur] = z]
<1>2. f \in [Missions -> Records] /\ \A n \in Missions : n > c.cur => f[n] = c.mem[n]
  BY <1>1, ProcessTypes
<1>3. k3 = k2
  BY <1>1 DEF Processes
<1>4. k1 \in Processes /\ k1.pc = "late" /\ k1.job = c.job /\ k1.cur = c.cur /\ k1.seen = c.seen /\ k1.busy = c.busy
  BY <1>1 DEF Processes, Steps, Working
<1> HIDE DEF f, k1
<1>5. /\ k2 \in Processes /\ k2.pc = "late" /\ k2.job = c.job /\ k2.cur = c.cur /\ k2.seen = c.seen /\ k2.busy = c.busy
      /\ k2.r = z /\ k2.mem = f
  BY <1>2, <1>4 DEF Processes
<1>6. c' = Onward(k2) \/ c' = k2
  BY <1>3 DEF Leave
<1> HIDE DEF k2
<1>7. Passing(k2)
  BY <1>2, <1>5 DEF Passing
<1>8. CASE c' = k2
  BY <1>2, <1>5, <1>8 DEF Onwards
<1> QED BY <1>6, <1>7, <1>8, OnwardIs

LEMMA PassingErrs ==
    ASSUME ConductorInv, c.pc \in Working, c.job = "pass"
    PROVE  Passing(c) /\ Passing([c EXCEPT !.errs = TRUE])
BY InHand DEF Passing, Processes

\* An entry as the process read it is one that can be.
LEMMA OnwardsFit ==
    ASSUME ConductorInv, NEW z, c.pc \in Working, Onwards(z)
    PROVE  \A t \in Tasks : EntryFits(c'.seen[t])
BY DEF Onwards, ConductorInv, WorldFits, EntryFits

LEMMA LeaveInv ==
    ASSUME ConductorInv, c.pc \in Working, c.job = "pass", Onwards(r), faults' \in Nat,
           rec' = rec \/ rec' = [rec EXCEPT ![c.cur] = r],
           UNCHANGED <<chg, board, gates, git, ledger, overdue, spent>>, hist' = hist \/ Calm
    PROVE  ConductorInv'
<1>1. c.cur \in Missions /\ r \in Records /\ Sound(c.cur, r, hist, board, OnBranch, spent) /\ rec \in [Missions -> Records]
      /\ Copy(c.cur, r)
  BY InHand DEF ConductorInv, Types, TypeOK
<1>2. Calm
  <2>1. rec' \in [Missions -> Records]
    BY <1>1
  <2>2. c' \in Processes
    BY DEF Onwards
  <2> QED BY <2>1, <2>2, OnwardsFit, CalmAre
<1>3. Follows(r, r) /\ Sound(c.cur, r, hist', board, OnBranch, spent')
  <2>1. Stay /\ OnBranch' = OnBranch /\ board' = board
    BY <1>2, CalmIs
  <2> QED BY <1>1, <2>1 DEF Follows, Stay
<1> QED BY <1>1, <1>2, <1>3, OnwardsInv

LEMMA EndTurnInv == ASSUME ConductorInv, EndTurn PROVE ConductorInv'
<1>1. c.pc \in Working /\ c.job = "pass"
  BY DEF EndTurn, ConductorInv, AtCall, Working
<1>2. /\ c' = Onward(c) \/ c' = Onward([c EXCEPT !.errs = TRUE])
      /\ rec' = rec \/ rec' = [rec EXCEPT ![c.cur] = r]
      /\ UNCHANGED <<chg, board, gates, git, ledger, overdue, spent, hist>> /\ faults' \in Nat
  BY DEF EndTurn, Put, Fault, world, ConductorInv, Types
<1>3. Onwards(r)
  BY <1>1, <1>2, PassingErrs, OnwardIs
<1> QED BY <1>1, <1>2, <1>3, LeaveInv

LEMMA AcceptedInv == ASSUME ConductorInv, Accepted PROVE ConductorInv'
<1> DEFINE z == Transition(r, "accepted")
<1>1. /\ c.pc = "turn" /\ c.job = "pass" /\ c.cur \in Missions /\ r \in Records /\ Sound(c.cur, r, hist, board, OnBranch, spent)
      /\ r.st = "requested" /\ c.pc \in Working /\ rec \in [Missions -> Records] /\ spent.ops \in Nat
      /\ AllClosed(r) /\ Reads(c.cur, r, c.seen, board)
  BY AtAdvance DEF Accepted, ConductorInv, Types, TypeOK
<1>2. z \in Records /\ Sound(c.cur, z, hist, board, OnBranch, spent) /\ z.st = "accepted" /\ z.attempt = r.attempt
  <2>1. Rightly(c.cur, r, "accepted", hist, board, OnBranch, spent)
    BY <1>1 DEF Rightly, Events, Life!From
  <2>2. "accepted" \in Events /\ "accepted" \notin Life!Rejecting
    BY DEF Events, Life!Rejecting
  <2>3. z.st = Step(r, "accepted") /\ Step(r, "accepted") = "accepted" /\ z.attempt = r.attempt
    BY <1>1, <2>2, Fields, Table
  <2> QED BY <1>1, <2>1, <2>2, <2>3, EventSound
<1>3. /\ UNCHANGED <<chg, board, gates, git, ledger, overdue, spent, hist>> /\ faults' \in Nat /\ gates' \in SUBSET Tasks
      /\ \/ rec' = [rec EXCEPT ![c.cur] = z] /\ c' = Leave(c, z)
         \/ (rec' = rec \/ rec' = [rec EXCEPT ![c.cur] = z]) /\ c' = Failed(c, z)
  BY DEF Accepted, Put, Fault, world, ConductorInv, Types, TypeOK
<1>4. hist' \in Histories /\ Grows(hist, hist') /\ hist'.completed = hist.completed /\ \A m \in Missions : hist'.noted[m] <= 1
  BY <1>3, SameHistory
<1> HIDE DEF z
<1>5. Follows(r, z) /\ Reads(c.cur, z, c.seen, board)
  BY <1>1, <1>2 DEF Follows, Reads
<1>6. CASE rec' = [rec EXCEPT ![c.cur] = z] /\ c' = Leave(c, z)
  <2>1. Onwards(z)
    BY <1>1, <1>2, <1>6, LeaveIs
  <2>2. Calm
    <3>1. rec' \in [Missions -> Records]
      BY <1>1, <1>2, <1>6
    <3>2. c' \in Processes
      BY <2>1 DEF Onwards
    <3> QED BY <1>1, <1>3, <2>1, <3>1, <3>2, OnwardsFit, CalmAre
  <2> QED BY <1>1, <1>2, <1>3, <1>5, <1>6, <2>1, <2>2, OnwardsInv
<1>7. CASE (rec' = rec \/ rec' = [rec EXCEPT ![c.cur] = z]) /\ c' = Failed(c, z)
  <2>1. Quiet("failed", z)
    BY <1>1, <1>2, <1>3, <1>4, <1>7, QuietCall DEF Working, Merging
  <2>2. Fits("failed", z)
    BY <1>1, <1>5 DEF Fits
  <2> QED BY <1>2, <1>3, <2>1, <2>2, QuietTurn
<1> QED BY <1>3, <1>6, <1>7

LEMMA NotifyLateInv == ASSUME ConductorInv, NotifyLate PROVE ConductorInv'
<1> DEFINE S == LateReports(c)
           i == CHOOSE i \in LateReports(c) : \A j \in LateReports(c) : i <= j
           t == <<c.cur, r.history[i].n>>
           s == c.seen[t].st
           e == [r.history[i] EXCEPT !.late = s]
           f == [r.history EXCEPT ![i] = e]
           z == [r EXCEPT !.history = f]
           told == [hist EXCEPT !.told = @ \cup {t}]
<1>1. /\ c.pc = "late" /\ c.pc \in Working /\ c.job = "pass" /\ c.cur \in Missions /\ r \in Records /\ c \in Processes
      /\ S # {} /\ Sound(c.cur, r, hist, board, OnBranch, spent) /\ rec \in [Missions -> Records] /\ c.r = r
  BY InHand DEF NotifyLate, ConductorInv, AtCall, Working, Types, TypeOK, r
<1>2. i \in S
  <2>1. S \subseteq Nat
    <3>1. r.history \in Seq(HistoryEntries)
      BY <1>1, RecordTypes
    <3>2. DOMAIN r.history \subseteq Nat
      BY <3>1
    <3> QED BY <1>1, <3>2 DEF LateReports
  <2> HIDE DEF S
  <2>2. i = CHOOSE g \in S : \A j \in S : g <= j
    BY DEF S
  <2> HIDE DEF i
  <2> QED BY <1>1, <2>1, <2>2, FirstOf
<1>3. i \in DOMAIN r.history /\ s \in {"accepted", "done", "blocked"}
  <2> HIDE DEF i
  <2> QED BY <1>1, <1>2 DEF LateReports
<1> HIDE DEF i
<1>4. r.history \in Seq(HistoryEntries) /\ r.history[i] \in HistoryEntries /\ r.history[i].n \in Attempts
  BY <1>1, <1>3, RecordTypes
<1>5. /\ c' = [c EXCEPT !.r.history[i].late = s] \/ c' = Onward([c EXCEPT !.errs = TRUE])
      /\ hist' = told \/ hist' = hist
      /\ faults' = faults \/ faults' = faults + 1
      /\ UNCHANGED <<rec, chg, board, gates, git, ledger, overdue, spent>>
  BY DEF NotifyLate, Call, Fault, redis, world, i
<1>6. hist' \in Histories /\ Grows(hist, hist') /\ hist'.completed = hist.completed /\ \A m \in Missions : hist'.noted[m] <= 1
  <2> DEFINE n == r.history[i].n
  <2>1. n \in Attempts /\ t = <<c.cur, n>>
    BY <1>4
  <2> HIDE DEF n
  <2> QED BY <1>1, <1>5, <2>1, ToldIs
<1>7. e \in HistoryEntries /\ e.n = r.history[i].n /\ e.closed = r.history[i].closed
  <2> HIDE DEF s
  <2> QED BY <1>3, <1>4 DEF HistoryEntries
<1> HIDE DEF e, t, s, told
<1>8. f \in Seq(HistoryEntries) /\ DOMAIN f = DOMAIN r.history
      /\ \A j \in DOMAIN r.history : f[j].n = r.history[j].n /\ f[j].closed = r.history[j].closed
  <2>1. f \in Seq(HistoryEntries)
    BY <1>3, <1>4, <1>7
  <2>2. DOMAIN f = DOMAIN r.history /\ \A j \in DOMAIN r.history : f[j] = IF j = i THEN e ELSE r.history[j]
    OBVIOUS
  <2> HIDE DEF f
  <2> QED BY <1>7, <2>1, <2>2
<1> HIDE DEF f
<1>9. /\ z \in Records /\ z.st = r.st /\ z.attempt = r.attempt /\ z.rejections = r.rejections /\ z.commit = r.commit
      /\ z.subject = r.subject /\ z.skipped = r.skipped /\ z.preHead = r.preHead /\ z.tested = r.tested
      /\ z.history = f /\ z.escalated = r.escalated
  BY <1>1, <1>8 DEF Records, HistoryEntries
<1>10. [c EXCEPT !.r.history[i].late = s] = [c EXCEPT !.r = z]
  BY <1>1, <1>4 DEF Processes, z, f, e
<1> HIDE DEF z
<1>11. Sound(c.cur, r, hist', board, OnBranch, spent) /\ Sound(c.cur, z, hist', board, OnBranch, spent)
  <2>1. Sound(c.cur, r, hist', board, OnBranch, spent)
    BY <1>1, <1>6, GrownSound DEF ConductorInv, Types
  <2>2. ToSet(z.tested) \subseteq hist'.green
    BY <1>9, <2>1 DEF Sound, Tells
  <2>3. Like(c.cur, r, z, hist', board)
    BY <1>8, <1>9, <2>2 DEF Like
  <2> QED BY <1>1, <2>1, <2>3, LikeSound
<1>12. Onwards(z) \/ Onwards(r)
  <2>1. CASE c' = [c EXCEPT !.r = z]
    <3>1. /\ c' \in Processes /\ c'.pc = "late" /\ c'.job = "pass" /\ c'.cur = c.cur /\ c'.r = z /\ c'.mem = c.mem
          /\ c'.seen = c.seen /\ c'.busy = c.busy
      BY <1>1, <1>9, <2>1 DEF Processes
    <3> QED BY <3>1 DEF Onwards
  <2>2. CASE c' = Onward([c EXCEPT !.errs = TRUE])
    BY <1>1, <2>2, PassingErrs, OnwardIs
  <2> QED BY <1>5, <1>10, <2>1, <2>2
<1>13. Calm
  <2>1. c' \in Processes
    BY <1>12 DEF Onwards
  <2>2. \A u \in Tasks : EntryFits(c'.seen[u])
    BY <1>1, <1>12, OnwardsFit
  <2>3. Stay
    BY <1>5, <1>6, CalmStays
  <2>4. OnBranch' \subseteq hist'.checked \cap hist'.approved
    BY <1>5, <1>6 DEF OnBranch, Grows, ConductorInv, MergedWasReviewed
  <2> QED BY <1>5, <1>6, <2>1, <2>2, <2>3, <2>4 DEF Calm, Mild, ConductorInv, Types, TypeOK, WorldFits
<1>14. Follows(r, z) /\ Follows(r, r)
  BY <1>9 DEF Follows
<1> QED BY <1>1, <1>5, <1>9, <1>11, <1>12, <1>13, <1>14, OnwardsInv

-----------------------------------------------------------------------------
(* At rest, and the first turn of a pass.                                   *)

\* No process, or one with nothing in hand.
LEMMA RestInv ==
    ASSUME ConductorInv, Mild, c' \in {Off, Idle}, NEW m \in Missions, NEW z \in Records,
           rec' = rec \/ rec' = [rec EXCEPT ![m] = z], NEW w \in Records, Copy(m, w), Follows(w, z),
           Sound(m, z, hist', board', OnBranch', spent')
    PROVE  ConductorInv'
<1>1. /\ c'.pc \in {"down", "idle"} /\ c'.job = "pass" /\ \A t \in Tasks : c'.seen[t].st = "none"
      /\ \A n \in Missions : ~Keeps(c', n) /\ ~Has(c', n)
  BY AtRest
<1>2. Makes(m, z)
  <2>1. \A n \in Missions : rec'[n] = rec[n] \/ (n = m /\ rec'[n] = z)
    BY DEF ConductorInv, Types, TypeOK
  <2> QED BY <1>1, <2>1 DEF Makes, Held, Copy
<1>3. Agree' /\ AtCall' /\ AtMerge'
  BY <1>1 DEF Agree, AtCall, AtMerge, Working, Merging
<1>4. AllRead'
  BY <1>1 DEF AllRead, Working
<1> QED BY <1>2, <1>3, <1>4, MildInv

LEMMA RestOld ==
    ASSUME ConductorInv, Calm, c' \in {Off, Idle}, rec' = rec
    PROVE  ConductorInv'
<1>1. /\ c'.pc \in {"down", "idle"} /\ c'.job = "pass" /\ \A t \in Tasks : c'.seen[t].st = "none"
      /\ \A n \in Missions : ~Keeps(c', n) /\ ~Has(c', n)
  BY AtRest
<1>2. Agree' /\ AtCall' /\ AtMerge'
  BY <1>1 DEF Agree, AtCall, AtMerge, Working, Merging
<1>3. AllRead'
  BY <1>1 DEF AllRead, Working
<1>4. \A n \in Missions : \A x \in Records : Held(n, x, rec', c') => Copy(n, x)
  BY <1>1 DEF Held, Copy
<1> QED BY <1>2, <1>3, <1>4, CalmOld

\* The pass that follows a repair.
Starts ==
    /\ c' \in Processes /\ c'.pc = "turn" /\ c'.job = "pass" /\ c'.cur = 1 /\ c'.r = c.mem[1]
    /\ c'.mem = c.mem /\ c'.seen = c.seen /\ c'.busy = c.busy

LEMMA StartsInv ==
    ASSUME ConductorInv, Mild, c.job = "repair", c.pc \in Working \cup {"repair"}, Starts,
           NEW m \in Missions, NEW z \in Records, rec' = rec \/ rec' = [rec EXCEPT ![m] = z],
           rec'[m] = rec[m] \/ c.mem[m] = z \/ Behind(c.mem[m], z),
           NEW w \in Records, Copy(m, w), Follows(w, z), Sound(m, z, hist', board', OnBranch', spent')
    PROVE  ConductorInv'
<1>1. /\ 1 \in Missions /\ Missions \subseteq Nat /\ c.busy
      /\ \A n \in Missions : Keeps(c, n) /\ (Keeps(c', n) \/ Has(c', n) => (c'.mem[n] = c.mem[n]) /\ (Has(c', n) => n = 1))
  BY Constants, ConductorAssumption DEF Missions, Keeps, Has, Starts, ConductorInv, AtCall
<1>2. \A n \in Missions : (n # m => rec'[n] = rec[n]) /\ (rec'[n] = rec[n] \/ (n = m /\ rec'[n] = z))
  BY DEF ConductorInv, Types, TypeOK
<1>3. Makes(m, z)
  BY <1>1, <1>2 DEF Makes, Held, Copy, Starts
<1>4. \A n \in Missions : c.mem[n] = rec'[n] \/ Behind(c.mem[n], rec'[n])
  <2>1. \A n \in Missions : c.mem[n] = rec[n] \/ Behind(c.mem[n], rec[n])
    BY <1>1 DEF ConductorInv, Agree
  <2> QED BY <1>2, <2>1
<1>5. Agree'
  BY <1>1, <1>4 DEF Agree, Starts
<1>6. AtCall'
  BY <1>1 DEF AtCall, Starts, Working, Merging
<1>7. AtMerge'
  BY <1>1 DEF AtMerge, Starts, Merging
<1>8. AllRead'
  <2>1. \A n \in Missions : Reads(n, c.mem[n], c.seen, board)
    <3>1. ASSUME NEW n \in Missions PROVE Reads(n, c.mem[n], c.seen, board)
      <4>1. CASE Has(c, n)
        <5>1. Behind(c.mem[n], c.r)
          BY <4>1 DEF Has, ConductorInv, Agree
        <5> QED BY <5>1 DEF Behind, Reads
      <4>2. CASE ~Has(c, n)
        BY <1>1, <4>2 DEF ConductorInv, AllRead
      <4> QED BY <4>1, <4>2
    <3> QED BY <3>1
  <2>2. board' = board
    BY DEF Mild
  <2> QED BY <1>1, <2>1, <2>2 DEF AllRead, Starts, ConductorInv
<1> QED BY <1>3, <1>5, <1>6, <1>7, <1>8, MildInv

\* Broken: the repair gives up, with a copy of m in hand that may not be back.
LEMMA BrokenInv ==
    ASSUME ConductorInv, c' = Broken, c.job \in {"startup", "repair"}, c.pc \in Working \cup {"repair"}, Mild,
           NEW m \in Missions, NEW z \in Records, rec' = rec \/ rec' = [rec EXCEPT ![m] = z],
           rec'[m] = rec[m] \/ c.mem[m] = z \/ Behind(c.mem[m], z),
           NEW w \in Records, Copy(m, w), Follows(w, z), Sound(m, z, hist', board', OnBranch', spent')
    PROVE  ConductorInv'
<1>1. CASE c.job = "startup"
  <2>1. c' = Idle
    BY <1>1 DEF Broken
  <2> QED BY <2>1, RestInv
<1>2. CASE c.job = "repair"
  <2> DEFINE k == [c EXCEPT !.errs = TRUE]
  <2>1. c' = FirstTurn(k)
    BY <1>2 DEF Broken
  <2>2. k \in Processes /\ k.mem = c.mem /\ k.seen = c.seen /\ k.busy = c.busy
    BY DEF ConductorInv, Types, Processes
  <2> HIDE DEF k
  <2>3. Starts
    BY <2>1, <2>2, FirstTurnIs DEF Starts
  <2> QED BY <1>2, <2>3, StartsInv
<1> QED BY <1>1, <1>2

LEMMA BrokenOld ==
    ASSUME ConductorInv, c' = Broken, c.job \in {"startup", "repair"}, c.pc \in Working \cup {"repair"}, Calm, rec' = rec
    PROVE  ConductorInv'
<1>1. 1 \in Missions /\ rec[1] \in Records /\ Copy(1, rec[1]) /\ Follows(rec[1], rec[1])
  BY FirstIs DEF Follows
<1>2. Sound(1, rec[1], hist', board', OnBranch', spent') /\ Mild
  BY <1>1, CalmIs DEF Stay
<1> QED BY <1>1, <1>2, BrokenInv

\* The process of Broken and of a first turn fits.
LEMMA BrokenIs ==
    ASSUME ConductorInv, c' = Broken
    PROVE  c' \in Processes /\ \A t \in Tasks : EntryFits(c'.seen[t])
<1>1. CASE c' = Idle
  <2>1. c' \in Processes /\ \A t \in Tasks : c'.seen[t].st = "none"
    BY <1>1, AtRest
  <2> QED BY <2>1 DEF EntryFits
<1>2. CASE c' = FirstTurn([c EXCEPT !.errs = TRUE])
  <2> DEFINE k == [c EXCEPT !.errs = TRUE]
  <2>1. k \in Processes /\ k.seen = c.seen
    BY DEF ConductorInv, Types, Processes
  <2> HIDE DEF k
  <2> QED BY <1>2, <2>1, FirstTurnIs DEF k, ConductorInv, WorldFits
<1> QED BY <1>1, <1>2 DEF Broken

\* The abort goes on with the next mission.
LEMMA ToAbort ==
    ASSUME ConductorInv, c.job = "abort", c.pc \in Working, c' = [c EXCEPT !.pc = "abort"],
           UNCHANGED <<rec, chg, board, gates, git, ledger, overdue, spent, hist, faults>>
    PROVE  ConductorInv'
<1>1. /\ c' \in Processes /\ c'.pc = "abort" /\ c'.job = "abort" /\ c'.mem = c.mem /\ c'.seen = c.seen /\ c'.todo = c.todo
      /\ rec' \in [Missions -> Records] /\ faults' \in Nat /\ \A t \in Tasks : EntryFits(c'.seen[t])
  BY DEF ConductorInv, Types, TypeOK, Processes, Steps, Resting, WorldFits
<1>2. \A n \in Missions : (Keeps(c', n) => Keeps(c, n)) /\ ~Has(c', n)
  BY <1>1 DEF Keeps, Has, Working
<1>3. Calm
  BY <1>1, CalmAre
<1>4. Agree'
  BY <1>1, <1>2 DEF ConductorInv, Agree, Working
<1>5. AtCall'
  BY <1>1 DEF ConductorInv, AtCall, Working, Merging
<1>6. AtMerge' /\ AllRead'
  BY <1>1 DEF AtMerge, ConductorInv, AllRead, Merging, Working
<1>7. \A n \in Missions : \A x \in Records : Held(n, x, rec', c') => Copy(n, x)
  BY <1>1, <1>2 DEF Held, Copy
<1> QED BY <1>3, <1>4, <1>5, <1>6, <1>7, CalmOld

LEMMA FailInv == ASSUME ConductorInv, Fail PROVE ConductorInv'
<1>1. c.pc = "failed" /\ c.pc \in Working /\ c \in Processes /\ r \in Records /\ c.cur \in Missions
      /\ UNCHANGED <<rec, chg, board, gates, git, ledger, overdue, spent, hist, faults>>
      /\ rec' \in [Missions -> Records] /\ faults' \in Nat
  BY InHand DEF Fail, Working, redis, world, ConductorInv, Types, TypeOK
<1>2. CASE c.job = "pass"
  <2>1. Onwards(r)
    BY <1>1, <1>2, LeaveIs DEF Fail
  <2> QED BY <1>1, <1>2, <2>1, LeaveInv
<1>3. CASE c.job \in {"startup", "repair"}
  <2>1. c' = Broken
    BY <1>3 DEF Fail
  <2>2. Calm
    BY <1>1, <2>1, BrokenIs, CalmAre
  <2> QED BY <1>1, <1>3, <2>1, <2>2, BrokenOld
<1>4. CASE c.job = "abort"
  BY <1>1, <1>4, ToAbort DEF Fail
<1>5. CASE c.job = "op"
  <2>1. c' = Idle
    BY <1>5 DEF Fail
  <2>2. Calm
    <3>1. c' \in Processes /\ \A t \in Tasks : c'.seen[t].st = "none"
      BY <2>1, AtRest
    <3> QED BY <1>1, <3>1, CalmAre DEF EntryFits
  <2> QED BY <1>1, <2>1, <2>2, RestOld
<1> QED BY <1>1, <1>2, <1>3, <1>4, <1>5, ProcessTypes

-----------------------------------------------------------------------------
(* A repair.                                                                *)

\* What a process that repairs holds is what is on the bus.
LEMMA AtRepair ==
    ASSUME ConductorInv, c.pc \in {"repair", "recheck"}
    PROVE  /\ c \in Processes /\ c.job \in {"startup", "repair"} /\ rec \in [Missions -> Records] /\ c.pc \notin Working
           /\ \A n \in Missions : /\ c.mem[n] = rec[n] /\ Keeps(c, n) /\ ~Has(c, n) /\ Copy(n, rec[n]) /\ rec[n] \in Records
                                  /\ Reads(n, c.mem[n], c.seen, board) /\ Sound(n, rec[n], hist, board, OnBranch, spent)
<1>1. c \in Processes /\ c.job \in {"startup", "repair"} /\ rec \in [Missions -> Records] /\ c.pc \notin Working
  BY DEF ConductorInv, AtCall, Types, TypeOK, Working
<1>2. \A n \in Missions : Keeps(c, n) /\ ~Has(c, n) /\ Copy(n, rec[n])
  BY <1>1 DEF Keeps, Has, Copy, Held
<1>3. \A n \in Missions : c.mem[n] = rec[n] /\ Reads(n, c.mem[n], c.seen, board)
  BY <1>1, <1>2 DEF ConductorInv, Agree, AllRead
<1> QED BY <1>1, <1>2, <1>3 DEF ConductorInv, AllSound

LEMMA RepairingInv ==
    ASSUME ConductorInv, Mild, c'.pc \in {"repair", "recheck"}, c'.job \in {"startup", "repair"}, c'.job = "repair" => c'.busy,
           \A n \in Missions : c'.mem[n] = rec'[n] /\ Reads(n, c'.mem[n], c'.seen, board'),
           \A t \in Tasks : c'.seen[t].st # "none" => board'[t].st # "none",
           c'.pc = "recheck" => c'.job = "startup" /\ \A n \in c'.todo : c'.mem[n].st = "checking",
           NEW m \in Missions, NEW z \in Records, rec' = rec \/ rec' = [rec EXCEPT ![m] = z],
           NEW w \in Records, Copy(m, w), Follows(w, z), Sound(m, z, hist', board', OnBranch', spent')
    PROVE  ConductorInv'
<1>1. c'.pc \notin Working
  BY DEF Working
<1>2. Makes(m, z)
  <2>1. \A n \in Missions : rec'[n] = rec[n] \/ (n = m /\ rec'[n] = z)
    BY DEF ConductorInv, Types, TypeOK
  <2> QED BY <1>1, <2>1 DEF Makes, Held, Copy, Has
<1>3. Agree'
  BY <1>1 DEF Agree, Working
<1>4. AtCall'
  BY <1>1 DEF AtCall, Working, Merging
<1>5. AtMerge'
  BY <1>1 DEF AtMerge, Working, Merging
<1>6. AllRead'
  BY <1>1 DEF AllRead
<1> QED BY <1>2, <1>3, <1>4, <1>5, <1>6, MildInv

LEMMA RepairingOld ==
    ASSUME ConductorInv, Calm, c'.pc \in {"repair", "recheck"}, c'.job \in {"startup", "repair"}, c'.job = "repair" => c'.busy,
           \A n \in Missions : c'.mem[n] = rec[n] /\ Reads(n, c'.mem[n], c'.seen, board),
           \A t \in Tasks : c'.seen[t].st # "none" => board[t].st # "none",
           c'.pc = "recheck" => c'.job = "startup" /\ \A n \in c'.todo : c'.mem[n].st = "checking", rec' = rec
    PROVE  ConductorInv'
<1>1. 1 \in Missions /\ rec[1] \in Records /\ Copy(1, rec[1]) /\ Follows(rec[1], rec[1])
  BY FirstIs DEF Follows
<1>2. Sound(1, rec[1], hist', board', OnBranch', spent') /\ Mild /\ board' = board
  BY <1>1, CalmIs DEF Stay
<1> QED BY <1>1, <1>2, RepairingInv

\* A call of a repair that leaves the process where it is, or ends the repair.
LEMMA RepairCall ==
    ASSUME ConductorInv, c.pc = "repair", c' = c \/ c' = Broken, rec' = rec, faults' \in Nat,
           chg' = chg \/ chg' = [chg EXCEPT !.dirtyTold = git.dirty],
           git' = git \/ git' = [git EXCEPT !.merging = FALSE], UNCHANGED <<board, gates, ledger, overdue, spent, hist>>
    PROVE  ConductorInv'
<1>1. /\ c \in Processes /\ c.job \in {"startup", "repair"} /\ rec \in [Missions -> Records]
      /\ \A n \in Missions : c.mem[n] = rec[n] /\ Reads(n, c.mem[n], c.seen, board)
  BY AtRepair
<1>2. c' \in Processes /\ \A t \in Tasks : EntryFits(c'.seen[t])
  BY <1>1, BrokenIs DEF ConductorInv, WorldFits
<1>3. Calm
  <2>1. git \in [branch : Seq(Deliveries), merging : BOOLEAN, dirty : BOOLEAN]
    BY DEF ConductorInv, Types, TypeOK
  <2>2. /\ git' \in [branch : Seq(Deliveries), merging : BOOLEAN, dirty : BOOLEAN]
        /\ git'.branch = git.branch /\ git'.dirty = git.dirty
    BY <2>1
  <2>3. Stay /\ OnBranch' \subseteq hist'.checked \cap hist'.approved
    BY <2>2, BranchKept
  <2>4. chg' \in [st : {"active", "aborted"}, complete : BOOLEAN, failedHeads : SUBSET Seq(Deliveries), dirtyTold : BOOLEAN]
        /\ chg'.complete = chg.complete
    BY <2>1 DEF ConductorInv, Types, TypeOK
  <2> QED BY <1>1, <1>2, <2>2, <2>3, <2>4, SameHistory DEF Calm, Mild, ConductorInv, Types, TypeOK, WorldFits
<1>4. CASE c' = c
  <2>1. c.job = "repair" => c.busy
    BY DEF ConductorInv, AtCall
  <2> QED BY <1>1, <1>3, <1>4, <2>1, RepairingOld DEF ConductorInv, AllRead
<1>5. CASE c' = Broken
  BY <1>1, <1>3, <1>5, BrokenOld
<1> QED BY <1>4, <1>5

LEMMA RepairMergeInv == ASSUME ConductorInv, RepairMerge PROVE ConductorInv'
<1>1. /\ c.pc = "repair" /\ (c' = c \/ c' = Broken) /\ rec' = rec /\ faults' \in Nat /\ chg' = chg
      /\ git' = git \/ git' = [git EXCEPT !.merging = FALSE]
      /\ UNCHANGED <<board, gates, ledger, overdue, spent, hist>>
  BY DEF RepairMerge, Call, Fault, redis, world, ConductorInv, Types
<1> QED BY <1>1, RepairCall

LEMMA ReportDirtyInv == ASSUME ConductorInv, ReportDirty PROVE ConductorInv'
<1>1. /\ c.pc = "repair" /\ (c' = c \/ c' = Broken) /\ rec' = rec /\ faults' \in Nat /\ git' = git
      /\ chg' = chg \/ chg' = [chg EXCEPT !.dirtyTold = git.dirty]
      /\ UNCHANGED <<board, gates, ledger, overdue, spent, hist>>
  BY DEF ReportDirty, Call, Fault, world, ConductorInv, Types
<1> QED BY <1>1, RepairCall

LEMMA RepairedInv == ASSUME ConductorInv, Repaired PROVE ConductorInv'
<1>1. /\ c.pc = "repair" /\ c \in Processes /\ c.job \in {"startup", "repair"}
      /\ c' = IF c.job = "startup" THEN Idle ELSE FirstTurn(c)
      /\ UNCHANGED <<rec, chg, board, gates, git, ledger, overdue, spent, hist, faults>> /\ faults' \in Nat
      /\ rec' \in [Missions -> Records]
  BY AtRepair DEF Repaired, redis, world, ConductorInv, Types
<1>2. CASE c' = Idle
  <2>1. Calm
    <3>1. c' \in Processes /\ \A t \in Tasks : c'.seen[t].st = "none"
      BY <1>2, AtRest
    <3> QED BY <1>1, <3>1, CalmAre DEF EntryFits
  <2> QED BY <1>1, <1>2, <2>1, RestOld
<1>3. CASE c.job = "repair" /\ c' = FirstTurn(c)
  <2>1. Starts
    BY <1>1, <1>3, FirstTurnIs DEF Starts
  <2>2. Calm
    BY <1>1, <2>1, CalmAre DEF Starts, ConductorInv, WorldFits
  <2>3. 1 \in Missions /\ rec[1] \in Records /\ Copy(1, rec[1]) /\ Follows(rec[1], rec[1])
    BY FirstIs DEF Follows
  <2>4. Sound(1, rec[1], hist', board', OnBranch', spent') /\ Mild
    BY <2>2, <2>3, CalmIs DEF Stay
  <2> QED BY <1>1, <1>3, <2>1, <2>3, <2>4, StartsInv
<1> QED BY <1>1, <1>2, <1>3

LEMMA ReturnInv == ASSUME ConductorInv, Return PROVE ConductorInv'
<1>1. /\ c.pc = "turn" /\ c.pc \in Working /\ c \in Processes /\ r \in Records /\ c.cur \in Missions
      /\ UNCHANGED <<rec, chg, board, gates, git, ledger, overdue, spent, hist, faults>>
      /\ rec' \in [Missions -> Records] /\ faults' \in Nat
  BY InHand DEF Return, Settled, Working, redis, world, ConductorInv, Types, TypeOK
<1>2. CASE c.job = "pass"
  <2>1. Onwards(r)
    BY <1>1, <1>2, LeaveIs DEF Return
  <2> QED BY <1>1, <1>2, <2>1, LeaveInv
<1>3. CASE c.job \in {"startup", "repair"}
  <2> DEFINE f == [c.mem EXCEPT ![c.cur] = r]
             k == [c EXCEPT !.mem = f]
  <2>1. c' = [k EXCEPT !.pc = "repair"]
    <3>1. [c EXCEPT !.mem[c.cur] = r] = k
      BY <1>1 DEF Processes
    <3> QED BY <1>3, <3>1 DEF Return
  <2>2. f \in [Missions -> Records] /\ \A n \in Missions : f[n] = IF n = c.cur THEN r ELSE c.mem[n]
    BY <1>1, ProcessTypes
  <2> HIDE DEF f
  <2>3. /\ k \in Processes /\ k.mem = f /\ k.job = c.job /\ k.seen = c.seen /\ k.busy = c.busy
    BY <1>1, <2>2 DEF Processes
  <2> HIDE DEF k
  <2>4. /\ c' \in Processes /\ c'.pc = "repair" /\ c'.mem = f /\ c'.job = c.job /\ c'.seen = c.seen /\ c'.busy = c.busy
    BY <2>1, <2>3 DEF Processes, Steps, Resting
  <2>5. r = rec[c.cur] /\ Behind(c.mem[c.cur], r)
    BY <1>1, <1>3 DEF ConductorInv, Agree, r
  <2>6. ASSUME NEW n \in Missions PROVE f[n] = rec[n] /\ Reads(n, f[n], c.seen, board)
    <3>1. CASE n = c.cur
      BY <2>2, <2>5, <3>1 DEF Behind, Reads
    <3>2. CASE n # c.cur
      <4>1. Keeps(c, n) /\ ~Has(c, n)
        BY <1>1, <1>3, <3>2 DEF Keeps, Has
      <4> QED BY <1>3, <2>2, <3>2, <4>1 DEF ConductorInv, Agree, AllRead
    <3> QED BY <3>1, <3>2
  <2>7. Calm
    BY <1>1, <2>4, CalmAre DEF ConductorInv, WorldFits
  <2>8. c.job = "repair" => c.busy
    BY <1>1 DEF ConductorInv, AtCall
  <2> QED BY <1>1, <1>3, <2>4, <2>6, <2>7, <2>8, RepairingOld DEF ConductorInv, AllRead
<1>4. CASE c.job = "abort"
  BY <1>1, <1>4, ToAbort DEF Return
<1>5. CASE c.job = "op"
  <2>1. c' = Idle
    BY <1>5 DEF Return
  <2>2. Calm
    <3>1. c' \in Processes /\ \A t \in Tasks : c'.seen[t].st = "none"
      BY <2>1, AtRest
    <3> QED BY <1>1, <3>1, CalmAre DEF EntryFits
  <2> QED BY <1>1, <2>1, <2>2, RestOld
<1> QED BY <1>1, <1>2, <1>3, <1>4, <1>5, ProcessTypes

-----------------------------------------------------------------------------
(* A pass and a start.                                                      *)

LEMMA BeginPassInv == ASSUME ConductorInv, BeginPass PROVE ConductorInv'
<1> DEFINE busy == chg.st = "active" /\ Integrating(Read) # {}
           k == [Read EXCEPT !.busy = busy]
<1>1. /\ Read \in Processes /\ Read.job = "pass" /\ Read.mem = rec /\ Read.seen = board
      /\ rec \in [Missions -> Records] /\ faults \in Nat /\ \A t \in Tasks : EntryFits(board[t])
  BY ReadIs DEF ConductorInv, Types, TypeOK, WorldFits
<1>2. /\ c.pc = "idle" /\ c' = (IF k.busy THEN [k EXCEPT !.job = "repair", !.pc = "repair"] ELSE FirstTurn(k))
      /\ UNCHANGED <<rec, chg, board, gates, git, ledger, overdue, spent, hist, faults>>
  BY DEF BeginPass, redis, world
<1>3. k \in Processes /\ k.mem = rec /\ k.seen = board /\ k.busy = busy /\ busy \in BOOLEAN
  <2>1. busy \in BOOLEAN
    OBVIOUS
  <2> HIDE DEF busy
  <2> QED BY <1>1, <2>1 DEF Processes
<1>4. ~busy => chg.st # "active" \/ \A n \in Missions : rec[n].st # "integrating"
  BY <1>1 DEF Integrating
<1> HIDE DEF busy, k
<1>5. \A n \in Missions : Reads(n, rec[n], board, board)
  BY DEF Reads
<1>6. CASE busy /\ c' = [k EXCEPT !.job = "repair", !.pc = "repair"]
  <2>1. c' = [[k EXCEPT !.job = "repair"] EXCEPT !.pc = "repair"]
    BY <1>3, <1>6 DEF Processes
  <2>2. c' \in Processes /\ c'.pc = "repair" /\ c'.job = "repair" /\ c'.mem = rec /\ c'.seen = board /\ c'.busy
    BY <1>3, <1>6, <2>1 DEF Processes, Steps, Resting
  <2>3. Calm
    BY <1>1, <1>2, <2>2, CalmAre
  <2> QED BY <1>2, <1>5, <2>2, <2>3, RepairingOld
<1>7. CASE ~busy /\ c' = FirstTurn(k)
  <2>1. /\ c' \in Processes /\ c'.pc = "turn" /\ c'.job = "pass" /\ c'.cur = 1 /\ c'.r = rec[1] /\ c'.mem = rec
        /\ c'.seen = board /\ c'.busy = busy
    BY <1>3, <1>7, FirstTurnIs
  <2>2. Calm
    BY <1>1, <1>2, <2>1, CalmAre
  <2>3. 1 \in Missions /\ \A n \in Missions : \A x \in Records : Held(n, x, rec', c') => x = rec[n] /\ Copy(n, x)
    BY <1>2, <2>1, FirstIs DEF Held, Copy, Has
  <2>4. Agree' /\ AtCall'
    BY <1>2, <2>1, <2>3 DEF Agree, AtCall, Working, Merging
  <2>5. AtMerge'
    BY <1>2, <1>4, <1>7, <2>1, <2>3 DEF AtMerge, Copy, Merging
  <2>6. AllRead'
    BY <1>2, <1>5, <2>1, <2>3 DEF AllRead
  <2> QED BY <2>2, <2>3, <2>4, <2>5, <2>6, CalmOld
<1> QED BY <1>2, <1>3, <1>6, <1>7

LEMMA StartupInv == ASSUME ConductorInv, Startup PROVE ConductorInv'
<1> DEFINE todo == {m \in Missions : rec[m].st = "checking"}
           k == [Read EXCEPT !.job = "startup", !.todo = todo]
           pc2 == IF todo = {} THEN "repair" ELSE "recheck"
<1>1. /\ Read \in Processes /\ Read.mem = rec /\ Read.seen = board
      /\ rec \in [Missions -> Records] /\ faults \in Nat /\ \A t \in Tasks : EntryFits(board[t])
  BY ReadIs DEF ConductorInv, Types, TypeOK, WorldFits
<1>2. UNCHANGED <<rec, chg, board, gates, git, ledger, overdue, spent, hist, faults>>
  BY DEF Startup, redis, world
<1>3. k = [[Read EXCEPT !.job = "startup"] EXCEPT !.todo = todo] /\ todo \subseteq Missions
  BY <1>1 DEF Processes
<1> HIDE DEF todo
<1>4. k \in Processes /\ k.mem = rec /\ k.seen = board /\ k.todo = todo /\ k.job = "startup"
  BY <1>1, <1>3 DEF Processes
<1>5. c' = Idle \/ c' = [k EXCEPT !.pc = pc2]
  BY <1>4 DEF Startup, todo
<1> HIDE DEF k
<1>6. CASE c' = Idle
  <2>1. Calm
    <3>1. c' \in Processes /\ \A t \in Tasks : c'.seen[t].st = "none"
      BY <1>6, AtRest
    <3> QED BY <1>1, <1>2, <3>1, CalmAre DEF EntryFits
  <2> QED BY <1>2, <1>6, <2>1, RestOld
<1>7. CASE c' = [k EXCEPT !.pc = pc2]
  <2>1. /\ c' \in Processes /\ c'.pc \in {"repair", "recheck"} /\ c'.job = "startup" /\ c'.mem = rec /\ c'.seen = board
        /\ c'.todo = todo
    BY <1>4, <1>7 DEF Processes, Steps, Resting
  <2>2. Calm
    BY <1>1, <1>2, <2>1, CalmAre
  <2>3. \A n \in todo : rec[n].st = "checking"
    BY DEF todo
  <2> QED BY <1>2, <2>1, <2>2, <2>3, RepairingOld DEF Reads
<1> QED BY <1>5, <1>6, <1>7

LEMMA RecheckInv == ASSUME ConductorInv, NEW m \in Missions, Recheck(m) PROVE ConductorInv'
<1> DEFINE x == c.mem[m]
           z == [x EXCEPT !.st = "delivered"]
           todo == c.todo \ {m}
           f == [c.mem EXCEPT ![m] = z]
           k == [c EXCEPT !.todo = @ \ {m}, !.mem[m] = z]
           pc2 == IF todo = {} THEN "repair" ELSE "recheck"
<1>1. /\ c.pc = "recheck" /\ m \in c.todo /\ c \in Processes /\ c.job \in {"startup", "repair"} /\ rec \in [Missions -> Records]
      /\ x = rec[m] /\ x \in Records /\ Copy(m, x) /\ Sound(m, x, hist, board, OnBranch, spent) /\ faults \in Nat
      /\ \A n \in Missions : c.mem[n] = rec[n] /\ Reads(n, c.mem[n], c.seen, board)
  BY AtRepair DEF Recheck, ConductorInv, Types
<1>2. x.st = "checking"
  BY <1>1 DEF ConductorInv, AtCall
<1> HIDE DEF x
<1>3. z \in Records /\ Sound(m, z, hist, board, OnBranch, spent) /\ z.st = "delivered"
  BY <1>1, <1>2, RedoSound
<1> HIDE DEF z
<1>4. f \in [Missions -> Records] /\ \A n \in Missions : f[n] = IF n = m THEN z ELSE rec[n]
  BY <1>1, <1>3, ProcessTypes
<1>5. k = [[c EXCEPT !.todo = todo] EXCEPT !.mem = f] /\ todo \subseteq Missions
  BY <1>1 DEF Processes
<1> HIDE DEF f, todo
<1>6. k \in Processes /\ k.mem = f /\ k.todo = todo /\ k.job = c.job /\ k.seen = c.seen /\ k.busy = c.busy
  BY <1>1, <1>4, <1>5 DEF Processes
<1>7. /\ UNCHANGED <<chg, board, gates, git, ledger, overdue, spent, hist>> /\ faults' \in Nat
      /\ rec' = rec \/ rec' = [rec EXCEPT ![m] = z]
      /\ \/ rec' = [rec EXCEPT ![m] = z] /\ c' = [k EXCEPT !.pc = pc2]
         \/ c' = Idle
  <2>1. Recheck(m) <=>
          /\ c.pc = "recheck" /\ m \in c.todo
          /\ Put(m, z, [k EXCEPT !.pc = IF k.todo = {} THEN "repair" ELSE "recheck"], Idle)
          /\ UNCHANGED <<chg, board, gates, git, world, hist>>
    BY DEF Recheck, x, z
  <2>2. Put(m, z, [k EXCEPT !.pc = pc2], Idle) /\ UNCHANGED <<chg, board, gates, git, world, hist>>
    BY <1>6, <2>1
  <2> HIDE DEF k, pc2
  <2> QED BY <1>1, <2>2 DEF Put, Fault, world
<1> HIDE DEF k
<1>8. Follows(x, z) /\ rec' \in [Missions -> Records]
  BY <1>1, <1>3, <1>7 DEF Follows
<1>9. CASE c' = Idle
  <2>1. Calm
    <3>1. c' \in Processes /\ \A t \in Tasks : c'.seen[t].st = "none"
      BY <1>9, AtRest
    <3> QED BY <1>7, <1>8, <3>1, CalmAre DEF EntryFits
  <2>2. Sound(m, z, hist', board', OnBranch', spent') /\ Mild
    BY <1>3, <1>7, <2>1, CalmIs
  <2> QED BY <1>1, <1>3, <1>7, <1>8, <1>9, <2>2, RestInv
<1>10. CASE rec' = [rec EXCEPT ![m] = z] /\ c' = [k EXCEPT !.pc = pc2]
  <2>1. /\ c' \in Processes /\ c'.pc = pc2 /\ c'.job = c.job /\ c'.mem = f /\ c'.seen = c.seen
        /\ c'.todo = todo /\ c'.busy = c.busy
    BY <1>6, <1>10 DEF Processes, Steps, Resting
  <2>2. Calm
    BY <1>7, <1>8, <2>1, CalmAre DEF ConductorInv, WorldFits
  <2>3. Sound(m, z, hist', board', OnBranch', spent') /\ Mild
    BY <1>3, <1>7, <2>2, CalmIs
  <2>4. \A n \in Missions : f[n] = rec'[n] /\ Reads(n, f[n], c.seen, board)
    <3>1. \A n \in Missions : f[n] = rec'[n] /\ (n # m => f[n] = c.mem[n])
      BY <1>1, <1>4, <1>10
    <3>2. f[m] = z /\ Reads(m, z, c.seen, board)
      BY <1>3, <1>4 DEF Reads
    <3> QED BY <1>1, <3>1, <3>2
  <2>5. \A n \in todo : f[n].st = "checking"
    BY <1>1, <1>4, <1>5 DEF todo, ConductorInv, AtCall
  <2>6. c.job = "startup"
    BY <1>1 DEF ConductorInv, AtCall
  <2>7. /\ c'.pc \in {"repair", "recheck"} /\ c'.job \in {"startup", "repair"} /\ (c'.job = "repair" => c'.busy)
        /\ \A n \in Missions : c'.mem[n] = rec'[n] /\ Reads(n, c'.mem[n], c'.seen, board')
        /\ \A t \in Tasks : c'.seen[t].st # "none" => board'[t].st # "none"
        /\ c'.pc = "recheck" => c'.job = "startup" /\ \A n \in c'.todo : c'.mem[n].st = "checking"
    BY <1>1, <1>7, <2>1, <2>4, <2>5, <2>6 DEF ConductorInv, AllRead
  <2> QED BY <1>1, <1>3, <1>7, <1>8, <2>3, <2>7, RepairingInv
<1> QED BY <1>7, <1>9, <1>10

-----------------------------------------------------------------------------
(* A repair that finds a mission integrating.                               *)

\* A repair takes in hand what it makes of the mission.
LEMMA RepairTakes ==
    ASSUME ConductorInv, c.pc = "repair", NEW m \in Missions, NEW z \in Records, NEW pc2 \in {"turn", "failed", "suite"},
           c' \in Processes, c'.pc = pc2, c'.cur = m, c'.r = z, c'.job = c.job, c'.mem = c.mem, c'.seen = c.seen,
           c'.busy = c.busy, rec' = rec \/ rec' = [rec EXCEPT ![m] = z], faults' \in Nat,
           Behind(rec[m], z), Follows(rec[m], z), Sound(m, z, hist, board, OnBranch, spent),
           pc2 # "failed" => rec'[m] = z,
           pc2 = "suite" => z = rec[m] /\ z.st = "integrating" /\ <<m, z.commit>> \in OnBranch,
           UNCHANGED <<chg, board, gates, git, ledger, overdue, spent, hist>>
    PROVE  ConductorInv'
<1>1. /\ c \in Processes /\ c.job \in {"startup", "repair"} /\ rec \in [Missions -> Records] /\ c.pc \notin Working
      /\ \A n \in Missions : /\ c.mem[n] = rec[n] /\ Keeps(c, n) /\ ~Has(c, n) /\ Copy(n, rec[n]) /\ rec[n] \in Records
                             /\ Reads(n, c.mem[n], c.seen, board)
  BY AtRepair
<1>2. c'.pc \in Working /\ c'.cur = m /\ pc2 \in Working
  BY DEF Working
<1>3. \A n \in Missions : (n # m => rec'[n] = rec[n]) /\ (rec'[n] = rec[n] \/ (n = m /\ rec'[n] = z))
  BY <1>1
<1>4. \A n \in Missions : Has(c', n) <=> n = m
  BY <1>2 DEF Has
<1>5. Makes(m, z)
  BY <1>1, <1>3, <1>4 DEF Makes, Held, Copy
<1>6. Calm
  BY <1>1, CalmAre DEF ConductorInv, WorldFits
<1>7. Agree'
  <2>1. \A n \in Missions : c'.mem[n] = rec'[n] \/ (Behind(c'.mem[n], rec'[n]) /\ n = m)
    BY <1>1, <1>3
  <2> QED BY <1>1, <1>2, <1>4, <2>1 DEF Agree
<1>8. AtCall'
  BY <1>1, <1>2 DEF ConductorInv, AtCall, Merging
<1>9. AtMerge'
  <2>1. OnBranch' = OnBranch
    BY <1>6, CalmIs
  <2>2. pc2 = "suite" => \A y \in Records : Held(m, y, rec', c') => y = z
    BY <1>1, <1>3 DEF Held
  <2> QED BY <1>1, <2>1, <2>2 DEF AtMerge, Merging, Copy
<1>10. AllRead'
  BY <1>1, <1>2 DEF ConductorInv, AllRead
<1> QED BY <1>1, <1>5, <1>6, <1>7, <1>8, <1>9, <1>10, CalmInv

LEMMA RepairTake ==
    ASSUME ConductorInv, c.pc = "repair", NEW m \in Missions, NEW ev \in {"integrate_failed", "integrated"},
           NEW k \in Processes, k.cur = m, k.job = c.job, k.mem = c.mem, k.seen = c.seen, k.busy = c.busy,
           Take(k, m, rec[m], ev), Rightly(m, rec[m], ev, hist, board, OnBranch, spent),
           UNCHANGED <<chg, board, gates, git, ledger, overdue, spent, hist>>
    PROVE  ConductorInv'
<1> DEFINE x == rec[m]
           y == Transition(x, ev)
           z == Made(x, ev)
<1>1. c \in Processes /\ x \in Records /\ Sound(m, x, hist, board, OnBranch, spent)
  BY AtRepair
<1>3. ev \in Events /\ x.st = "integrating" /\ ~x.skipped /\ Counts(x, spent.ops) /\ ~Sends(x, ev)
  <2>1. ev \in Events /\ x.st \in Life!From[ev] /\ ev \notin Life!Rejecting
    BY DEF Rightly, Life!Rejecting
  <2>2. x.st = "integrating" /\ Counts(x, spent.ops)
    BY <1>1, <2>1, Origins DEF Sound
  <2> QED BY <1>1, <2>1, <2>2, Effects DEF Sound, Tells, Ended
<1>4. y \in Records /\ Sound(m, y, hist, board, OnBranch, spent) /\ z = y
  <2>1. spent.ops \in Nat /\ spent.ops <= MaxOps
    BY DEF ConductorInv, Types
  <2> QED BY <1>1, <1>3, <2>1, MadeSound DEF Made
<1>5. /\ y.st \in {"blocked", "integrated"} /\ y.attempt = x.attempt /\ y.commit = x.commit /\ y.skipped = x.skipped
  <2>1. ev \notin Life!Rejecting
    BY DEF Life!Rejecting
  <2> QED BY <1>1, <1>3, <2>1, Fields, Table
<1>6. Behind(x, y) /\ Follows(x, y)
  BY <1>3, <1>5 DEF Behind, Follows
<1>7. \/ rec' = [rec EXCEPT ![m] = y] /\ faults' = faults /\ c' = At(k, "turn", y)
      \/ rec' \in {rec, [rec EXCEPT ![m] = y]} /\ faults' = faults + 1 /\ c' = Failed(k, y)
  BY <1>3, <1>4, TakeDoes
<1>8. faults' \in Nat /\ rec \in [Missions -> Records] /\ "turn" \in Steps
  BY <1>7 DEF ConductorInv, Types, TypeOK, Steps, Working
<1> HIDE DEF y
<1>9. CASE rec' = [rec EXCEPT ![m] = y] /\ c' = At(k, "turn", y)
  <2>1. /\ c' \in Processes /\ c'.pc = "turn" /\ c'.cur = m /\ c'.r = y /\ c'.job = c.job /\ c'.mem = c.mem
        /\ c'.seen = c.seen /\ c'.busy = c.busy /\ rec'[m] = y
    BY <1>4, <1>8, <1>9, AtIs
  <2> QED BY <1>4, <1>6, <1>8, <1>9, <2>1, RepairTakes
<1>10. CASE rec' \in {rec, [rec EXCEPT ![m] = y]} /\ c' = Failed(k, y)
  <2>1. /\ c' \in Processes /\ c'.pc = "failed" /\ c'.cur = m /\ c'.r = y /\ c'.job = c.job /\ c'.mem = c.mem
        /\ c'.seen = c.seen /\ c'.busy = c.busy
    BY <1>4, <1>10, FailedIs
  <2> QED BY <1>4, <1>6, <1>8, <1>10, <2>1, RepairTakes
<1> QED BY <1>7, <1>9, <1>10

LEMMA RepairDirtyInv == ASSUME ConductorInv, NEW m \in Missions, RepairDirty(m) PROVE ConductorInv'
<1>1. /\ c.pc = "repair" /\ git.dirty /\ c.mem[m].st = "integrating"
      /\ Take([c EXCEPT !.cur = m], m, c.mem[m], "integrate_failed")
      /\ UNCHANGED <<chg, board, gates, git, ledger, overdue, spent, hist>>
  BY DEF RepairDirty, Integrating, world
<1> DEFINE k == [c EXCEPT !.cur = m]
<1>2. c.mem[m] = rec[m] /\ c \in Processes
  BY <1>1, AtRepair
<1>3. spent.soils # 0
  BY <1>1 DEF ConductorInv, WorldFits
<1>4. Rightly(m, rec[m], "integrate_failed", hist, board, OnBranch, spent)
  BY <1>1, <1>2, <1>3 DEF Rightly, Events, Life!From
<1>5. k \in Processes /\ k.cur = m /\ k.job = c.job /\ k.mem = c.mem /\ k.seen = c.seen /\ k.busy = c.busy
  <2>1. m \in 0 .. N
    BY Constants DEF Missions
  <2> QED BY <1>2, <2>1 DEF Processes
<1>6. Take(k, m, rec[m], "integrate_failed")
  BY <1>1, <1>2
<1> HIDE DEF k
<1> QED BY <1>1, <1>4, <1>5, <1>6, RepairTake

\* A merge that never landed: the head is restored, and the mission is merged again.
LEMMA ResumeAgain ==
    ASSUME ConductorInv, c.pc = "repair", NEW m \in Missions, rec[m].st = "integrating", <<m, rec[m].commit>> \notin OnBranch,
           NEW y, y = [rec[m] EXCEPT !.st = "approved"], NEW f, f = [c.mem EXCEPT ![m] = y],
           NEW k \in Processes, k.pc = "repair", k.job = c.job, k.mem = c.mem, k.seen = c.seen, k.busy = c.busy,
           Put(m, y, [k EXCEPT !.mem = f], Broken),
           git' = [git EXCEPT !.branch = rec[m].preHead] \/ git' = git,
           UNCHANGED <<chg, board, gates, ledger, overdue, spent, hist>>
    PROVE  ConductorInv'
<1> DEFINE x == rec[m]
           head == x.preHead
<1>1. /\ c \in Processes /\ c.job \in {"startup", "repair"} /\ rec \in [Missions -> Records] /\ c.pc \notin Working
      /\ x \in Records /\ Sound(m, x, hist, board, OnBranch, spent) /\ Copy(m, x) /\ c.mem[m] = x
      /\ \A n \in Missions : c.mem[n] = rec[n] /\ ~Has(c, n) /\ Reads(n, c.mem[n], c.seen, board)
  BY AtRepair
<1>2. git \in [branch : Seq(Deliveries), merging : BOOLEAN, dirty : BOOLEAN] /\ faults \in Nat
      /\ OnBranch \subseteq hist.checked \cap hist.approved
  BY DEF ConductorInv, Types, TypeOK, MergedWasReviewed
<1>3. head \in Seq(Deliveries) /\ ToSet(head) \subseteq OnBranch
  BY <1>1, RecordTypes DEF Sound, Lands
<1>4. \A n \in Missions : \A w \in Records : Copy(n, w) => w = rec[n]
  BY <1>1 DEF Copy, Held
<1>5. spent.soils = 0 => \A d \in OnBranch : d[1] # m
  <2>1. ASSUME spent.soils = 0, NEW d \in OnBranch, d[1] = m PROVE FALSE
    <3>1. d[2] = x.commit
      BY <1>1, <2>1 DEF Sound, Lands
    <3>2. d \in Deliveries
      BY <1>2, <2>1 DEF ConductorInv, Types, Histories
    <3>3. d = <<d[1], d[2]>>
      BY <3>2 DEF Deliveries
    <3> QED BY <2>1, <3>1, <3>3
  <2> QED BY <2>1
<1> HIDE DEF head
<1>6. /\ git' \in [branch : Seq(Deliveries), merging : BOOLEAN, dirty : BOOLEAN] /\ git'.dirty = git.dirty
      /\ OnBranch' = ToSet(head) \/ OnBranch' = OnBranch
  BY <1>2, <1>3 DEF OnBranch, head
<1>7. OnBranch' \subseteq OnBranch /\ ToSet(head) \subseteq OnBranch'
  BY <1>3, <1>6
<1>8. Stay
  <2>1. ASSUME NEW n \in Missions, NEW w \in Records, Copy(n, w) PROVE Sound(n, w, hist', board', OnBranch', spent')
    <3>1. Sound(n, w, hist, board, OnBranch, spent) /\ hist' = hist /\ board' = board /\ spent' = spent
      BY <2>1 DEF ConductorInv, AllSound
    <3>2. /\ w.st = "integrating" => n = m /\ w.preHead = head
          /\ w.st = "integrated" /\ ~w.skipped => <<n, w.commit>> \in ToSet(head)
      <4>1. n = m => w = x
        BY <1>4, <2>1
      <4>2. /\ w.st = "integrating" => n = m
            /\ w.st = "integrated" /\ ~w.skipped /\ m # n => <<n, w.commit>> \in ToSet(x.preHead)
        BY <1>1, <2>1 DEF ConductorInv, OneMerge
      <4> QED BY <4>1, <4>2 DEF head
    <3>3. /\ w.st = "integrated" /\ ~w.skipped => <<n, w.commit>> \in OnBranch'
          /\ w.st = "integrating" => ToSet(w.preHead) \subseteq OnBranch'
      BY <1>7, <3>2
    <3>4. \A e \in OnBranch' : e \in OnBranch
      BY <1>7
    <3> QED BY <3>1, <3>3, <3>4, BranchSound
  <2> QED BY <2>1 DEF Stay
<1>9. y \in Records /\ Sound(m, y, hist', board', OnBranch', spent') /\ y.st = "approved" /\ y.attempt = x.attempt
      /\ y.commit = x.commit /\ y.skipped = x.skipped
  <2>1. Sound(m, x, hist', board', OnBranch', spent')
    BY <1>1, <1>8 DEF Stay
  <2>2. Sound(m, x, hist, board, OnBranch', spent)
    BY <2>1
  <2>3. y \in Records /\ Sound(m, y, hist, board, OnBranch', spent) /\ y.st = "approved" /\ y.attempt = x.attempt
        /\ y.commit = x.commit /\ y.skipped = x.skipped
    <3>1. x.st = "integrating" /\ y = [x EXCEPT !.st = "approved"]
      OBVIOUS
    <3>2. spent.soils = 0 => \A d \in OnBranch' : d[1] # m
      BY <1>5, <1>7
    <3> HIDE DEF x
    <3> QED BY <1>1, <2>2, <3>1, <3>2, RedoSound
  <2> QED BY <2>3
<1>10. f \in [Missions -> Records] /\ \A n \in Missions : f[n] = IF n = m THEN y ELSE rec[n]
  BY <1>1, <1>9, ProcessTypes
<1>11. Behind(x, y) /\ Follows(x, y)
  <2>1. ~x.skipped
    BY <1>1 DEF Sound, Tells, Ended
  <2> QED BY <1>9, <2>1 DEF Behind, Follows
<1>12. \/ rec' = [rec EXCEPT ![m] = y] /\ c' = [k EXCEPT !.mem = f]
       \/ rec' \in {rec, [rec EXCEPT ![m] = y]} /\ c' = Broken
  BY DEF Put
<1>13. faults' \in Nat /\ rec' \in [Missions -> Records]
  BY <1>1, <1>2, <1>9 DEF Put, Fault
<1>14. ASSUME c' \in Processes, \A t \in Tasks : EntryFits(c'.seen[t]) PROVE Mild
  BY <1>2, <1>6, <1>7, <1>8, <1>13, <1>14, SameHistory DEF Mild, ConductorInv, Types, TypeOK, WorldFits
<1>15. CASE rec' = [rec EXCEPT ![m] = y] /\ c' = [k EXCEPT !.mem = f]
  <2>1. c' \in Processes /\ c'.pc = "repair" /\ c'.job = c.job /\ c'.mem = f /\ c'.seen = c.seen /\ c'.busy = c.busy
    BY <1>10, <1>15 DEF Processes
  <2>2. Mild
    BY <1>14, <2>1 DEF ConductorInv, WorldFits
  <2>3. \A n \in Missions : f[n] = rec'[n] /\ Reads(n, f[n], c.seen, board)
    BY <1>1, <1>9, <1>10, <1>15 DEF Reads
  <2>4. c.job = "repair" => c.busy
    BY DEF ConductorInv, AtCall
  <2>5. \A t \in Tasks : c.seen[t].st # "none" => board[t].st # "none"
    BY DEF ConductorInv, AllRead
  <2>6. /\ c'.pc = "repair" /\ c'.job \in {"startup", "repair"} /\ (c'.job = "repair" => c'.busy)
        /\ \A n \in Missions : c'.mem[n] = rec'[n] /\ Reads(n, c'.mem[n], c'.seen, board')
        /\ \A t \in Tasks : c'.seen[t].st # "none" => board'[t].st # "none"
    BY <1>1, <2>1, <2>3, <2>4, <2>5
  <2> QED BY <1>1, <1>9, <1>11, <1>15, <2>2, <2>6, RepairingInv
<1>16. CASE rec' \in {rec, [rec EXCEPT ![m] = y]} /\ c' = Broken
  <2>1. Mild
    BY <1>14, <1>16, BrokenIs
  <2> QED BY <1>1, <1>9, <1>11, <1>16, <2>1, BrokenInv
<1> QED BY <1>12, <1>15, <1>16

LEMMA ResumeInv == ASSUME ConductorInv, NEW m \in Missions, Resume(m) PROVE ConductorInv'
<1> DEFINE x == rec[m]
           y == [x EXCEPT !.st = "approved"]
           k == [c EXCEPT !.cur = m]
           f == [c.mem EXCEPT ![m] = y]
<1>1. c.pc = "repair"
  BY DEF Resume
<1>2. c \in Processes /\ rec \in [Missions -> Records] /\ x \in Records /\ c.mem[m] = x
      /\ Sound(m, x, hist, board, OnBranch, spent)
  BY <1>1, AtRepair
<1>3. x.st = "integrating" /\ UNCHANGED <<chg, board, gates, ledger, overdue, spent, hist>>
  BY <1>2 DEF Resume, Integrating, world
<1>4. k \in Processes /\ k.cur = m /\ k.job = c.job /\ k.mem = c.mem /\ k.seen = c.seen /\ k.busy = c.busy /\ k.pc = "repair"
  <2>1. m \in 0 .. N
    BY Constants DEF Missions
  <2> QED BY <1>1, <1>2, <2>1 DEF Processes
<1>5. \/ /\ <<m, x.commit>> \notin OnBranch /\ Put(m, y, [k EXCEPT !.mem[m] = y], Broken)
         /\ git' = [git EXCEPT !.branch = IF IsPrefix(x.preHead, @) THEN x.preHead ELSE @]
      \/ /\ <<m, x.commit>> \in OnBranch /\ git' = git /\ x.tested = git.branch /\ Take(k, m, x, "integrated")
      \/ /\ <<m, x.commit>> \in OnBranch /\ git' = git /\ c' = At(k, "suite", x) /\ rec' = rec /\ faults' = faults
  BY <1>2 DEF Resume, OnBranch
<1>6. CASE /\ <<m, x.commit>> \notin OnBranch /\ Put(m, y, [k EXCEPT !.mem[m] = y], Broken)
           /\ git' = [git EXCEPT !.branch = IF IsPrefix(x.preHead, @) THEN x.preHead ELSE @]
  <2>1. [k EXCEPT !.mem[m] = y] = [k EXCEPT !.mem = f]
    BY <1>4 DEF Processes
  <2>2. git' = [git EXCEPT !.branch = x.preHead] \/ git' = git
    <3>1. git \in [branch : Seq(Deliveries), merging : BOOLEAN, dirty : BOOLEAN]
      BY DEF ConductorInv, Types, TypeOK
    <3> QED BY <1>6, <3>1
  <2> HIDE DEF k
  <2> QED BY <1>1, <1>3, <1>4, <1>6, <2>1, <2>2, ResumeAgain
<1>7. CASE <<m, x.commit>> \in OnBranch /\ git' = git /\ x.tested = git.branch /\ Take(k, m, x, "integrated")
  <2>1. OnBranch \subseteq hist.green
    BY <1>2, <1>7 DEF Sound, Tells, OnBranch
  <2>2. Rightly(m, x, "integrated", hist, board, OnBranch, spent)
    BY <1>3, <1>7, <2>1 DEF Rightly, Events, Life!From
  <2> HIDE DEF k
  <2> QED BY <1>1, <1>3, <1>4, <1>7, <2>2, RepairTake
<1>8. CASE /\ <<m, x.commit>> \in OnBranch /\ git' = git /\ c' = At(k, "suite", x) /\ rec' = rec /\ faults' = faults
  <2> HIDE DEF k
  <2>1. /\ c' \in Processes /\ c'.pc = "suite" /\ c'.cur = m /\ c'.r = x /\ c'.job = c.job /\ c'.mem = c.mem
        /\ c'.seen = c.seen /\ c'.busy = c.busy
    <3>1. "suite" \in Steps
      BY DEF Steps, Working
    <3> QED BY <1>2, <1>4, <1>8, <3>1, AtIs
  <2>2. Behind(x, x) /\ Follows(x, x)
    BY <1>2, <1>3 DEF Behind, Follows, Sound, Tells, Ended
  <2>3. faults' \in Nat
    BY <1>8 DEF ConductorInv, Types
  <2> QED BY <1>1, <1>2, <1>3, <1>8, <2>1, <2>2, <2>3, RepairTakes
<1> QED BY <1>5, <1>6, <1>7, <1>8

-----------------------------------------------------------------------------
(* The operator's commands, the end of a pass, a crash.                     *)

\* What is calm besides: a command or a crash is counted.
LEMMA CountedCalm ==
    ASSUME ConductorInv, c' \in Processes, rec' \in [Missions -> Records], faults' \in Nat,
           \A t \in Tasks : EntryFits(c'.seen[t]),
           \/ spent' = [spent EXCEPT !.ops = @ + 1] /\ spent.ops < MaxOps
           \/ spent' = [spent EXCEPT !.crashes = @ + 1],
           UNCHANGED <<chg, board, gates, git, ledger, overdue, hist>>
    PROVE  Calm
<1>1. spent \in [{"ops", "crashes", "verdicts", "soils"} -> Nat] /\ spent.ops <= MaxOps /\ spent.ops \in Nat /\ MaxOps \in Nat
      /\ spent.crashes \in Nat
  BY Constants DEF ConductorInv, Types
<1>2. /\ spent' \in [{"ops", "crashes", "verdicts", "soils"} -> Nat] /\ spent'.ops <= MaxOps /\ spent'.soils = spent.soils
      /\ spent'.ops = spent.ops \/ spent'.ops = spent.ops + 1
  BY <1>1
<1>3. Grows(hist, hist') /\ hist' \in Histories /\ \A m \in Missions : hist'.noted[m] <= 1
  BY SameHistory
<1>4. Stay
  BY <1>2, <1>3, CalmStays
<1>5. OnBranch' \subseteq hist'.checked \cap hist'.approved
  BY DEF OnBranch, ConductorInv, MergedWasReviewed
<1> QED BY <1>2, <1>3, <1>4, <1>5 DEF Calm, Mild, ConductorInv, Types, TypeOK, WorldFits

LEMMA CrashInv == ASSUME ConductorInv, Crash PROVE ConductorInv'
<1>1. /\ c' = Off /\ spent' = [spent EXCEPT !.crashes = @ + 1]
      /\ UNCHANGED <<rec, chg, board, gates, git, ledger, overdue, faults, hist>>
  BY DEF Crash, redis
<1>2. c' \in Processes /\ \A t \in Tasks : c'.seen[t].st = "none"
  BY <1>1, AtRest
<1>3. rec' \in [Missions -> Records] /\ faults' \in Nat
  BY <1>1 DEF ConductorInv, Types, TypeOK
<1>4. Calm
  BY <1>1, <1>2, <1>3, CountedCalm DEF EntryFits
<1> QED BY <1>1, <1>4, RestOld

LEMMA EndAbortInv == ASSUME ConductorInv, EndAbort PROVE ConductorInv'
<1>1. /\ c' = Idle /\ (chg' = chg \/ chg' = [chg EXCEPT !.st = "aborted"]) /\ faults' \in Nat
      /\ UNCHANGED <<rec, board, gates, git, ledger, overdue, spent, hist>>
  BY DEF EndAbort, Call, Fault, world, ConductorInv, Types
<1>2. c' \in Processes /\ \A t \in Tasks : c'.seen[t].st = "none"
  BY <1>1, AtRest
<1>3. /\ chg' \in [st : {"active", "aborted"}, complete : BOOLEAN, failedHeads : SUBSET Seq(Deliveries), dirtyTold : BOOLEAN]
      /\ chg'.complete = chg.complete
  <2>1. chg \in [st : {"active", "aborted"}, complete : BOOLEAN, failedHeads : SUBSET Seq(Deliveries), dirtyTold : BOOLEAN]
    BY DEF ConductorInv, Types, TypeOK
  <2> QED BY <1>1, <2>1
<1>4. Stay /\ OnBranch' \subseteq hist'.checked \cap hist'.approved
  BY <1>1, BranchKept
<1>5. Calm
  BY <1>1, <1>2, <1>3, <1>4, SameHistory DEF Calm, Mild, ConductorInv, Types, TypeOK, WorldFits, EntryFits
<1> QED BY <1>1, <1>5, RestOld

LEMMA CompleteInv == ASSUME ConductorInv, Complete PROVE ConductorInv'
<1> DEFINE done == [hist EXCEPT !.completed = @ + 1]
           told == [chg EXCEPT !.dirtyTold = git.dirty]
           over == [chg EXCEPT !.complete = TRUE, !.failedHeads = {}]
           red == [chg EXCEPT !.failedHeads = {git.branch}]
           Changes == [st : {"active", "aborted"}, complete : BOOLEAN, failedHeads : SUBSET Seq(Deliveries), dirtyTold : BOOLEAN]
<1>1. /\ c.pc = "complete" /\ (c' = Idle \/ c' = c) /\ faults' \in Nat
      /\ UNCHANGED <<rec, board, gates, git, ledger, overdue, spent>>
      /\ \/ hist' = hist /\ chg' \in {chg, told, red}
         \/ ~chg.complete /\ hist' = done /\ chg' = over
  BY DEF Complete, Call, Fault, world, ConductorInv, Types
<1>2. chg \in Changes /\ git.dirty \in BOOLEAN /\ git.branch \in Seq(Deliveries) /\ hist \in Histories
      /\ c \in Processes /\ rec \in [Missions -> Records] /\ hist.completed <= 1 /\ (hist.completed = 1 => chg.complete)
  BY DEF ConductorInv, Types, TypeOK, WorldFits
<1>3. told \in Changes /\ red \in Changes /\ over \in Changes
      /\ told.complete = chg.complete /\ red.complete = chg.complete /\ over.complete
  BY <1>2
<1>4. ~chg.complete => hist.completed = 0
  BY <1>2 DEF Histories
<1>5. /\ done \in Histories /\ done.completed = hist.completed + 1 /\ done.noted = hist.noted /\ done.told = hist.told
      /\ done.warned = hist.warned /\ done.checked = hist.checked /\ done.approved = hist.approved /\ done.green = hist.green
  <2> DEFINE sent == hist.completed + 1
  <2>1. sent \in Nat /\ done = [hist EXCEPT !.completed = sent]
    BY <1>2 DEF Histories
  <2> HIDE DEF sent, done
  <2>2. /\ done \in Histories /\ done.completed = sent /\ done.noted = hist.noted /\ done.told = hist.told
        /\ done.warned = hist.warned
    BY <1>2, <2>1 DEF Histories
  <2>3. done.checked = hist.checked /\ done.approved = hist.approved /\ done.green = hist.green
    BY <1>2, <2>1 DEF Histories
  <2> QED BY <2>2, <2>3 DEF sent
<1> HIDE DEF done, told, over, red
<1>6. /\ hist' \in Histories /\ Grows(hist, hist') /\ hist'.completed <= 1 /\ (hist'.completed = 1 => chg'.complete)
      /\ hist'.noted = hist.noted
  BY <1>1, <1>2, <1>3, <1>4, <1>5 DEF Grows
<1>7. Stay /\ OnBranch' \subseteq hist'.checked \cap hist'.approved
  <2>1. Stay
    BY <1>1, <1>6, CalmStays
  <2> QED BY <1>1, <1>6, <2>1 DEF OnBranch, Grows, ConductorInv, MergedWasReviewed
<1>8. c' \in Processes /\ \A t \in Tasks : EntryFits(c'.seen[t])
  <2>1. c' = Idle => c' \in Processes /\ \A t \in Tasks : c'.seen[t].st = "none"
    BY AtRest
  <2> QED BY <1>1, <1>2, <2>1 DEF ConductorInv, WorldFits, EntryFits
<1>9. Calm
  <2>1. chg' \in Changes
    BY <1>1, <1>2, <1>3
  <2> QED BY <1>1, <1>2, <1>6, <1>7, <1>8, <2>1 DEF Calm, Mild, ConductorInv, Types, TypeOK, WorldFits, SignalsHonest
<1>10. CASE c' = Idle
  BY <1>1, <1>9, <1>10, RestOld
<1>11. CASE c' = c
  <2>1. \A n \in Missions : ~Keeps(c', n) /\ ~Has(c', n)
    BY <1>1, <1>11 DEF Keeps, Has, Working
  <2>2. \A n \in Missions : \A x \in Records : Held(n, x, rec', c') => Copy(n, x)
    BY <1>1, <2>1 DEF Held, Copy
  <2>3. Agree' /\ AtMerge'
    BY <1>1, <1>11, <2>1 DEF Agree, AtMerge, Working, Merging
  <2>4. AtCall'
    BY <1>1, <1>11 DEF AtCall, Working, Merging
  <2>5. AllRead'
    BY <1>1, <1>11, <2>1 DEF ConductorInv, AllRead, Working
  <2> QED BY <1>9, <2>2, <2>3, <2>4, <2>5, CalmOld
<1> QED BY <1>1, <1>10, <1>11

LEMMA StartAbortInv == ASSUME ConductorInv, StartAbort PROVE ConductorInv'
<1> DEFINE todo == {m \in Missions : rec[m].st \notin Life!Final}
           k1 == [Read EXCEPT !.job = "abort"]
           k2 == [k1 EXCEPT !.pc = "abort"]
<1>1. Read \in Processes /\ Read.mem = rec /\ Read.seen = board /\ rec \in [Missions -> Records] /\ faults \in Nat
  BY ReadIs DEF ConductorInv, Types, TypeOK
<1>2. /\ c' = [Read EXCEPT !.job = "abort", !.pc = "abort", !.todo = todo]
      /\ spent' = [spent EXCEPT !.ops = @ + 1] /\ spent.ops < MaxOps
      /\ UNCHANGED <<rec, chg, board, gates, git, ledger, overdue, faults, hist>>
  BY DEF StartAbort, Command, redis
<1>3. c' = [k2 EXCEPT !.todo = todo] /\ todo \subseteq Missions
  BY <1>1, <1>2 DEF Processes
<1>4. k1 \in Processes /\ k1.job = "abort" /\ k1.mem = rec /\ k1.seen = board
  BY <1>1 DEF Processes
<1> HIDE DEF k1
<1>5. k2 \in Processes /\ k2.pc = "abort" /\ k2.job = "abort" /\ k2.mem = rec /\ k2.seen = board
  BY <1>4 DEF Processes, Steps, Resting
<1>6. \A m \in todo : rec[m].st \notin Ended
  BY DEF Life!Final, Ended
<1> HIDE DEF k2, todo
<1>7. c' \in Processes /\ c'.pc = "abort" /\ c'.job = "abort" /\ c'.mem = rec /\ c'.seen = board /\ c'.todo = todo
  BY <1>3, <1>5 DEF Processes
<1>8. \A n \in Missions : ~Has(c', n) /\ c'.mem[n] = rec[n]
  BY <1>7 DEF Has, Working
<1>9. Calm
  BY <1>1, <1>2, <1>7, CountedCalm DEF ConductorInv, WorldFits
<1>10. \A n \in Missions : \A x \in Records : Held(n, x, rec', c') => Copy(n, x)
  BY <1>2, <1>8 DEF Held, Copy
<1>11. Agree'
  BY <1>2, <1>7, <1>8 DEF Agree, Working
<1>12. AtCall'
  BY <1>6, <1>7 DEF AtCall, Working, Merging
<1>13. AtMerge' /\ AllRead'
  BY <1>2, <1>7 DEF AtMerge, AllRead, Working, Merging
<1> QED BY <1>9, <1>10, <1>11, <1>12, <1>13, CalmOld

\* What an abort has in hand.
LEMMA AbortTakes ==
    ASSUME ConductorInv, c.pc = "abort", NEW m \in c.todo, NEW z \in Records, NEW pc2 \in {"turn", "failed"},
           c' \in Processes, c'.pc = pc2, c'.cur = m, c'.r = z, c'.job = c.job, c'.mem = c.mem, c'.seen = c.seen,
           c'.todo = c.todo \ {m}, rec' = rec \/ rec' = [rec EXCEPT ![m] = z], faults' \in Nat,
           Follows(rec[m], z), Sound(m, z, hist, board, OnBranch, spent), pc2 # "failed" => rec'[m] = z,
           UNCHANGED <<chg, board, gates, git, ledger, overdue, spent, hist>>
    PROVE  ConductorInv'
<1>1. /\ c \in Processes /\ c.job = "abort" /\ rec \in [Missions -> Records] /\ m \in Missions
      /\ \A n \in c.todo : n \in Missions /\ Keeps(c, n) /\ c.mem[n].st \notin Ended
  BY DEF ConductorInv, AtCall, Types, TypeOK, Keeps
<1>2. rec[m] \in Records /\ Copy(m, rec[m]) /\ c'.pc \in Working /\ pc2 \in Working /\ pc2 \notin Merging
  BY <1>1 DEF Copy, Held, Working, Merging
<1>3. \A n \in Missions : (n # m => rec'[n] = rec[n]) /\ (rec'[n] = rec[n] \/ (n = m /\ rec'[n] = z))
  BY <1>1
<1>4. \A n \in Missions : (Has(c', n) <=> n = m) /\ (Keeps(c', n) => Keeps(c, n) /\ n # m)
  BY <1>1, <1>2 DEF Has, Keeps
<1>5. Makes(m, z)
  BY <1>1, <1>3, <1>4 DEF Makes, Held, Copy
<1>6. Calm
  BY <1>1, CalmAre DEF ConductorInv, WorldFits
<1>7. Agree'
  <2>1. \A n \in Missions : Keeps(c, n) => c.mem[n] = rec[n]
    BY <1>1 DEF ConductorInv, Agree
  <2>2. \A n \in Missions : Keeps(c', n) => c'.mem[n] = rec'[n]
    BY <1>3, <1>4, <2>1
  <2> QED BY <1>1, <2>2 DEF Agree
<1>8. AtCall'
  BY <1>1, <1>2 DEF AtCall, Merging
<1>9. AtMerge'
  BY <1>1, <1>2 DEF AtMerge, Merging
<1>10. AllRead'
  BY <1>1 DEF ConductorInv, AllRead
<1> QED BY <1>1, <1>2, <1>5, <1>6, <1>7, <1>8, <1>9, <1>10, CalmInv

LEMMA AbortMissionInv == ASSUME ConductorInv, NEW m \in Missions, AbortMission(m) PROVE ConductorInv'
<1> DEFINE x == rec[m]
           y == Transition(x, "abort")
           z == Made(x, "abort")
           k == [c EXCEPT !.todo = @ \ {m}, !.cur = m]
<1>1. /\ c.pc = "abort" /\ m \in c.todo /\ Take(k, m, c.mem[m], "abort")
      /\ UNCHANGED <<chg, board, gates, git, ledger, overdue, spent, hist>>
  BY DEF AbortMission, world
<1>2. /\ c \in Processes /\ c.job = "abort" /\ rec \in [Missions -> Records] /\ c.mem[m] = x /\ x \in Records /\ Copy(m, x)
      /\ x.st \notin Ended
  <2>1. c \in Processes /\ c.job = "abort" /\ rec \in [Missions -> Records] /\ Keeps(c, m) /\ c.mem[m].st \notin Ended
    BY <1>1 DEF ConductorInv, AtCall, Types, TypeOK, Keeps
  <2> QED BY <2>1 DEF ConductorInv, Agree, Copy, Held
<1>3. k \in Processes /\ k.cur = m /\ k.job = c.job /\ k.mem = c.mem /\ k.seen = c.seen /\ k.todo = c.todo \ {m}
  <2> DEFINE left == c.todo \ {m}
  <2>1. m \in 0 .. N /\ left \subseteq Missions /\ k = [[c EXCEPT !.todo = left] EXCEPT !.cur = m]
    BY <1>2, Constants DEF Missions, Processes
  <2> HIDE DEF left
  <2> QED BY <1>2, <2>1 DEF Processes, left
<1> HIDE DEF k
<1>4. Sound(m, x, hist, board, OnBranch, spent) /\ spent.ops \in Nat /\ spent.ops <= MaxOps
  BY <1>2 DEF ConductorInv, AllSound, Types
<1>5. Rightly(m, x, "abort", hist, board, OnBranch, spent) /\ "abort" \in Events
  <2>1. x.st \in Life!States
    BY <1>2, RecordTypes
  <2> QED BY <1>2, <2>1 DEF Rightly, Events, Life!From, Life!Final, Ended
<1>6. ~Sends(x, "abort")
  BY <1>2, <1>5, Effects DEF Life!Rejecting
<1>7. y \in Records /\ Sound(m, y, hist, board, OnBranch, spent) /\ z = y
  BY <1>2, <1>4, <1>5, <1>6, MadeSound DEF Made
<1>8. y.st = "aborted"
  <2>1. "abort" \notin Life!Rejecting
    BY DEF Life!Rejecting
  <2> QED BY <1>2, <1>5, <2>1, Fields, Table
<1>9. Follows(x, y)
  BY <1>8 DEF Follows
<1>10. \/ rec' = [rec EXCEPT ![m] = y] /\ faults' = faults /\ c' = At(k, "turn", y)
       \/ rec' \in {rec, [rec EXCEPT ![m] = y]} /\ faults' = faults + 1 /\ c' = Failed(k, y)
  BY <1>1, <1>2, <1>6, <1>7, TakeDoes
<1>11. faults' \in Nat /\ "turn" \in Steps
  BY <1>10 DEF ConductorInv, Types, Steps, Working
<1> HIDE DEF y
<1>12. CASE rec' = [rec EXCEPT ![m] = y] /\ c' = At(k, "turn", y)
  <2>1. /\ c' \in Processes /\ c'.pc = "turn" /\ c'.cur = m /\ c'.r = y /\ c'.job = c.job /\ c'.mem = c.mem
        /\ c'.seen = c.seen /\ c'.todo = c.todo \ {m} /\ rec'[m] = y
    BY <1>2, <1>3, <1>7, <1>11, <1>12, AtIs
  <2> QED BY <1>1, <1>7, <1>9, <1>11, <1>12, <2>1, AbortTakes
<1>13. CASE rec' \in {rec, [rec EXCEPT ![m] = y]} /\ c' = Failed(k, y)
  <2>1. /\ c' \in Processes /\ c'.pc = "failed" /\ c'.cur = m /\ c'.r = y /\ c'.job = c.job /\ c'.mem = c.mem
        /\ c'.seen = c.seen /\ c'.todo = c.todo \ {m}
    BY <1>3, <1>7, <1>13, FailedIs
  <2> QED BY <1>1, <1>7, <1>9, <1>11, <1>13, <2>1, AbortTakes
<1> QED BY <1>10, <1>12, <1>13

\* What a command has in hand.
LEMMA OperateTakes ==
    ASSUME ConductorInv, NEW m \in Missions, NEW z \in Records, NEW pc2 \in {"turn", "publish", "failed"},
           c' \in Processes, c'.pc = pc2, c'.cur = m, c'.r = z, c'.job = "op", c'.seen = board,
           rec' = rec \/ rec' = [rec EXCEPT ![m] = z], faults' \in Nat,
           Follows(rec[m], z), Sound(m, z, hist, board, OnBranch, spent'), pc2 # "failed" => rec'[m] = z,
           pc2 = "publish" => z.st = "requested",
           spent' = [spent EXCEPT !.ops = @ + 1], spent.ops < MaxOps,
           UNCHANGED <<chg, board, gates, git, ledger, overdue, hist>>
    PROVE  ConductorInv'
<1>1. rec \in [Missions -> Records] /\ rec[m] \in Records /\ Copy(m, rec[m])
  BY DEF ConductorInv, Types, TypeOK, Copy, Held
<1>2. pc2 \in Working /\ pc2 \notin Merging
  BY DEF Working, Merging
<1>3. \A n \in Missions : (n # m => rec'[n] = rec[n]) /\ (rec'[n] = rec[n] \/ (n = m /\ rec'[n] = z))
  BY <1>1
<1>4. \A n \in Missions : (Has(c', n) <=> n = m) /\ ~Keeps(c', n)
  BY <1>2 DEF Has, Keeps
<1>5. Makes(m, z)
  BY <1>3, <1>4 DEF Makes, Held, Copy
<1>6. Calm
  BY <1>1, CountedCalm DEF ConductorInv, WorldFits
<1>7. Agree'
  BY <1>4 DEF Agree
<1>8. AtCall'
  BY <1>2 DEF AtCall, Merging
<1>9. AtMerge'
  BY <1>2 DEF AtMerge, Merging
<1>10. AllRead'
  BY <1>4 DEF AllRead
<1>11. Sound(m, z, hist', board, OnBranch, spent')
  BY <1>1
<1> QED BY <1>1, <1>5, <1>6, <1>7, <1>8, <1>9, <1>10, <1>11, CalmInv

\* A skip, and a new round: what they make of a record, with s the events counted then.
LEMMA SkipMade ==
    ASSUME ConductorInv, NEW m \in Missions, NEW w \in Records, Copy(m, w), w.st \in Life!From["skip"],
           NEW s, s.ops = spent.ops + 1, s.soils = spent.soils,
           NEW x \in Records, x.skipped, x.st = w.st, x.attempt = w.attempt, x.rejections = w.rejections,
           x.preHead = w.preHead, x.tested = w.tested, x.history = w.history,
           NEW y, y = Transition(x, "skip"), NEW z, z = Made(x, "skip")
    PROVE  z = y /\ y \in Records /\ Follows(w, y) /\ Sound(m, y, hist, board, OnBranch, s) /\ ~Sends(x, "skip")
<1>1. Sound(m, w, hist, board, OnBranch, spent) /\ spent.ops \in Nat
  BY DEF ConductorInv, AllSound, Types
<1>2. ~Sends(x, "skip")
  <2>1. "skip" \in Events /\ "skip" \notin Life!Rejecting
    BY DEF Events, Life!Rejecting
  <2> QED BY <2>1, Effects
<1>3. y \in Records /\ Sound(m, y, hist, board, OnBranch, s) /\ y.st = "integrated" /\ y.skipped
  BY <1>1, SkipSound
<1> QED BY <1>2, <1>3 DEF Made, Follows

LEMMA RoundMade ==
    ASSUME ConductorInv, NEW m \in Missions, NEW w \in Records, NEW op \in {"retry", "reassign"},
           w.st \in Life!From[op], NEW s, s.ops \in Nat, s.ops <= MaxOps,
           NEW x \in Records, Sound(m, x, hist, board, OnBranch, s), x.st = w.st, x.rejections = 0,
           x.attempt <= MaxAttempts * s.ops, NEW y, y = Transition(x, op), NEW z, z = Made(x, op)
    PROVE  /\ y \in Records /\ z \in Records /\ Follows(w, y) /\ Follows(w, z) /\ z.st = "requested"
           /\ Sound(m, y, hist, board, OnBranch, s) /\ Sound(m, z, hist, board, OnBranch, s)
<1>1. op \in Events /\ op \notin Life!Rejecting /\ op # "skip"
  BY DEF Events, Life!Rejecting
<1>2. Rightly(m, x, op, hist, board, OnBranch, s)
  BY <1>1 DEF Rightly
<1>3. /\ y \in Records /\ Sound(m, y, hist, board, OnBranch, s)
      /\ z \in Records /\ Sound(m, z, hist, board, OnBranch, s)
  BY <1>2, MadeSound
<1>4. y.st = "requested"
  BY <1>1, Fields, Table
<1>5. z.st = "requested"
  <2>1. z = y \/ z = Opened(y)
    BY DEF Made
  <2> QED BY <1>3, <1>4, <2>1 DEF Opened, Records
<1> QED BY <1>3, <1>4, <1>5 DEF Follows

LEMMA OperateInv == ASSUME ConductorInv, NEW m \in Missions, NEW op \in {"retry", "reassign", "skip"}, Operate(m, op) PROVE ConductorInv'
<1> DEFINE x == IF op = "skip" THEN [rec[m] EXCEPT !.skipBy = TRUE, !.skipped = TRUE]
                ELSE [rec[m] EXCEPT !.rejections = 0]
           y == Transition(x, op)
           z == Made(x, op)
           k == [Read EXCEPT !.job = "op", !.cur = m]
<1>1. /\ rec[m].st \in Life!From[op] /\ Take(k, m, x, op)
      /\ spent' = [spent EXCEPT !.ops = @ + 1] /\ spent.ops < MaxOps
      /\ UNCHANGED <<chg, board, gates, git, ledger, overdue, hist>>
  BY DEF Operate, Command
<1>2. Read \in Processes /\ Read.seen = board /\ rec \in [Missions -> Records] /\ faults \in Nat
  BY ReadIs DEF ConductorInv, Types, TypeOK
<1>3. k \in Processes /\ k.cur = m /\ k.job = "op" /\ k.seen = board
  <2> DEFINE k1 == [Read EXCEPT !.job = "op"]
  <2>1. m \in 0 .. N /\ k = [k1 EXCEPT !.cur = m]
    BY <1>2, Constants DEF Missions, Processes
  <2>2. k1 \in Processes /\ k1.job = "op" /\ k1.seen = board
    BY <1>2 DEF Processes
  <2> HIDE DEF k1, k
  <2> QED BY <2>1, <2>2 DEF Processes
<1> HIDE DEF k
<1>4. /\ y \in Records /\ z \in Records /\ Follows(rec[m], y) /\ Follows(rec[m], z)
      /\ Sound(m, y, hist, board, OnBranch, spent') /\ Sound(m, z, hist, board, OnBranch, spent')
      /\ Sends(x, op) => z.st = "requested"
  <2> DEFINE w == rec[m]
  <2>1. w \in Records /\ Copy(m, w)
    BY <1>2 DEF Copy, Held
  <2>2. spent'.ops = spent.ops + 1 /\ spent'.soils = spent.soils
    <3>1. spent \in [{"ops", "crashes", "verdicts", "soils"} -> Nat]
      BY DEF ConductorInv, Types
    <3> QED BY <1>1, <3>1
  <2>3. CASE op = "skip"
    <3> DEFINE v == [w EXCEPT !.skipBy = TRUE]
    <3>1. x = [v EXCEPT !.skipped = TRUE]
      BY <2>1, <2>3 DEF Records
    <3>2. /\ v \in Records /\ v.st = w.st /\ v.attempt = w.attempt /\ v.rejections = w.rejections
          /\ v.preHead = w.preHead /\ v.tested = w.tested /\ v.history = w.history
      BY <2>1 DEF Records
    <3> HIDE DEF v
    <3>3. /\ x \in Records /\ x.skipped /\ x.st = w.st /\ x.attempt = w.attempt /\ x.rejections = w.rejections
          /\ x.preHead = w.preHead /\ x.tested = w.tested /\ x.history = w.history
      BY <3>1, <3>2 DEF Records
    <3>4. y = Transition(x, "skip") /\ z = Made(x, "skip") /\ w.st \in Life!From["skip"]
      BY <1>1, <2>3
    <3> HIDE DEF w, x, y, z
    <3>5. z = y /\ y \in Records /\ Follows(w, y) /\ Sound(m, y, hist, board, OnBranch, spent') /\ ~Sends(x, "skip")
      BY <2>1, <2>2, <3>3, <3>4, SkipMade
    <3> QED BY <2>3, <3>5 DEF w
  <2>4. CASE op \in {"retry", "reassign"}
    <3> DEFINE v == [w EXCEPT !.rejections = 0]
               s == spent'
    <3>1. x = v /\ w.st \in Life!From[op] /\ Sound(m, w, hist, board, OnBranch, spent)
      BY <1>1, <2>1, <2>4 DEF ConductorInv, AllSound
    <3>2. y = Transition(x, op) /\ z = Made(x, op)
      OBVIOUS
    <3>3. s.ops = spent.ops + 1 /\ s.soils = spent.soils /\ spent.ops \in Nat /\ s.ops \in Nat /\ s.ops <= MaxOps
      BY <1>1, <2>2, Constants DEF ConductorInv, Types
    <3> HIDE DEF w, x, y, z, s
    <3>4. /\ v \in Records /\ Sound(m, v, hist, board, OnBranch, s) /\ v.st = w.st /\ v.rejections = 0
          /\ v.attempt <= MaxAttempts * s.ops
      BY <2>1, <3>1, <3>3, RoundSound
    <3> HIDE DEF v
    <3>5. /\ y \in Records /\ z \in Records /\ Follows(w, y) /\ Follows(w, z) /\ z.st = "requested"
          /\ Sound(m, y, hist, board, OnBranch, s) /\ Sound(m, z, hist, board, OnBranch, s)
      BY <2>1, <2>4, <3>1, <3>2, <3>3, <3>4, RoundMade
    <3> QED BY <3>5 DEF w, s
  <2> QED BY <2>3, <2>4
<1>5. \/ /\ rec' = [rec EXCEPT ![m] = z] /\ faults' = faults
         /\ c' = At(k, IF Sends(x, op) THEN "publish" ELSE "turn", z)
      \/ /\ faults' = faults + 1
         /\ rec' \in {rec, [rec EXCEPT ![m] = z]}
         /\ c' = Failed(k, z) \/ (rec' = rec /\ c' = Failed(k, y))
  BY <1>1, TakeDoes
<1>6. faults' \in Nat
  BY <1>2, <1>5
<1> HIDE DEF y, z, x
<1>7. CASE rec' = [rec EXCEPT ![m] = z] /\ c' = At(k, IF Sends(x, op) THEN "publish" ELSE "turn", z)
  <2> DEFINE pc2 == IF Sends(x, op) THEN "publish" ELSE "turn"
  <2>1. pc2 \in Steps /\ pc2 \in {"turn", "publish", "failed"} /\ (pc2 = "publish" => z.st = "requested")
    BY <1>4 DEF Steps, Working
  <2>2. c' = At(k, pc2, z) /\ rec'[m] = z
    BY <1>2, <1>7
  <2> HIDE DEF pc2
  <2>3. c' \in Processes /\ c'.pc = pc2 /\ c'.cur = m /\ c'.r = z /\ c'.job = "op" /\ c'.seen = board
    BY <1>3, <1>4, <2>1, <2>2, AtIs
  <2> QED BY <1>1, <1>4, <1>6, <1>7, <2>1, <2>2, <2>3, OperateTakes
<1>8. CASE rec' \in {rec, [rec EXCEPT ![m] = z]} /\ c' = Failed(k, z)
  <2>1. c' \in Processes /\ c'.pc = "failed" /\ c'.cur = m /\ c'.r = z /\ c'.job = "op" /\ c'.seen = board
    BY <1>3, <1>4, <1>8, FailedIs
  <2> QED BY <1>1, <1>4, <1>6, <1>8, <2>1, OperateTakes
<1>9. CASE rec' = rec /\ c' = Failed(k, y)
  <2>1. c' \in Processes /\ c'.pc = "failed" /\ c'.cur = m /\ c'.r = y /\ c'.job = "op" /\ c'.seen = board
    BY <1>3, <1>4, <1>9, FailedIs
  <2> QED BY <1>1, <1>4, <1>6, <1>9, <2>1, OperateTakes
<1> QED BY <1>5, <1>7, <1>8, <1>9

-----------------------------------------------------------------------------
(* The steps around the conductor, which leave the process as it is.        *)

LEMMA OutsideInv ==
    ASSUME ConductorInv, UNCHANGED <<c, rec, chg, gates, faults>>, git'.branch = git.branch,
           git' \in [branch : Seq(Deliveries), merging : BOOLEAN, dirty : BOOLEAN],
           ledger' \in [Deliveries -> {"PENDING", "APPROVED", "REJECTED"}], overdue' \in SUBSET Tasks,
           spent' \in [{"ops", "crashes", "verdicts", "soils"} -> Nat], spent'.ops <= MaxOps, spent'.soils = 0 => spent.soils = 0,
           hist' \in Histories, Grows(hist, hist'), hist'.noted = hist.noted, board' \in [Tasks -> Entries],
           \A t \in Tasks : board[t].st # "none" => board'[t].st # "none", Stay, AllRead', WorldFits'
    PROVE  ConductorInv'
<1>1. Types'
  BY DEF ConductorInv, Types, TypeOK
<1>2. \A n \in Missions : \A x \in Records : Held(n, x, rec', c') => Copy(n, x)
  BY DEF Held, Copy, Keeps, Has
<1>3. AllSound'
  BY <1>2 DEF AllSound, Stay, Copy
<1>4. OneMerge'
  BY <1>2, MergeStays DEF ConductorInv
<1>5. Agree'
  BY DEF ConductorInv, Agree, Keeps, Has
<1>6. OnBranch' = OnBranch
  BY DEF OnBranch
<1>7. AtCall'
  <2>1. c.pc = "tell" => board'[<<c.cur, r.history[Oldest].n>>].st # "none"
    <3>1. CASE c.pc = "tell"
      <4>1. c.cur \in Missions /\ r.history[Oldest].n \in Attempts /\ board[<<c.cur, r.history[Oldest].n>>].st # "none"
        BY <3>1, InHand, OldestOwed DEF ConductorInv, AtCall, Working
      <4> QED BY <4>1 DEF Tasks
    <3> QED BY <3>1
  <2>2. r' = r /\ Owed' = Owed /\ Oldest' = Oldest
    BY DEF r, Owed, Oldest
  <2> QED BY <2>1, <2>2 DEF ConductorInv, AtCall
<1>8. AtMerge'
  BY <1>2, <1>6 DEF ConductorInv, AtMerge, Copy
<1>9. MergedWasReviewed'
  BY <1>6 DEF ConductorInv, MergedWasReviewed, Grows
<1>10. SignalsHonest'
  <2>1. \A n \in Missions : hist'.noted[n] <= 1
    BY DEF ConductorInv, SignalsHonest
  <2> QED BY <1>1, <1>3, <2>1, SignalsAre
<1> QED BY <1>1, <1>3, <1>4, <1>5, <1>7, <1>8, <1>9, <1>10 DEF ConductorInv

\* What the rest of the world does, the board aside.
LEMMA ApartInv ==
    ASSUME ConductorInv, UNCHANGED <<c, rec, chg, board, gates, faults>>, git'.branch = git.branch,
           git' \in [branch : Seq(Deliveries), merging : BOOLEAN, dirty : BOOLEAN], git'.dirty => spent'.soils # 0,
           ledger' \in [Deliveries -> {"PENDING", "APPROVED", "REJECTED"}], overdue' \in SUBSET Tasks,
           \A d \in Deliveries : ledger'[d] = "APPROVED" => d \in hist'.approved,
           spent' \in [{"ops", "crashes", "verdicts", "soils"} -> Nat], spent'.ops = spent.ops, spent'.soils = 0 => spent.soils = 0,
           hist' \in Histories, Grows(hist, hist'), hist'.noted = hist.noted, hist'.completed = hist.completed
    PROVE  ConductorInv'
<1>1. Stay
  BY CalmStays
<1>2. AllRead'
  BY DEF ConductorInv, AllRead, Keeps, Has, Reads
<1>3. WorldFits'
  BY DEF ConductorInv, WorldFits
<1>4. spent'.ops <= MaxOps /\ board' \in [Tasks -> Entries]
  BY DEF ConductorInv, Types, TypeOK
<1> QED BY <1>1, <1>2, <1>3, <1>4, OutsideInv

LEMMA StutterInv == ASSUME ConductorInv, UNCHANGED vars PROVE ConductorInv'
<1>1. UNCHANGED <<c, rec, chg, board, gates, faults, git, ledger, overdue, spent, hist>>
  BY DEF vars
<1>2. /\ git \in [branch : Seq(Deliveries), merging : BOOLEAN, dirty : BOOLEAN] /\ (git.dirty => spent.soils # 0)
      /\ ledger \in [Deliveries -> {"PENDING", "APPROVED", "REJECTED"}] /\ overdue \in SUBSET Tasks
      /\ \A d \in Deliveries : ledger[d] = "APPROVED" => d \in hist.approved
      /\ spent \in [{"ops", "crashes", "verdicts", "soils"} -> Nat] /\ hist \in Histories
  BY DEF ConductorInv, Types, TypeOK, WorldFits
<1>3. Grows(hist, hist')
  BY <1>1 DEF Grows
<1> QED BY <1>1, <1>2, <1>3, ApartInv

LEMMA DeadlineInv == ASSUME ConductorInv, NEW t \in Tasks, Deadline(t) PROVE ConductorInv'
<1>1. UNCHANGED <<c, rec, chg, board, gates, faults, git, ledger, spent, hist>> /\ overdue' = overdue \cup {t}
  BY DEF Deadline, redis
<1>2. /\ git \in [branch : Seq(Deliveries), merging : BOOLEAN, dirty : BOOLEAN] /\ (git.dirty => spent.soils # 0)
      /\ ledger \in [Deliveries -> {"PENDING", "APPROVED", "REJECTED"}] /\ overdue' \in SUBSET Tasks
      /\ \A d \in Deliveries : ledger[d] = "APPROVED" => d \in hist.approved
      /\ spent \in [{"ops", "crashes", "verdicts", "soils"} -> Nat] /\ hist \in Histories
  BY <1>1 DEF ConductorInv, Types, TypeOK, WorldFits
<1>3. Grows(hist, hist')
  BY <1>1 DEF Grows
<1> QED BY <1>1, <1>2, <1>3, ApartInv

LEMMA SoilInv == ASSUME ConductorInv, Soil \/ Clean PROVE ConductorInv'
<1>1. UNCHANGED <<c, rec, chg, board, gates, faults, ledger, overdue, hist>>
  BY DEF Soil, Clean, redis, world
<1>2. /\ git \in [branch : Seq(Deliveries), merging : BOOLEAN, dirty : BOOLEAN]
      /\ ledger \in [Deliveries -> {"PENDING", "APPROVED", "REJECTED"}] /\ overdue \in SUBSET Tasks
      /\ \A d \in Deliveries : ledger[d] = "APPROVED" => d \in hist.approved
      /\ spent \in [{"ops", "crashes", "verdicts", "soils"} -> Nat] /\ hist \in Histories
  BY DEF ConductorInv, Types, TypeOK, WorldFits
<1>3. \/ git' = [git EXCEPT !.dirty = TRUE] /\ spent' = [spent EXCEPT !.soils = @ + 1]
      \/ git' = [git EXCEPT !.dirty = FALSE] /\ spent' = spent
  BY DEF Soil, Clean, world
<1>4. /\ git' \in [branch : Seq(Deliveries), merging : BOOLEAN, dirty : BOOLEAN] /\ git'.branch = git.branch
      /\ spent' \in [{"ops", "crashes", "verdicts", "soils"} -> Nat] /\ spent'.ops = spent.ops
      /\ (spent'.soils = 0 => spent.soils = 0) /\ (git'.dirty => spent'.soils # 0)
  <2>1. CASE git' = [git EXCEPT !.dirty = TRUE] /\ spent' = [spent EXCEPT !.soils = @ + 1]
    <3>1. git' \in [branch : Seq(Deliveries), merging : BOOLEAN, dirty : BOOLEAN] /\ git'.branch = git.branch
      BY <1>2, <2>1
    <3>2. spent' \in [{"ops", "crashes", "verdicts", "soils"} -> Nat] /\ spent'.ops = spent.ops /\ spent'.soils # 0
      <4>1. spent.soils \in Nat /\ spent.soils + 1 \in Nat /\ spent.soils + 1 # 0
        BY <1>2
      <4> QED BY <1>2, <2>1, <4>1
    <3> QED BY <3>1, <3>2
  <2>2. CASE git' = [git EXCEPT !.dirty = FALSE] /\ spent' = spent
    BY <1>2, <2>2
  <2> QED BY <1>3, <2>1, <2>2
<1>5. Grows(hist, hist')
  BY <1>1 DEF Grows
<1> QED BY <1>1, <1>2, <1>4, <1>5, ApartInv

LEMMA VerdictInv ==
    ASSUME ConductorInv, NEW d \in Deliveries, NEW decision \in {"APPROVED", "REJECTED"}, Verdict(d, decision)
    PROVE  ConductorInv'
<1> DEFINE approved == IF decision = "APPROVED" THEN hist.approved \cup {d} ELSE hist.approved
<1>1. /\ UNCHANGED <<c, rec, chg, board, gates, faults, git, overdue>> /\ ledger' = [ledger EXCEPT ![d] = decision]
      /\ spent' = [spent EXCEPT !.verdicts = @ + 1] /\ hist' = [hist EXCEPT !.approved = approved]
  BY DEF Verdict, redis
<1>2. /\ git \in [branch : Seq(Deliveries), merging : BOOLEAN, dirty : BOOLEAN] /\ (git.dirty => spent.soils # 0)
      /\ ledger \in [Deliveries -> {"PENDING", "APPROVED", "REJECTED"}] /\ overdue \in SUBSET Tasks
      /\ \A e \in Deliveries : ledger[e] = "APPROVED" => e \in hist.approved
      /\ spent \in [{"ops", "crashes", "verdicts", "soils"} -> Nat] /\ hist \in Histories
  BY DEF ConductorInv, Types, TypeOK, WorldFits
<1>3. approved \subseteq Deliveries /\ hist.approved \subseteq approved /\ (decision = "APPROVED" => d \in approved)
  BY <1>2 DEF Histories
<1> HIDE DEF approved
<1>4. /\ hist' \in Histories /\ Grows(hist, hist') /\ hist'.approved = approved
      /\ hist'.noted = hist.noted /\ hist'.completed = hist.completed
  BY <1>1, <1>2, <1>3 DEF Histories, Grows
<1>5. /\ ledger' \in [Deliveries -> {"PENDING", "APPROVED", "REJECTED"}]
      /\ \A e \in Deliveries : ledger'[e] = "APPROVED" => e \in hist'.approved
  BY <1>1, <1>2, <1>3, <1>4
<1>6. /\ spent' \in [{"ops", "crashes", "verdicts", "soils"} -> Nat] /\ spent'.ops = spent.ops /\ spent'.soils = spent.soils
  <2>1. spent.verdicts \in Nat
    BY <1>2
  <2> QED BY <1>1, <1>2, <2>1
<1> QED BY <1>1, <1>2, <1>4, <1>5, <1>6, ApartInv

\* An agent's report never changes a delivery, on which alone the records and the pass build.
LEMMA ReportInv ==
    ASSUME ConductorInv, NEW t \in Tasks, NEW e \in Entries, EntryFits(e), e.st # "none", Report(t, e)
    PROVE  ConductorInv'
<1>1. /\ board[t].st \notin {"none", "done"} /\ board' = [board EXCEPT ![t] = e]
      /\ UNCHANGED <<c, rec, chg, gates, faults, git, ledger, overdue, spent, hist>>
  BY DEF Report, world
<1>2. /\ git \in [branch : Seq(Deliveries), merging : BOOLEAN, dirty : BOOLEAN] /\ board \in [Tasks -> Entries]
      /\ ledger \in [Deliveries -> {"PENDING", "APPROVED", "REJECTED"}] /\ overdue \in SUBSET Tasks
      /\ spent \in [{"ops", "crashes", "verdicts", "soils"} -> Nat] /\ spent.ops <= MaxOps /\ hist \in Histories
  BY DEF ConductorInv, Types, TypeOK
<1>3. /\ board' \in [Tasks -> Entries] /\ \A u \in Tasks : board'[u] = IF u = t THEN e ELSE board[u]
      /\ \A u \in Tasks : (board[u].st # "none" <=> board'[u].st # "none") /\ (board[u].st = "done" => board'[u] = board[u])
  BY <1>1, <1>2
<1>4. ASSUME NEW n \in Missions, NEW x \in Records, Copy(n, x)
      PROVE  Sound(n, x, hist, board, OnBranch, spent) /\ (x.st \in {"requested", "accepted"} => <<n, x.attempt>> \in Tasks)
  <2>1. Sound(n, x, hist, board, OnBranch, spent)
    BY <1>4 DEF ConductorInv, AllSound
  <2>2. x.st \in {"requested", "accepted"} => x.attempt # 0
    BY <2>1 DEF Sound, Counts, Ended
  <2> QED BY <2>1, <2>2, RecordTypes DEF Tasks
<1>5. Stay
  <2>1. ASSUME NEW n \in Missions, NEW x \in Records, Copy(n, x) PROVE Sound(n, x, hist, board', OnBranch, spent)
    <3>1. Sound(n, x, hist, board, OnBranch, spent)
      BY <1>4, <2>1
    <3>2. \A j \in Attempts : board'[<<n, j>>].st # "none" => board[<<n, j>>].st # "none"
      BY <1>3 DEF Tasks
    <3>3. x.st \in Worked => board'[<<n, x.attempt>>] = board[<<n, x.attempt>>]
      <4>1. x.st \in Worked => x.attempt \in Attempts /\ board[<<n, x.attempt>>].st = "done"
        BY <3>1 DEF Sound, Posts, Delivers
      <4> QED BY <1>3, <4>1 DEF Tasks
    <3> QED BY <3>1, <3>2, <3>3, BoardSound
  <2>2. OnBranch' = OnBranch
    BY <1>1 DEF OnBranch
  <2> QED BY <1>1, <2>1, <2>2 DEF Stay
<1>6. AllRead'
  <2>1. ASSUME NEW n \in Missions, NEW x \in Records, Copy(n, x), Reads(n, x, c.seen, board) PROVE Reads(n, x, c.seen, board')
    BY <1>3, <1>4, <2>1 DEF Reads
  <2>2. \A u \in Tasks : c.seen[u].st # "none" => board'[u].st # "none"
    BY <1>3 DEF ConductorInv, AllRead
  <2>3. ASSUME c.job # "abort", NEW n \in Missions, Keeps(c, n), ~Has(c, n) PROVE Reads(n, c.mem[n], c.seen, board')
    <3>1. Copy(n, c.mem[n]) /\ c.mem[n] \in Records /\ Reads(n, c.mem[n], c.seen, board)
      BY <2>3 DEF ConductorInv, AllRead, Copy, Held, Types, TypeOK
    <3> QED BY <2>1, <3>1
  <2>4. ASSUME c.job = "pass", c.pc \in Working \ {"failed", "late"} PROVE Reads(c.cur, c.r, c.seen, board')
    <3>1. c.cur \in Missions /\ Copy(c.cur, c.r) /\ c.r \in Records /\ Reads(c.cur, c.r, c.seen, board)
      BY <2>4, InHand DEF ConductorInv, AllRead, r
    <3> QED BY <2>1, <3>1
  <2> QED BY <1>1, <2>2, <2>3, <2>4 DEF AllRead, Keeps, Has
<1>7. WorldFits'
  BY <1>1, <1>3 DEF ConductorInv, WorldFits
<1>8. Grows(hist, hist')
  BY <1>1 DEF Grows
<1> QED BY <1>1, <1>2, <1>3, <1>5, <1>6, <1>7, <1>8, OutsideInv

LEMMA ReportsInv ==
    ASSUME ConductorInv, NEW t \in Tasks, Accept(t) \/ Block(t) \/ \E k \in Commits : Done(t, k)
    PROVE  ConductorInv'
<1>1. board[t] \in Entries
  BY DEF ConductorInv, Types, TypeOK
<1>2. CASE Accept(t)
  <2> DEFINE b == board[t]
             e == [b EXCEPT !.st = "accepted", !.acc = TRUE]
  <2>1. e \in Entries /\ e.st = "accepted"
    BY <1>1 DEF Entries
  <2>2. Report(t, e)
    BY <1>2 DEF Accept
  <2> HIDE DEF e
  <2> QED BY <2>1, <2>2, ReportInv DEF EntryFits
<1>3. CASE Block(t)
  <2> DEFINE b == board[t]
             e == [b EXCEPT !.st = "blocked"]
  <2>1. e \in Entries /\ e.st = "blocked"
    BY <1>1 DEF Entries
  <2>2. Report(t, e)
    BY <1>3 DEF Block
  <2> HIDE DEF e
  <2> QED BY <2>1, <2>2, ReportInv DEF EntryFits
<1>4. ASSUME NEW k \in Commits, Done(t, k) PROVE ConductorInv'
  <2> DEFINE b == board[t]
             late == t \in overdue
             e == [b EXCEPT !.st = "done", !.commit = k, !.late = late]
  <2>1. late \in BOOLEAN /\ k # 0 /\ b.acc
    <3>1. late \in BOOLEAN
      OBVIOUS
    <3>2. k # 0
      BY Constants
    <3>3. b.acc
      BY <1>4 DEF Done
    <3> QED BY <3>1, <3>2, <3>3
  <2>2. Report(t, e)
    BY <1>4 DEF Done
  <2> HIDE DEF late
  <2>3. e \in Entries /\ e.st = "done" /\ e.acc /\ e.commit = k
    BY <1>1, <2>1 DEF Entries
  <2> HIDE DEF e
  <2> QED BY <2>1, <2>2, <2>3, ReportInv DEF EntryFits
<1> QED BY <1>2, <1>3, <1>4

-----------------------------------------------------------------------------
(* The invariant.                                                           *)

LEMMA InvInit == ASSUME Init PROVE ConductorInv
<1>1. /\ rec = [m \in Missions |-> New] /\ c = Off /\ faults = 0 /\ board = [t \in Tasks |-> NoEntry]
      /\ chg = [st |-> "active", complete |-> FALSE, failedHeads |-> {}, dirtyTold |-> FALSE]
      /\ git = [branch |-> <<>>, merging |-> FALSE, dirty |-> FALSE] /\ gates = {} /\ overdue = {}
      /\ ledger = [d \in Deliveries |-> "PENDING"]
      /\ spent = [ops |-> 0, crashes |-> 0, verdicts |-> 0, soils |-> 0]
      /\ hist = [told |-> {}, warned |-> {}, asked |-> {}, checked |-> {}, approved |-> {}, green |-> {},
                 noted |-> [m \in Missions |-> 0], completed |-> 0]
  BY DEF Init
<1>2. /\ New \in Records /\ NoEntry \in Entries /\ c \in Processes /\ c.pc = "down" /\ c.job = "pass"
      /\ \A t \in Tasks : c.seen[t].st = "none"
      /\ \A m \in Missions : ~Keeps(c, m) /\ ~Has(c, m)
  <2>1. c.pc = "down" /\ c \in {Off, Idle}
    BY <1>1 DEF Off
  <2> QED BY <2>1, NewIs, AtRest
<1>3. OnBranch = {} /\ ToSet(<<>>) = {}
  BY <1>1 DEF OnBranch, ToSet
<1>4. Types
  <2>1. rec \in [Missions -> Records] /\ board \in [Tasks -> Entries]
    BY <1>1, <1>2
  <2>2. chg \in [st : {"active", "aborted"}, complete : BOOLEAN, failedHeads : SUBSET Seq(Deliveries), dirtyTold : BOOLEAN]
    BY <1>1
  <2>3. git \in [branch : Seq(Deliveries), merging : BOOLEAN, dirty : BOOLEAN] /\ gates \in SUBSET Tasks /\ overdue \in SUBSET Tasks
    BY <1>1
  <2>4. ledger \in [Deliveries -> {"PENDING", "APPROVED", "REJECTED"}]
    BY <1>1
  <2>5. spent \in [{"ops", "crashes", "verdicts", "soils"} -> Nat] /\ spent.ops <= MaxOps
    BY <1>1, Constants
  <2>6. hist \in Histories
    BY <1>1 DEF Histories
  <2>7. /\ c.r \in Records /\ c.mem \in [Missions -> Records] /\ c.seen \in [Tasks -> Entries]
        /\ c.cur \in 0 .. N /\ c.todo \in SUBSET Missions
    BY <1>2, ProcessTypes
  <2> QED BY <1>1, <1>2, <2>1, <2>2, <2>3, <2>4, <2>5, <2>6, <2>7 DEF Types, TypeOK
<1>5. \A m \in Missions : \A x \in Records : Copy(m, x) => x = New
  BY <1>1, <1>2 DEF Copy, Held
<1>6. ASSUME NEW m \in Missions PROVE Sound(m, New, hist, board, OnBranch, spent)
  <2>1. /\ New.st = "pending" /\ New.attempt = 0 /\ New.rejections = 0 /\ New.history = <<>> /\ ~New.skipped
        /\ New.preHead = <<>> /\ New.tested = <<>>
    BY DEF New
  <2> HIDE DEF New
  <2>2. Tells(m, New, hist)
    BY <1>3, <2>1 DEF Tells, Worked
  <2>3. Counts(New, spent.ops)
    <3>1. spent.ops = 0 /\ MaxAttempts >= 1 /\ MaxAttempts \in Nat /\ MaxAttempts * 0 = 0 /\ MaxAttempts * (0 + 1) >= 0
      BY <1>1, Constants
    <3>2. DOMAIN New.history = {}
      BY <2>1
    <3> QED BY <2>1, <3>1, <3>2 DEF Counts
  <2>4. Posts(m, New, hist, board)
    <3>1. \A n \in Attempts : board[<<m, n>>].st = "none"
      BY <1>1 DEF Tasks, NoEntry
    <3>2. \A n \in Attempts : ~GivenUp(New, n)
      BY <2>1 DEF GivenUp, Attempts
    <3> QED BY <2>1, <3>1, <3>2 DEF Posts, Worked
  <2>5. Lands(m, New, hist, OnBranch, spent.soils)
    BY <1>3, <2>1 DEF Lands
  <2> QED BY <2>2, <2>3, <2>4, <2>5 DEF Sound
<1>7. AllSound /\ OneMerge
  <2>1. New.st = "pending"
    BY DEF New
  <2> HIDE DEF New
  <2> QED BY <1>5, <1>6, <2>1 DEF AllSound, OneMerge
<1>8. Agree /\ AtCall /\ AtMerge /\ AllRead
  BY <1>2 DEF Agree, AtCall, AtMerge, AllRead, Working, Merging
<1>9. WorldFits
  BY <1>1, <1>2 DEF WorldFits, EntryFits, NoEntry
<1>10. MergedWasReviewed
  BY <1>3 DEF MergedWasReviewed
<1>11. SignalsHonest
  <2>1. \A m \in Missions : rec[m].st = "pending"
    BY <1>1 DEF New
  <2>2. hist.completed = 0 /\ \A m \in Missions : hist.noted[m] = 0
    BY <1>1
  <2> QED BY <2>1, <2>2 DEF SignalsHonest
<1> QED BY <1>4, <1>7, <1>8, <1>9, <1>10, <1>11 DEF ConductorInv

LEMMA ConductInv == ASSUME ConductorInv, Conduct PROVE ConductorInv'
<1>1. CASE Startup \/ BeginPass
  BY <1>1, StartupInv, BeginPassInv
<1>2. ASSUME NEW m \in Missions, Recheck(m) \/ RepairDirty(m) \/ Resume(m) \/ AbortMission(m) PROVE ConductorInv'
  BY <1>2, RecheckInv, RepairDirtyInv, ResumeInv, AbortMissionInv
<1>3. CASE RepairMerge \/ ReportDirty \/ Repaired
  BY <1>3, RepairMergeInv, ReportDirtyInv, RepairedInv
<1>4. CASE CloseAttempt \/ TellAgent \/ CloseReview \/ OpenReview \/ NoteSkip \/ Escalate \/ Flag
  BY <1>4, CloseAttemptInv, TellAgentInv, CloseReviewInv, OpenReviewInv, NoteSkipInv, EscalateInv, FlagInv
<1>5. CASE Unlock \/ Request \/ Republish \/ Publish \/ Accepted \/ ReadAnswer
  BY <1>5, UnlockInv, RequestInv, RepublishInv, PublishInv, AcceptedInv, ReadAnswerInv
<1>6. CASE StartCheck \/ CheckPasses \/ CheckFails \/ CheckBreaks \/ Uncheck \/ ReadReview
  BY <1>6, StartCheckInv, CheckPassesInv, CheckFailsInv, CheckBreaksInv, UncheckInv, ReadReviewInv
<1>7. CASE Integrate \/ Merge \/ AbortMerge \/ SuiteGreen \/ SuiteRed \/ SuiteBreaks \/ Reset \/ NotIntegrated
  BY <1>7, IntegrateInv, MergeInv, AbortMergeInv, SuiteGreenInv, SuiteRedInv, SuiteBreaksInv, ResetInv, NotIntegratedInv
<1>8. CASE Return \/ Fail \/ NotifyLate \/ EndTurn \/ Complete \/ EndAbort
  BY <1>8, ReturnInv, FailInv, NotifyLateInv, EndTurnInv, CompleteInv, EndAbortInv
<1> QED BY <1>1, <1>2, <1>3, <1>4, <1>5, <1>6, <1>7, <1>8 DEF Conduct

LEMMA InvStep == ASSUME ConductorInv, [Next]_vars PROVE ConductorInv'
<1>1. CASE Conduct
  BY <1>1, ConductInv
<1>2. CASE StartAbort \/ Crash \/ Soil \/ Clean
  BY <1>2, StartAbortInv, CrashInv, SoilInv
<1>3. CASE \E m \in Missions, op \in {"retry", "reassign", "skip"} : Operate(m, op)
  BY <1>3, OperateInv
<1>4. CASE \E t \in Tasks : Accept(t) \/ Block(t) \/ Deadline(t) \/ \E k \in Commits : Done(t, k)
  BY <1>4, ReportsInv, DeadlineInv
<1>5. CASE \E d \in Deliveries, decision \in {"APPROVED", "REJECTED"} : Verdict(d, decision)
  BY <1>5, VerdictInv
<1>6. CASE UNCHANGED vars
  BY <1>6, StutterInv
<1> QED BY <1>1, <1>2, <1>3, <1>4, <1>5, <1>6 DEF Next

\* Every record the conductor holds or may yet write tells the truth about what was
\* checked, approved, delivered and merged, the copies agree with the bus or are behind
\* it by a failed write of a repair only, and at most one merge is under way: in every
\* state, for any number of missions, commands, failures, crashes and verdicts.
THEOREM InvCorrect == Spec => []ConductorInv
BY InvInit, InvStep, PTL DEF Spec

-----------------------------------------------------------------------------
(* What follows from it.                                                    *)

\* The bus, the board, the ledger, the branch and the process keep their types.
THEOREM TypeCorrect == Spec => []TypeOK
<1>1. ConductorInv => TypeOK
  BY DEF ConductorInv, Types
<1> QED BY <1>1, InvCorrect, PTL

\* What is on the change branch passed its checks and was approved by the assigned
\* reviewer, that very commit (runChecks, readReview, integrate).
THEOREM MergedWasReviewedCorrect == Spec => []MergedWasReviewed
<1>1. ConductorInv => MergedWasReviewed
  BY DEF ConductorInv
<1> QED BY <1>1, InvCorrect, PTL

\* A block marked escalated was escalated, and a change's completion and a skip's
\* ledger entry are sent at most once (effects, checkComplete).
THEOREM SignalsHonestCorrect == Spec => []SignalsHonest
<1>1. ConductorInv => SignalsHonest
  BY DEF ConductorInv
<1> QED BY <1>1, InvCorrect, PTL

LEMMA RecordSound ==
    ASSUME ConductorInv, NEW m \in Missions
    PROVE  rec[m] \in Records /\ Sound(m, rec[m], hist, board, OnBranch, spent)
BY DEF ConductorInv, AllSound, Copy, Held, Types, TypeOK

\* A mission that was not skipped is integrated only with its commit on the branch and a
\* green suite on a head that has it, crashes between merge and record included
\* (finishIntegration, Startup).
THEOREM IntegratedIsGreenCorrect == Spec => []IntegratedIsGreen
<1>1. ConductorInv => IntegratedIsGreen
  <2> SUFFICES ASSUME ConductorInv, NEW m \in Missions, rec[m].st = "integrated", ~rec[m].skipped
               PROVE  <<m, rec[m].commit>> \in OnBranch \cap hist.green
    BY DEF IntegratedIsGreen
  <2> QED BY RecordSound DEF Sound, Lands
<1> QED BY <1>1, InvCorrect, PTL

\* What is checked, reviewed and merged was delivered by the mission's current attempt,
\* in time (pastDeadline).
THEOREM DeliveredByCurrentCorrect == Spec => []DeliveredByCurrent
<1>1. ConductorInv => DeliveredByCurrent
  <2> SUFFICES ASSUME ConductorInv, NEW m \in Missions, rec[m].st \in Worked
               PROVE  Delivers(board[<<m, rec[m].attempt>>], rec[m].commit)
    BY DEF DeliveredByCurrent, Delivers, Worked
  <2> QED BY RecordSound DEF Sound, Posts
<1> QED BY <1>1, InvCorrect, PTL

\* An attempt once published is current, or listed in the history of its mission, where it
\* is closed only after its agent was told to stop (transition, closeAttempt).
THEOREM NoForgottenRequestCorrect == Spec => []NoForgottenRequest
<1>1. ConductorInv => NoForgottenRequest
  <2> SUFFICES ASSUME ConductorInv, NEW m \in Missions, NEW n \in Attempts, board[<<m, n>>].st # "none",
                      ~(n = rec[m].attempt /\ rec[m].st # "aborted" /\ ~rec[m].skipped)
               PROVE  Stopped(m, n)
    BY DEF NoForgottenRequest
  <2>1. rec[m] \in Records /\ Posts(m, rec[m], hist, board)
    BY RecordSound DEF Sound
  <2>2. GivenUp(rec[m], n)
    <3>1. n <= rec[m].attempt /\ rec[m].attempt \in Nat /\ n \in Nat
      BY <2>1, RecordTypes, Constants DEF Posts
    <3> QED BY <3>1 DEF GivenUp
  <2>3. Listed(m, rec[m], n, hist, board)
    BY <2>1, <2>2 DEF Posts
  <2> QED BY <2>3 DEF Listed, Stopped
<1> QED BY <1>1, InvCorrect, PTL

\* While nobody soiled the worktree, the branch has commits only of missions that are
\* merging, merged or aborted, the ones their records name (integrate, Reset).
THEOREM OnlyRecordedMergesCorrect == Spec => []OnlyRecordedMerges
<1>1. ConductorInv => OnlyRecordedMerges
  <2> SUFFICES ASSUME ConductorInv, spent.soils = 0, NEW d \in OnBranch
               PROVE  rec[d[1]].st \in {"integrating", "integrated", "aborted"} /\ rec[d[1]].commit = d[2]
    BY DEF OnlyRecordedMerges
  <2>1. d[1] \in Missions
    <3>1. d \in Deliveries
      BY DEF ConductorInv, MergedWasReviewed, Types, Histories
    <3> QED BY <3>1 DEF Deliveries
  <2> QED BY <2>1, RecordSound DEF Sound, Lands, Ended
<1> QED BY <1>1, InvCorrect, PTL

\* Failed calls included, two missions are never merged at a time (advance), ...
THEOREM OneMergeCorrect == Spec => []Life!OneMerge
<1>1. ConductorInv => Life!OneMerge
  <2> SUFFICES ASSUME ConductorInv, NEW m \in Missions, NEW n \in Missions,
                      rec[m].st = "integrating", rec[n].st = "integrating"
               PROVE  m = n
    BY DEF Life!OneMerge
  <2>1. rec[m] \in Records /\ rec[n] \in Records /\ Copy(m, rec[m]) /\ Copy(n, rec[n])
    BY RecordSound DEF Copy, Held
  <2> QED BY <2>1 DEF ConductorInv, OneMerge
<1> QED BY <1>1, InvCorrect, PTL

\* ... and the rejection that fills a round ends it (Ctx, Next).
THEOREM RoundsBoundedCorrect == Spec => []Life!RoundsBounded
<1>1. ConductorInv => Life!RoundsBounded
  <2> SUFFICES ASSUME ConductorInv, NEW m \in Missions
               PROVE  \/ rec[m].rejections < MaxAttempts
                      \/ rec[m].rejections = MaxAttempts /\ rec[m].st \in {"blocked"} \cup Ended
    BY DEF Life!RoundsBounded, Life!Final, Ended
  <2>1. rec[m].rejections \in 0 .. MaxAttempts /\ MaxAttempts \in Nat
    BY RecordSound, Constants DEF Records
  <2> QED BY <2>1, RecordSound DEF Sound, Counts
<1> QED BY <1>1, InvCorrect, PTL

-----------------------------------------------------------------------------
(* Where no call fails, the records live as MissionState says: what the     *)
(* process has in hand is then the record on the bus in its state and its   *)
(* rejections, and so is what a pass will yet take in hand.                 *)

\* An event of the table, with what the conductor adds to it.
Lives == [Life!Next]_(Life!vars)

LEMMA NoFault == ASSUME MaxFaults = 0, ConductorInv PROVE ~Fault
BY DEF ConductorInv, Types, Fault

LEMMA Excepted ==
    ASSUME NEW S, NEW f, f = [n \in S |-> f[n]], NEW e \in S, NEW v
    PROVE  [f EXCEPT ![e] = v] = [n \in S |-> IF n = e THEN v ELSE f[n]]
OBVIOUS

LEMMA StillLives ==
    ASSUME ConductorInv, \A m \in Missions : rec'[m].st = rec[m].st /\ rec'[m].rejections = rec[m].rejections
    PROVE  Lives
BY DEF Lives, Life!vars

LEMMA EventLives ==
    ASSUME ConductorInv, NEW m \in Missions, NEW ev \in DOMAIN Life!From, NEW z, rec' = [rec EXCEPT ![m] = z],
           rec[m].st \in Life!From[ev], z.st = Life!To(ev, Life!Left(rec[m].rejections, ev)),
           z.rejections = IF ev \in Life!Retrying THEN 0 ELSE Life!Count(rec[m].rejections, ev),
           ev = "deps_integrated" => \A d \in DependsOn[m] : rec[d].st = "integrated",
           ev = "integrate_started" => \A n \in Missions : rec[n].st # "integrating"
    PROVE  Lives
<1> DEFINE s == [n \in Missions |-> rec[n].st]
           j == [n \in Missions |-> rec[n].rejections]
<1>1. /\ s[m] = rec[m].st /\ j[m] = rec[m].rejections
      /\ \A n \in Missions : s[n] = rec[n].st
  OBVIOUS
<1>2. DependsOn[m] \subseteq Missions
  BY ConductorAssumption
<1>3. rec'[m] = z /\ \A n \in Missions : n # m => rec'[n] = rec[n]
  BY DEF ConductorInv, Types, TypeOK
<1>4. s' = [s EXCEPT ![m] = z.st] /\ j' = [j EXCEPT ![m] = z.rejections]
  <2>1. \A n \in Missions : /\ rec'[n].st = IF n = m THEN z.st ELSE s[n]
                            /\ rec'[n].rejections = IF n = m THEN z.rejections ELSE j[n]
    BY <1>3
  <2>2. /\ s' = [n \in Missions |-> IF n = m THEN z.st ELSE s[n]]
        /\ j' = [n \in Missions |-> IF n = m THEN z.rejections ELSE j[n]]
    BY <2>1
  <2>3. s = [n \in Missions |-> s[n]] /\ j = [n \in Missions |-> j[n]]
    OBVIOUS
  <2> QED BY <2>2, <2>3, Excepted
<1>5. Life!Event(m, ev)
  BY <1>1, <1>2, <1>4 DEF Life!Event
<1> QED BY <1>5 DEF Lives, Life!Next

LEMMA RedoLives ==
    ASSUME ConductorInv, NEW m \in Missions, NEW z, rec' = [rec EXCEPT ![m] = z], z.rejections = rec[m].rejections,
           \/ rec[m].st = "checking" /\ z.st = "delivered"
           \/ rec[m].st = "integrating" /\ z.st = "approved"
    PROVE  Lives
<1> DEFINE s == [n \in Missions |-> rec[n].st]
           j == [n \in Missions |-> rec[n].rejections]
<1>1. s[m] = rec[m].st
  OBVIOUS
<1>2. rec'[m] = z /\ \A n \in Missions : n # m => rec'[n] = rec[n]
  BY DEF ConductorInv, Types, TypeOK
<1>3. s' = [s EXCEPT ![m] = z.st] /\ j' = j
  <2>1. \A n \in Missions : /\ rec'[n].st = IF n = m THEN z.st ELSE s[n]
                            /\ rec'[n].rejections = j[n]
    BY <1>2
  <2>2. s' = [n \in Missions |-> IF n = m THEN z.st ELSE s[n]] /\ j' = [n \in Missions |-> j[n]]
    BY <2>1
  <2>3. s = [n \in Missions |-> s[n]] /\ j = [n \in Missions |-> j[n]]
    OBVIOUS
  <2> QED BY <2>2, <2>3, Excepted
<1>4. Life!Redo(m)
  BY <1>1, <1>3 DEF Life!Redo
<1> QED BY <1>4 DEF Lives, Life!Next

Same(m, x) == x.st = rec[m].st /\ x.rejections = rec[m].rejections
Exact ==
    /\ c.pc \notin {"failed", "uncheck"}
    /\ c.pc \in Working => Same(c.cur, r)
    /\ c.job = "pass" /\ c.pc \in Working =>
           \A m \in Missions : /\ m > c.cur => c.mem[m] = rec[m]
                               /\ c.mem[m].st = "integrated" => rec[m].st = "integrated"

\* Between two missions nothing is in hand.
LEMMA RestExact == ASSUME c'.pc \in Resting PROVE Exact'
BY DEF Exact, Resting, Working

\* In the turn of a mission, only its own record is written.
LEMMA TurnExact ==
    ASSUME ConductorInv, Exact, c.pc \in Working, c'.pc \in Working \ {"failed", "uncheck"},
           c'.cur = c.cur, c'.job = c.job, c'.mem = c.mem, NEW z, rec' = rec \/ rec' = [rec EXCEPT ![c.cur] = z],
           Same(c.cur, c.r)', rec[c.cur].st = "integrated" => rec'[c.cur].st = "integrated"
    PROVE  Exact'
<1>1. \A n \in Missions : (n # c.cur => rec'[n] = rec[n]) /\ (rec[n].st = "integrated" => rec'[n].st = "integrated")
  BY DEF ConductorInv, Types, TypeOK
<1>2. \A n \in Missions : n > c.cur => n # c.cur
  BY Constants, InHand
<1> QED BY <1>1, <1>2 DEF Exact, r

\* What a pass goes on with.
Forward(z) == c'.pc \in Working => \A n \in Missions : c'.mem[n] = c.mem[n] \/ (n = c.cur /\ c'.mem[n] = z)
LEMMA PassExact ==
    ASSUME ConductorInv, Exact, c.pc \in Working, c.job = "pass", NEW z, Onwards(z), Forward(z),
           rec' = rec \/ rec' = [rec EXCEPT ![c.cur] = z], z.st = rec'[c.cur].st, z.rejections = rec'[c.cur].rejections,
           rec[c.cur].st = "integrated" => rec'[c.cur].st = "integrated"
    PROVE  Exact'
<1>1. c.cur \in Missions /\ c.cur \in Nat /\ Missions \subseteq Nat
  BY InHand, Constants
<1>2. \A n \in Missions : (n # c.cur => rec'[n] = rec[n]) /\ (rec[n].st = "integrated" => rec'[n].st = "integrated")
  BY DEF ConductorInv, Types, TypeOK
<1>3. CASE c'.pc \notin Working
  BY <1>3 DEF Exact, Working
<1>4. CASE c'.pc \in Working
  <2>1. c'.pc \in {"late", "turn"} /\ \A n \in Missions : n > c.cur => c'.mem[n] = c.mem[n]
    BY <1>4 DEF Onwards, Working
  <2>2. \A n \in Missions : n > c.cur => c.mem[n] = rec[n] /\ rec'[n] = rec[n]
    BY <1>1, <1>2 DEF Exact
  <2>3. ASSUME NEW n \in Missions, c'.mem[n].st = "integrated" PROVE rec'[n].st = "integrated"
    BY <1>2, <1>4, <2>3 DEF Forward, Exact
  <2>4. CASE c'.pc = "late"
    <3>1. c'.cur = c.cur /\ c'.r = z
      BY <2>4 DEF Onwards
    <3> QED BY <2>1, <2>2, <2>3, <2>4, <3>1 DEF Exact, Same, r
  <2>5. CASE c'.pc = "turn"
    <3>1. c'.cur = c.cur + 1 /\ c'.cur \in Missions /\ c'.r = c.mem[c'.cur]
      BY <2>5 DEF Onwards
    <3>2. c'.r = rec'[c'.cur] /\ c'.cur > c.cur
      BY <1>1, <2>2, <3>1
    <3>3. \A n \in Missions : n > c'.cur => c'.mem[n] = rec'[n]
      BY <1>1, <2>1, <2>2, <3>1
    <3> QED BY <2>3, <2>5, <3>2, <3>3 DEF Exact, Same, r
  <2> QED BY <2>1, <2>4, <2>5
<1> QED BY <1>3, <1>4

LEMMA OnwardForward ==
    ASSUME ConductorInv, c.pc \in Working, NEW k \in Processes, c' = Onward(k), NEW z,
           \A n \in Missions : k.mem[n] = c.mem[n] \/ (n = c.cur /\ k.mem[n] = z)
    PROVE  Forward(z)
<1>1. CASE k.cur < N
  <2>1. c'.mem = k.mem
    BY <1>1 DEF Onward, Processes
  <2> QED BY <2>1 DEF Forward
<1>2. CASE ~(k.cur < N)
  <2>1. c' = Idle \/ c' = [k EXCEPT !.pc = "complete", !.r = New]
    BY <1>2 DEF Onward
  <2>2. c'.pc \in {"idle", "complete"}
    BY <2>1, AtRest DEF Processes, Idle, Off
  <2> QED BY <2>2 DEF Forward, Working
<1> QED BY <1>1, <1>2

LEMMA LeaveForward ==
    ASSUME ConductorInv, c.pc \in Working, NEW z \in Records, c' = Leave(c, z)
    PROVE  Forward(z)
<1>1. c \in Processes /\ c.cur \in Missions
  BY InHand
<1> DEFINE f == [c.mem EXCEPT ![c.cur] = z]
           k1 == [c EXCEPT !.pc = "late"]
           k2 == [[k1 EXCEPT !.r = z] EXCEPT !.mem = f]
           k3 == [c EXCEPT !.pc = "late", !.r = z, !.mem[c.cur] = z]
<1>2. f \in [Missions -> Records] /\ \A n \in Missions : f[n] = IF n = c.cur THEN z ELSE c.mem[n]
  BY <1>1, ProcessTypes
<1>3. k3 = k2
  BY <1>1 DEF Processes
<1>4. k1 \in Processes
  BY <1>1 DEF Processes, Steps, Working
<1> HIDE DEF f, k1
<1>5. k2 \in Processes /\ k2.mem = f
  BY <1>2, <1>4 DEF Processes
<1>6. c' = Onward(k2) \/ c' = k2
  BY <1>3 DEF Leave
<1> HIDE DEF k2
<1>7. \A n \in Missions : k2.mem[n] = c.mem[n] \/ (n = c.cur /\ k2.mem[n] = z)
  BY <1>2, <1>5
<1>8. CASE c' = k2
  BY <1>7, <1>8 DEF Forward
<1> QED BY <1>5, <1>6, <1>7, <1>8, OnwardForward

\* What an event makes of a record, for its state and its rejections.
LEMMA MadeIs ==
    ASSUME NEW x \in Records, NEW ev \in Events, ev \in Life!Rejecting => x.rejections < MaxAttempts,
           NEW z, z = Made(x, ev)
    PROVE  z.st = Step(x, ev) /\ z.rejections = Life!Count(x.rejections, ev)
<1> DEFINE y == Transition(x, ev)
<1>1. y \in Records /\ y.st = Step(x, ev) /\ y.rejections = Life!Count(x.rejections, ev)
  BY Fields
<1>2. CASE ~Sends(x, ev)
  BY <1>1, <1>2 DEF Made
<1>3. CASE Sends(x, ev)
  <2>1. \/ ev \in {"retry", "reassign"}
        \/ ev \in Life!Rejecting /\ Life!Left(x.rejections, ev)
    BY <1>3, Effects
  <2>2. Step(x, ev) = "requested"
    BY <2>1, Table
  <2>3. z = Opened(y)
    BY <1>3 DEF Made
  <2> HIDE DEF y
  <2>4. z.st = "requested" /\ z.rejections = y.rejections
    BY <1>1, <2>3 DEF Opened, Records
  <2> QED BY <1>1, <2>2, <2>4
<1> QED BY <1>2, <1>3

LEMMA AtKeeps ==
    ASSUME NEW k \in Processes, NEW pc, NEW z, c' = At(k, pc, z)
    PROVE  c'.pc = pc /\ c'.r = z /\ c'.cur = k.cur /\ c'.job = k.job /\ c'.mem = k.mem /\ c'.todo = k.todo
BY DEF At, Processes

\* A record in hand, or of which a command opens a new round, takes an event of the
\* table as the one on the bus does.
LEMMA TakeLives ==
    ASSUME MaxFaults = 0, ConductorInv, NEW k \in Processes, NEW m \in Missions, NEW x \in Records, NEW ev \in Events,
           Take(k, m, x, ev), x.st = rec[m].st, x.st \in Life!From[ev],
           x.rejections = IF ev \in {"retry", "reassign"} THEN 0 ELSE rec[m].rejections,
           ev \in Life!Rejecting => x.rejections < MaxAttempts, ev # "integrate_started",
           ev = "deps_integrated" => \A d \in DependsOn[m] : rec[d].st = "integrated"
    PROVE  /\ Lives /\ rec[m].st # "integrated"
           /\ c'.pc \in {"publish", "turn"} /\ c'.r = rec'[m] /\ c'.cur = k.cur /\ c'.job = k.job /\ c'.mem = k.mem
           /\ \E z : rec' = [rec EXCEPT ![m] = z]
<1> DEFINE y == Transition(x, ev)
           z == Made(x, ev)
           pc == IF Sends(x, ev) THEN "publish" ELSE "turn"
<1>1. ~Fault
  BY NoFault
<1>2. /\ rec' = [rec EXCEPT ![m] = z] /\ c' = At(k, pc, z)
  <2>1. CASE Sends(x, ev)
    <3>1. NewAttempt(k, m, y) /\ z = Opened(y)
      BY <2>1 DEF Take, Made, Sends
    <3> QED BY <1>1, <2>1, <3>1 DEF NewAttempt, Put, Opened
  <2>2. CASE ~Sends(x, ev)
    <3>1. Put(m, y, At(k, "turn", y), Failed(k, y)) /\ z = y
      BY <2>2 DEF Take, Made, Sends
    <3> QED BY <1>1, <2>2, <3>1 DEF Put
  <2> QED BY <2>1, <2>2
<1>3. z.st = Step(x, ev) /\ z.rejections = Life!Count(x.rejections, ev)
  BY MadeIs
<1>4. rec[m] \in Records /\ rec'[m] = z
  BY <1>2 DEF ConductorInv, Types, TypeOK
<1>5. pc \in {"publish", "turn"}
  OBVIOUS
<1> HIDE DEF z, y, pc
<1>6. /\ z.st = Life!To(ev, Life!Left(rec[m].rejections, ev))
      /\ z.rejections = IF ev \in Life!Retrying THEN 0 ELSE Life!Count(rec[m].rejections, ev)
  <2>1. CASE ev \in {"retry", "reassign"}
    <3>1. Step(x, ev) = "requested" /\ Step(rec[m], ev) = "requested"
      BY <1>4, <2>1, Table
    <3>2. ev \notin Life!Rejecting /\ ev \in Life!Retrying
      BY <2>1 DEF Life!Rejecting, Life!Retrying
    <3>3. Life!Count(x.rejections, ev) = x.rejections
      BY <3>2 DEF Life!Count
    <3>4. x.rejections = 0
      BY <2>1
    <3> QED BY <1>3, <3>1, <3>2, <3>3, <3>4 DEF Step
  <2>2. CASE ev \notin {"retry", "reassign"}
    <3>1. x.rejections = rec[m].rejections /\ ev \notin Life!Retrying
      BY <2>2 DEF Life!Retrying
    <3> QED BY <1>3, <3>1 DEF Step
  <2> QED BY <2>1, <2>2
<1>7. ev \in DOMAIN Life!From
  BY DEF Events, Life!From
<1>8. Lives
  BY <1>2, <1>6, <1>7, EventLives
<1>9. rec[m].st # "integrated"
  BY Table DEF Ended
<1>10. c'.pc = pc /\ c'.r = z /\ c'.cur = k.cur /\ c'.job = k.job /\ c'.mem = k.mem
  BY <1>2, AtKeeps
<1> QED BY <1>2, <1>4, <1>5, <1>8, <1>9, <1>10

\* An event taken in the turn of a mission.
LEMMA TurnLives ==
    ASSUME MaxFaults = 0, ConductorInv, Exact, c.pc \in Working, NEW x \in Records, x.st = r.st, x.rejections = r.rejections,
           NEW ev \in Turning, Take(c, c.cur, x, ev), x.st \in Life!From[ev],
           ev = "deps_integrated" => c.job = "pass" /\ \A d \in DependsOn[c.cur] : c.mem[d].st = "integrated"
    PROVE  Exact' /\ Lives
<1>1. /\ c \in Processes /\ c.cur \in Missions /\ r \in Records /\ Counts(r, spent.ops)
      /\ ev \in Events \ {"retry", "reassign", "integrate_started"}
  BY InHand DEF Sound, Turning, Events
<1>2. Same(c.cur, r)
  BY DEF Exact
<1>3. ev \in Life!Rejecting => x.rejections < MaxAttempts
  BY <1>1, EventRejections
<1>4. ev = "deps_integrated" => \A d \in DependsOn[c.cur] : rec[d].st = "integrated"
  BY <1>1, ConductorAssumption DEF Exact
<1>5. x.st = rec[c.cur].st /\ x.rejections = IF ev \in {"retry", "reassign"} THEN 0 ELSE rec[c.cur].rejections
  BY <1>1, <1>2 DEF Same
<1>6. /\ Lives /\ rec[c.cur].st # "integrated"
      /\ c'.pc \in {"publish", "turn"} /\ c'.r = rec'[c.cur] /\ c'.cur = c.cur /\ c'.job = c.job /\ c'.mem = c.mem
      /\ \E z : rec' = [rec EXCEPT ![c.cur] = z]
  BY <1>1, <1>3, <1>4, <1>5, TakeLives
<1>7. c'.pc \in Working \ {"failed", "uncheck"} /\ Same(c.cur, c.r)'
  BY <1>6 DEF Working, Same
<1> QED BY <1>6, <1>7, TurnExact

\* A call in the turn of a mission, and the record of what is no event.
LEMMA CallLives ==
    ASSUME ConductorInv, Exact, c.pc \in Working, NEW z, z.st = r.st, z.rejections = r.rejections,
           c'.pc \in Working \ {"failed", "uncheck"}, c'.cur = c.cur, c'.job = c.job, c'.mem = c.mem, c'.r = z,
           rec' = rec \/ rec' = [rec EXCEPT ![c.cur] = z]
    PROVE  Exact' /\ Lives
<1>1. rec \in [Missions -> Records] /\ c.cur \in Missions /\ Same(c.cur, r)
  BY InHand DEF ConductorInv, Types, TypeOK, Exact
<1>2. \A n \in Missions : rec'[n].st = rec[n].st /\ rec'[n].rejections = rec[n].rejections
  BY <1>1 DEF Same
<1>3. Same(c.cur, c.r)'
  BY <1>1, <1>2 DEF Same
<1>4. Lives
  BY <1>2, StillLives
<1> QED BY <1>1, <1>2, <1>3, <1>4, TurnExact

LEMMA EffectsLive ==
    ASSUME MaxFaults = 0, ConductorInv, Exact,
           CloseAttempt \/ TellAgent \/ CloseReview \/ OpenReview \/ NoteSkip \/ Escalate \/ Flag
    PROVE  Exact' /\ Lives
<1>1. ~Fault /\ c.pc \in {"turn", "tell", "flag"} /\ c.pc \in Working
  BY NoFault DEF CloseAttempt, TellAgent, CloseReview, OpenReview, NoteSkip, Escalate, Flag, Working
<1>2. c \in Processes /\ r \in Records /\ {"turn", "tell", "flag"} \subseteq Working \ {"failed", "uncheck"}
  BY <1>1, InHand DEF Working
<1>3. ASSUME NEW pc \in {"turn", "flag"}, NEW z, c' = At(c, pc, z), z.st = r.st, z.rejections = r.rejections,
             rec' = rec \/ rec' = [rec EXCEPT ![c.cur] = z]
      PROVE  Exact' /\ Lives
  BY <1>1, <1>2, <1>3, AtKeeps, CallLives
<1>4. ASSUME NEW i PROVE Closed(i).st = r.st /\ Closed(i).rejections = r.rejections
  BY <1>2 DEF Closed, Records
<1>5. CASE CloseAttempt
  <2> DEFINE i == Oldest
             t == <<c.cur, r.history[i].n>>
             k == [c EXCEPT !.pc = "tell", !.seen[t].st = IF @ = "none" THEN @ ELSE "superseded"]
  <2>1. \/ rec' = [rec EXCEPT ![c.cur] = Closed(i)] /\ c' = At(c, "turn", Closed(i))
        \/ rec' = rec /\ c' = k
    BY <1>1, <1>5 DEF CloseAttempt, Put, Call
  <2>2. k.pc = "tell" /\ k.cur = c.cur /\ k.job = c.job /\ k.mem = c.mem /\ k.r = r
    BY <1>2 DEF Processes, r
  <2> HIDE DEF i, k
  <2> QED BY <1>1, <1>2, <1>3, <1>4, <2>1, <2>2, CallLives
<1>6. CASE TellAgent
  <2>1. rec' = rec /\ c' = At(c, "flag", Closed(Oldest))
    BY <1>1, <1>6 DEF TellAgent, Call, redis
  <2> QED BY <1>3, <1>4, <2>1
<1>7. CASE CloseReview \/ OpenReview \/ NoteSkip \/ Escalate
  <2>1. rec' = rec /\ \E v \in BOOLEAN : \/ c' = At(c, "flag", [r EXCEPT !.reviewOpen = v])
                                         \/ c' = At(c, "flag", [r EXCEPT !.skipBy = v])
                                         \/ c' = At(c, "flag", [r EXCEPT !.escalated = v])
    BY <1>1, <1>7 DEF CloseReview, OpenReview, NoteSkip, Escalate, Call, redis
  <2>2. PICK v \in BOOLEAN : \/ c' = At(c, "flag", [r EXCEPT !.reviewOpen = v])
                             \/ c' = At(c, "flag", [r EXCEPT !.skipBy = v])
                             \/ c' = At(c, "flag", [r EXCEPT !.escalated = v])
    BY <2>1
  <2>3. \A z \in {[r EXCEPT !.reviewOpen = v], [r EXCEPT !.skipBy = v], [r EXCEPT !.escalated = v]} :
            z.st = r.st /\ z.rejections = r.rejections
    BY <1>2 DEF Records
  <2> QED BY <1>3, <2>1, <2>2, <2>3
<1>8. CASE Flag
  <2>1. rec' = [rec EXCEPT ![c.cur] = r] /\ c' = At(c, "turn", r)
    BY <1>1, <1>8 DEF Flag, Put
  <2> QED BY <1>3, <2>1
<1> QED BY <1>5, <1>6, <1>7, <1>8

\* An event that the conductor records by a put of its own.
LEMMA PutLives ==
    ASSUME ConductorInv, Exact, c.pc \in Working, NEW ev \in {"request_sent", "accepted", "check_started", "integrate_started"},
           NEW z, rec' = [rec EXCEPT ![c.cur] = z], r.st \in Life!From[ev], z.st = Life!To(ev, FALSE), z.rejections = r.rejections,
           ev = "integrate_started" => \A n \in Missions : rec[n].st # "integrating"
    PROVE  Lives /\ rec'[c.cur] = z /\ rec[c.cur].st # "integrated"
<1>1. c.cur \in Missions /\ Same(c.cur, r) /\ rec'[c.cur] = z
  BY InHand DEF Exact, ConductorInv, Types, TypeOK
<1>2. ev \in DOMAIN Life!From /\ ev \notin Life!Rejecting /\ ev \notin Life!Retrying /\ ev # "deps_integrated"
  BY DEF Life!From, Life!Rejecting, Life!Retrying
<1>3. \A left : Life!To(ev, left) = Life!To(ev, FALSE)
  BY <1>2 DEF Life!To
<1>4. rec[c.cur].st \in Life!From[ev] /\ z.st = Life!To(ev, Life!Left(rec[c.cur].rejections, ev))
  BY <1>1, <1>3 DEF Same
<1>5. z.rejections = IF ev \in Life!Retrying THEN 0 ELSE Life!Count(rec[c.cur].rejections, ev)
  BY <1>1, <1>2 DEF Same, Life!Count
<1>6. Lives
  BY <1>1, <1>2, <1>4, <1>5, EventLives
<1>7. rec[c.cur].st # "integrated"
  BY <1>4 DEF Life!From
<1> QED BY <1>1, <1>6, <1>7

LEMMA AdvanceLives ==
    ASSUME MaxFaults = 0, ConductorInv, Exact,
           Unlock \/ Request \/ Republish \/ ReadAnswer \/ StartCheck \/ ReadReview \/ Integrate
    PROVE  Exact' /\ Lives
<1>1. ~Fault /\ c.pc = "turn" /\ c.job = "pass" /\ c.pc \in Working /\ r \in Records /\ c.cur \in Missions /\ c \in Processes
      /\ chg.st = "active"
  BY NoFault, AtAdvance, InHand DEF Unlock, Request, Republish, ReadAnswer, StartCheck, ReadReview, Integrate
<1>2. CASE Unlock
  <2>1. r.st \in Life!From["deps_integrated"] /\ "deps_integrated" \in Turning
    BY <1>2 DEF Unlock, Life!From, Turning
  <2> QED BY <1>1, <1>2, <2>1, TurnLives DEF Unlock, DepsIntegrated
<1>3. CASE ReadReview
  <2> DEFINE ev == IF ledger[<<c.cur, r.subject>>] = "APPROVED" THEN "approved" ELSE "review_rejected"
  <2>1. r.st \in Life!From[ev] /\ ev \in Turning /\ ev # "deps_integrated"
    BY <1>3 DEF ReadReview, Life!From, Turning
  <2>2. Take(c, c.cur, r, ev)
    BY <1>3 DEF ReadReview
  <2> HIDE DEF ev
  <2> QED BY <1>1, <2>1, <2>2, TurnLives
<1>4. CASE ReadAnswer
  <2> DEFINE ev == Answer
             x == IF ev = "delivered" THEN [r EXCEPT !.commit = Seen.commit] ELSE r
  <2>1. ev \in Turning /\ ev # "deps_integrated" /\ Take(c, c.cur, x, ev) /\ r.st \in {"requested", "accepted"}
    BY <1>4 DEF ReadAnswer, Turning
  <2>2. r.st \in Life!From[ev]
    BY <1>4, <2>1, AnswerIs DEF ReadAnswer, Life!From
  <2>3. x.st = r.st /\ x.rejections = r.rejections
    BY <1>1 DEF Records
  <2>4. x \in Records
    <3>1. CASE ev # "delivered"
      BY <1>1, <3>1
    <3>2. CASE ev = "delivered"
      <4>1. r.st = "accepted" /\ r.attempt \in Attempts
        BY <1>1, <2>1, <3>2, AnswerIs, AtAdvance, InHand, RecordTypes DEF Sound, Counts, Ended
      <4>2. Seen.commit \in Commits \cup {0}
        BY <1>1, <4>1 DEF Seen, Task, Tasks, Processes, Entries
      <4> QED BY <1>1, <3>2, <4>2 DEF Records
    <3> QED BY <3>1, <3>2
  <2> HIDE DEF ev, x
  <2> QED BY <1>1, <2>1, <2>2, <2>3, <2>4, TurnLives
<1>5. CASE Republish
  <2>1. c' = [c EXCEPT !.pc = "publish"] /\ rec' = rec
    BY <1>5 DEF Republish, redis
  <2>2. c'.pc = "publish" /\ c'.cur = c.cur /\ c'.job = c.job /\ c'.mem = c.mem /\ c'.r = r
    BY <1>1, <2>1 DEF Processes, r
  <2>3. c'.pc \in Working \ {"failed", "uncheck"}
    BY <2>2 DEF Working
  <2> QED BY <1>1, <2>1, <2>2, <2>3, CallLives
<1>6. ASSUME NEW ev \in {"request_sent", "accepted", "check_started", "integrate_started"},
             NEW z, rec' = [rec EXCEPT ![c.cur] = z], r.st \in Life!From[ev], z.st = Life!To(ev, FALSE), z.rejections = r.rejections,
             ev = "integrate_started" => \A n \in Missions : rec[n].st # "integrating",
             NEW k \in Processes, k.cur = c.cur, k.job = c.job, k.mem = c.mem,
             NEW pc \in {"publish", "check", "merge"}, c' = At(k, pc, z)
      PROVE  Exact' /\ Lives
  <2>1. Lives /\ rec'[c.cur] = z /\ rec[c.cur].st # "integrated"
    BY <1>1, <1>6, PutLives
  <2>2. c'.pc \in Working \ {"failed", "uncheck"} /\ c'.cur = c.cur /\ c'.job = c.job /\ c'.mem = c.mem /\ c'.r = z
    BY <1>6, AtKeeps DEF Working
  <2>3. Same(c.cur, c.r)'
    BY <2>1, <2>2 DEF Same
  <2> QED BY <1>1, <1>6, <2>1, <2>2, <2>3, TurnExact
<1>7. CASE Request
  <2> DEFINE z == [r EXCEPT !.attempt = @ + 1, !.commit = 0, !.subject = 0, !.st = "requested"]
  <2>1. rec' = [rec EXCEPT ![c.cur] = z] /\ c' = At(c, "publish", z)
    BY <1>1, <1>7 DEF Request, NewAttempt, Put
  <2>2. z.st = "requested" /\ z.rejections = r.rejections
    BY <1>1 DEF Records
  <2>3. r.st \in Life!From["request_sent"] /\ Life!To("request_sent", FALSE) = "requested"
    BY <1>7 DEF Request, Life!From, Life!To, Life!Rejecting
  <2> HIDE DEF z
  <2> QED BY <1>1, <1>6, <2>1, <2>2, <2>3
<1>8. CASE StartCheck
  <2> DEFINE z == Transition(r, "check_started")
  <2>1. rec' = [rec EXCEPT ![c.cur] = z] /\ c' = At(c, "check", z)
    BY <1>1, <1>8 DEF StartCheck, Put
  <2>2. "check_started" \in Events /\ "check_started" \notin Life!Rejecting
    BY DEF Events, Life!Rejecting
  <2>3. z.st = "checking" /\ z.rejections = r.rejections
    <3>1. z.st = Step(r, "check_started") /\ z.rejections = Life!Count(r.rejections, "check_started")
      BY <1>1, <2>2, Fields
    <3> QED BY <1>1, <2>2, <3>1, Table DEF Life!Count
  <2>4. r.st \in Life!From["check_started"] /\ Life!To("check_started", FALSE) = "checking"
    BY <1>8 DEF StartCheck, Life!From, Life!To, Life!Rejecting
  <2> HIDE DEF z
  <2> QED BY <1>1, <1>6, <2>1, <2>3, <2>4
<1>9. CASE Integrate
  <2> DEFINE x == [r EXCEPT !.preHead = git.branch, !.tested = <<>>]
             z == Transition(x, "integrate_started")
             k == [c EXCEPT !.busy = TRUE]
  <2>1. rec' = [rec EXCEPT ![c.cur] = z] /\ c' = At(k, "merge", z) /\ ~c.busy
    BY <1>1, <1>9 DEF Integrate, Put
  <2>2. "integrate_started" \in Events /\ "integrate_started" \notin Life!Rejecting
    BY DEF Events, Life!Rejecting
  <2>3. x \in Records /\ x.rejections = r.rejections
    <3>1. git.branch \in Seq(Deliveries) /\ <<>> \in Seq(Deliveries)
      BY DEF ConductorInv, Types, TypeOK
    <3> QED BY <1>1, <3>1 DEF Records
  <2>4. k \in Processes /\ k.cur = c.cur /\ k.job = c.job /\ k.mem = c.mem
    BY <1>1 DEF Processes
  <2> HIDE DEF x, k
  <2>5. z.st = "integrating" /\ z.rejections = r.rejections
    <3>1. z.st = Step(x, "integrate_started") /\ z.rejections = Life!Count(x.rejections, "integrate_started")
      BY <2>2, <2>3, Fields
    <3> QED BY <2>2, <2>3, <3>1, Table DEF Life!Count
  <2>6. r.st \in Life!From["integrate_started"] /\ Life!To("integrate_started", FALSE) = "integrating"
    BY <1>9 DEF Integrate, Life!From, Life!To, Life!Rejecting
  <2>7. \A n \in Missions : rec[n].st # "integrating"
    <3>1. \A n \in Missions : \A y \in Records : Copy(n, y) => y.st # "integrating"
      BY <1>1, <2>1 DEF ConductorInv, AtMerge
    <3>2. \A n \in Missions : rec[n] \in Records /\ Copy(n, rec[n])
      BY DEF ConductorInv, Types, TypeOK, Copy, Held
    <3> QED BY <3>1, <3>2
  <2> HIDE DEF z
  <2> QED BY <1>1, <1>6, <2>1, <2>4, <2>5, <2>6, <2>7
<1> QED BY <1>2, <1>3, <1>4, <1>5, <1>7, <1>8, <1>9

LEMMA WorkLives ==
    ASSUME MaxFaults = 0, ConductorInv, Exact,
           \/ Publish \/ CheckPasses \/ CheckFails \/ CheckBreaks \/ Uncheck
           \/ Merge \/ AbortMerge \/ SuiteGreen \/ SuiteRed \/ SuiteBreaks \/ Reset \/ NotIntegrated
    PROVE  Exact' /\ Lives
<1>1. ~Fault /\ c.pc # "uncheck"
  BY NoFault DEF Exact
<1>2. c.pc \in {"publish", "check", "merge", "unmerge", "suite", "reset", "unmerged"} /\ c.pc \in Working
  BY <1>1 DEF Publish, CheckPasses, CheckFails, CheckBreaks, Uncheck, Merge, AbortMerge, SuiteGreen, SuiteRed, SuiteBreaks,
              Reset, NotIntegrated, Working
<1>3. c \in Processes /\ r \in Records /\ c.cur \in Missions
  BY <1>2, InHand
<1>4. c.pc = "check" => r.st = "checking"
  BY DEF ConductorInv, AtCall, r
<1>5. c.pc \in Merging => r.st = "integrating"
  BY DEF ConductorInv, AtCall, r
<1>6. ASSUME NEW ev \in {"check_passed", "check_failed", "integrate_failed"}, Take(c, c.cur, r, ev), r.st \in Life!From[ev]
      PROVE  Exact' /\ Lives
  BY <1>2, <1>3, <1>6, TurnLives DEF Turning
<1>7. CASE CheckPasses \/ CheckFails
  <2>1. r.st \in Life!From["check_passed"] /\ r.st \in Life!From["check_failed"]
    BY <1>4, <1>7 DEF CheckPasses, CheckFails, Life!From
  <2> QED BY <1>6, <1>7, <2>1 DEF CheckPasses, CheckFails
<1>8. CASE NotIntegrated
  <2>1. r.st \in Life!From["integrate_failed"]
    BY <1>5, <1>8 DEF NotIntegrated, Merging, Life!From
  <2> QED BY <1>6, <1>8, <2>1 DEF NotIntegrated
<1>9. CASE SuiteGreen
  <2> DEFINE x == [r EXCEPT !.tested = git.branch]
  <2>1. x \in Records /\ x.st = r.st /\ x.rejections = r.rejections
    BY <1>3 DEF ConductorInv, Types, TypeOK, Records
  <2>2. Take(c, c.cur, x, "integrated")
    BY <1>9 DEF SuiteGreen
  <2>3. x.st \in Life!From["integrated"] /\ "integrated" \in Turning
    BY <1>5, <1>9, <2>1 DEF SuiteGreen, Merging, Life!From, Turning
  <2> HIDE DEF x
  <2> QED BY <1>2, <2>1, <2>2, <2>3, TurnLives
<1>10. CASE Publish
  <2> DEFINE k == [c EXCEPT !.pc = "turn", !.seen[<<c.cur, r.attempt>>] = [NoEntry EXCEPT !.st = "requested"]]
  <2>1. c' = k /\ rec' = rec
    BY <1>1, <1>10 DEF Publish, Call
  <2>2. k.pc = "turn" /\ k.cur = c.cur /\ k.job = c.job /\ k.mem = c.mem /\ k.r = r
    BY <1>3 DEF Processes, r
  <2> HIDE DEF k
  <2> QED BY <1>2, <2>1, <2>2, CallLives DEF Working
<1>11. CASE Merge \/ AbortMerge \/ SuiteRed \/ Reset
  <2>1. rec' = rec /\ \E pc \in {"suite", "unmerge", "unmerged", "reset"} :
                          c' = At(c, pc, r) \/ c' = At(c, pc, [r EXCEPT !.tested = <<>>])
    BY <1>1, <1>11 DEF Merge, AbortMerge, SuiteRed, Reset, Call, redis
  <2>2. PICK pc \in {"suite", "unmerge", "unmerged", "reset"} :
            c' = At(c, pc, r) \/ c' = At(c, pc, [r EXCEPT !.tested = <<>>])
    BY <2>1
  <2> DEFINE x == [r EXCEPT !.tested = <<>>]
  <2>3. x.st = r.st /\ x.rejections = r.rejections
    BY <1>3 DEF Records
  <2> HIDE DEF x
  <2>4. PICK z \in {r, x} : c' = At(c, pc, z)
    BY <2>2 DEF x
  <2>5. c'.pc = pc /\ c'.r = z /\ c'.cur = c.cur /\ c'.job = c.job /\ c'.mem = c.mem
    BY <1>3, <2>4, AtKeeps
  <2>6. c'.pc \in Working \ {"failed", "uncheck"} /\ z.st = r.st /\ z.rejections = r.rejections
    BY <2>3, <2>5 DEF Working
  <2> QED BY <1>2, <2>1, <2>5, <2>6, CallLives
<1> QED BY <1>1, <1>7, <1>8, <1>9, <1>10, <1>11 DEF CheckBreaks, Uncheck, SuiteBreaks

LEMMA PassLives ==
    ASSUME MaxFaults = 0, ConductorInv, Exact, Accepted \/ Return \/ NotifyLate \/ EndTurn
    PROVE  Exact' /\ Lives
<1>1. ~Fault /\ c.pc \in {"turn", "late"} /\ c.pc \in Working
  BY NoFault DEF Accepted, Advancing, Return, Settled, NotifyLate, EndTurn, Working
<1>2. c \in Processes /\ r \in Records /\ c.cur \in Missions /\ Same(c.cur, r) /\ (c.pc = "late" => c.job = "pass")
      /\ rec \in [Missions -> Records]
  BY <1>1, InHand DEF Exact, ConductorInv, AtCall, Types, TypeOK
<1>3. CASE Accepted
  <2> DEFINE z == Transition(r, "accepted")
  <2>1. rec' = [rec EXCEPT ![c.cur] = z] /\ c' = Leave(c, z) /\ c.job = "pass" /\ r.st = "requested"
    BY <1>1, <1>3 DEF Accepted, Put, Advancing
  <2>2. "accepted" \in Events /\ "accepted" \notin Life!Rejecting
    BY DEF Events, Life!Rejecting
  <2>3. z \in Records /\ z.st = "accepted" /\ z.rejections = r.rejections
    <3>1. z \in Records /\ z.st = Step(r, "accepted") /\ z.rejections = Life!Count(r.rejections, "accepted")
      BY <1>2, <2>2, Fields
    <3> QED BY <1>2, <2>2, <3>1, Table DEF Life!Count
  <2>4. r.st \in Life!From["accepted"] /\ Life!To("accepted", FALSE) = "accepted"
    BY <2>1 DEF Life!From, Life!To, Life!Rejecting
  <2> HIDE DEF z
  <2>5. Lives /\ rec'[c.cur] = z /\ rec[c.cur].st # "integrated"
    BY <1>1, <2>1, <2>3, <2>4, PutLives
  <2>6. Onwards(z) /\ Forward(z)
    BY <1>1, <2>1, <2>3, LeaveIs, LeaveForward
  <2> QED BY <1>1, <2>1, <2>5, <2>6, PassExact
<1>4. ASSUME c.job = "pass", NEW z, Onwards(z), Forward(z), z.st = r.st, z.rejections = r.rejections,
             rec' = rec \/ rec' = [rec EXCEPT ![c.cur] = z]
      PROVE  Exact' /\ Lives
  <2>1. \A n \in Missions : rec'[n].st = rec[n].st /\ rec'[n].rejections = rec[n].rejections
    BY <1>2, <1>4 DEF Same
  <2>2. z.st = rec'[c.cur].st /\ z.rejections = rec'[c.cur].rejections
    BY <1>2, <1>4, <2>1 DEF Same
  <2>3. rec[c.cur].st = "integrated" => rec'[c.cur].st = "integrated"
    BY <1>2, <2>1
  <2> QED BY <1>1, <1>4, <2>1, <2>2, <2>3, StillLives, PassExact
<1>5. ASSUME c.job = "pass", c' = Onward(c), rec' = rec \/ rec' = [rec EXCEPT ![c.cur] = r] PROVE Exact' /\ Lives
  <2>1. Onwards(r) /\ Forward(r)
    BY <1>1, <1>2, <1>5, PassingErrs, OnwardIs, OnwardForward
  <2> QED BY <1>4, <1>5, <2>1
<1>6. CASE EndTurn
  <2>1. rec' = [rec EXCEPT ![c.cur] = r] /\ c' = Onward(c) /\ c.pc = "late"
    BY <1>1, <1>6 DEF EndTurn, Put
  <2> QED BY <1>2, <1>5, <2>1
<1>7. CASE NotifyLate
  <2>1. PICK i : c' = [c EXCEPT !.r.history[i].late = c.seen[<<c.cur, r.history[i].n>>].st]
    BY <1>1, <1>7 DEF NotifyLate, Call
  <2>2. c.pc = "late" /\ rec' = rec
    BY <1>7 DEF NotifyLate, redis
  <2>3. c'.pc = c.pc /\ c'.cur = c.cur /\ c'.job = c.job /\ c'.mem = c.mem
    BY <1>2, <2>1 DEF Processes
  <2>4. c'.r.st = r.st /\ c'.r.rejections = r.rejections
    BY <1>2, <2>1 DEF Processes, Records, r
  <2> DEFINE z == c'.r
  <2>5. c'.pc \in Working \ {"failed", "uncheck"} /\ c'.r = z /\ z.st = r.st /\ z.rejections = r.rejections
    BY <2>2, <2>3, <2>4 DEF Working
  <2> HIDE DEF z
  <2> QED BY <1>1, <2>2, <2>3, <2>5, CallLives
<1>8. CASE Return
  <2>1. rec' = rec
    BY <1>8 DEF Return, redis
  <2>2. CASE c.job = "pass"
    <3>1. c' = Leave(c, r)
      BY <1>8, <2>2 DEF Return
    <3>2. Onwards(r) /\ Forward(r)
      BY <1>1, <1>2, <2>2, <3>1, LeaveIs, LeaveForward
    <3> QED BY <1>4, <2>1, <2>2, <3>2
  <2>3. CASE c.job # "pass"
    <3>1. \/ c' = [[c EXCEPT !.mem[c.cur] = r] EXCEPT !.pc = "repair"]
          \/ c' = [c EXCEPT !.pc = "abort"]
          \/ c' = Idle
      BY <1>2, <1>8, <2>3, ProcessTypes DEF Return
    <3>2. c'.pc \in Resting
      BY <1>2, <3>1, AtRest DEF Processes, Resting, Idle, Off
    <3> QED BY <2>1, <3>2, RestExact, StillLives
  <2> QED BY <2>2, <2>3
<1> QED BY <1>3, <1>6, <1>7, <1>8

LEMMA StartExact == ASSUME NEW k \in Processes, k.mem = rec, c' = FirstTurn(k), rec' = rec PROVE Exact'
<1>1. c'.pc = "turn" /\ c'.cur = 1 /\ c'.r = rec[1] /\ c'.mem = rec
  BY FirstTurnIs
<1> QED BY <1>1 DEF Exact, Same, r

\* An event taken out of a pass.
LEMMA OutsideLives ==
    ASSUME MaxFaults = 0, ConductorInv, NEW k \in Processes, NEW m \in Missions, k.cur = m, k.job # "pass",
           NEW x \in Records, NEW ev \in Events, Take(k, m, x, ev), x.st = rec[m].st, x.st \in Life!From[ev],
           x.rejections = IF ev \in {"retry", "reassign"} THEN 0 ELSE rec[m].rejections,
           ev \notin Life!Rejecting, ev \notin {"integrate_started", "deps_integrated"}
    PROVE  Exact' /\ Lives
<1>1. Lives /\ c'.pc \in {"publish", "turn"} /\ c'.r = rec'[m] /\ c'.cur = m /\ c'.job # "pass"
  BY TakeLives
<1> QED BY <1>1 DEF Exact, Same, r

LEMMA RepairLives ==
    ASSUME MaxFaults = 0, ConductorInv, Exact, NEW m \in Missions, Recheck(m) \/ RepairDirty(m) \/ Resume(m)
    PROVE  Exact' /\ Lives
<1>1. /\ ~Fault /\ c.pc \in {"repair", "recheck"} /\ c \in Processes /\ c.job \in {"startup", "repair"}
      /\ c.mem[m] = rec[m] /\ rec[m] \in Records /\ rec \in [Missions -> Records] /\ c.mem \in [Missions -> Records]
      /\ m \in 0 .. N
  BY NoFault, AtRepair, ProcessTypes, Constants DEF Recheck, RepairDirty, Resume, Missions
<1> DEFINE k == [c EXCEPT !.cur = m]
<1>2. k \in Processes /\ k.cur = m /\ k.job # "pass" /\ k.job = c.job /\ k.pc = c.pc
  BY <1>1 DEF Processes
<1> HIDE DEF k
<1>3. ASSUME NEW ev \in {"integrated", "integrate_failed"}, Take(k, m, rec[m], ev), rec[m].st = "integrating"
      PROVE  Exact' /\ Lives
  <2>1. ev \in Events /\ ev \notin Life!Rejecting /\ ev \notin {"retry", "reassign", "integrate_started", "deps_integrated"}
    BY <1>3 DEF Events, Life!Rejecting
  <2>2. rec[m].st \in Life!From[ev]
    BY <1>3 DEF Life!From
  <2> QED BY <1>1, <1>2, <1>3, <2>1, <2>2, OutsideLives
<1>4. ASSUME NEW st2, NEW z, z = [rec[m] EXCEPT !.st = st2], rec' = [rec EXCEPT ![m] = z], c'.pc \in Resting,
             \/ rec[m].st = "checking" /\ st2 = "delivered"
             \/ rec[m].st = "integrating" /\ st2 = "approved"
      PROVE  Exact' /\ Lives
  <2>1. z.st = st2 /\ z.rejections = rec[m].rejections
    BY <1>1, <1>4 DEF Records
  <2> QED BY <1>4, <2>1, RedoLives, RestExact
<1>5. CASE Recheck(m)
  <2> DEFINE z == [rec[m] EXCEPT !.st = "delivered"]
             k2 == [c EXCEPT !.todo = @ \ {m}, !.mem[m] = z]
             pc2 == IF k2.todo = {} THEN "repair" ELSE "recheck"
  <2>1. rec' = [rec EXCEPT ![m] = z] /\ c' = [k2 EXCEPT !.pc = pc2]
    BY <1>1, <1>5 DEF Recheck, Put
  <2>2. rec[m].st = "checking"
    BY <1>1, <1>5 DEF Recheck, ConductorInv, AtCall
  <2>3. pc2 \in Resting
    BY DEF Resting
  <2> HIDE DEF pc2
  <2>4. c'.pc \in Resting
    BY <1>1, <2>1, <2>3 DEF Processes
  <2> HIDE DEF k2
  <2> QED BY <1>4, <2>1, <2>2, <2>4
<1>6. CASE RepairDirty(m)
  <2>1. Take(k, m, rec[m], "integrate_failed") /\ rec[m].st = "integrating"
    BY <1>1, <1>6 DEF RepairDirty, Integrating, k
  <2> QED BY <1>3, <2>1
<1>7. CASE Resume(m)
  <2> DEFINE z == [rec[m] EXCEPT !.st = "approved"]
  <2>1. rec[m].st = "integrating"
    BY <1>1, <1>7 DEF Resume, Integrating
  <2>2. \/ rec' = [rec EXCEPT ![m] = z] /\ c' = [k EXCEPT !.mem[m] = z]
        \/ Take(k, m, rec[m], "integrated")
        \/ rec' = rec /\ c' = At(k, "suite", rec[m])
    BY <1>1, <1>7 DEF Resume, Put, k
  <2>3. CASE rec' = [rec EXCEPT ![m] = z] /\ c' = [k EXCEPT !.mem[m] = z]
    <3>1. c'.pc \in Resting
      BY <1>1, <1>2, <2>3 DEF Processes, Resting
    <3> QED BY <1>4, <2>1, <2>3, <3>1
  <2>4. CASE rec' = rec /\ c' = At(k, "suite", rec[m])
    <3>1. c'.pc = "suite" /\ c'.r = rec[m] /\ c'.cur = m /\ c'.job # "pass"
      BY <1>2, <2>4, AtKeeps
    <3> QED BY <2>4, <3>1, StillLives DEF Exact, Same, r
  <2> QED BY <1>3, <2>1, <2>2, <2>3, <2>4
<1> QED BY <1>5, <1>6, <1>7

\* A repair and a start that write no record, and what comes between two turns.
LEMMA BetweenLives ==
    ASSUME MaxFaults = 0, ConductorInv, Exact,
           \/ Startup \/ BeginPass \/ RepairMerge \/ ReportDirty \/ Repaired \/ Complete \/ EndAbort \/ Fail
           \/ StartAbort \/ Crash
    PROVE  Exact' /\ Lives
<1>1. ~Fault /\ rec' = rec /\ ~Fail
  BY NoFault DEF Startup, BeginPass, RepairMerge, ReportDirty, Repaired, Complete, EndAbort, Fail, StartAbort, Crash, redis, Exact
<1>2. Lives
  BY <1>1, StillLives
<1>3. c \in Processes /\ (c.pc = "repair" => c.mem = rec)
  <2>1. c \in Processes /\ c.mem \in [Missions -> Records] /\ rec \in [Missions -> Records]
    BY DEF ConductorInv, Types, TypeOK
  <2> QED BY <2>1, AtRepair
<1>4. CASE Startup \/ BeginPass \/ StartAbort
  <2>1. Read \in Processes /\ Read.mem = rec
    BY ReadIs DEF ConductorInv
  <2>2. ASSUME Startup PROVE Exact'
    <3> DEFINE t == {m \in Missions : rec[m].st = "checking"}
               k == [Read EXCEPT !.job = "startup", !.todo = t]
    <3>1. k \in Processes
      <4>1. t \subseteq Missions
        OBVIOUS
      <4> HIDE DEF t
      <4> QED BY <2>1, <4>1 DEF Processes
    <3>2. c' = Idle \/ \E pc \in {"repair", "recheck"} : c' = [k EXCEPT !.pc = pc]
      BY <2>2 DEF Startup
    <3> HIDE DEF k
    <3>3. c'.pc \in Resting
      BY <3>1, <3>2, AtRest DEF Processes, Resting, Idle, Off
    <3> QED BY <3>3, RestExact
  <2>3. ASSUME BeginPass PROVE Exact'
    <3> DEFINE b == chg.st = "active" /\ Integrating(Read) # {}
               k == [Read EXCEPT !.busy = b]
    <3>1. k \in Processes /\ k.mem = rec
      <4>1. b \in BOOLEAN
        OBVIOUS
      <4> HIDE DEF b
      <4> QED BY <2>1, <4>1 DEF Processes
    <3>2. c' = [k EXCEPT !.job = "repair", !.pc = "repair"] \/ c' = FirstTurn(k)
      BY <2>3 DEF BeginPass
    <3> HIDE DEF k
    <3>3. CASE c' = [k EXCEPT !.job = "repair", !.pc = "repair"]
      <4>1. c'.pc \in Resting
        BY <3>1, <3>3 DEF Processes, Resting
      <4> QED BY <4>1, RestExact
    <3> QED BY <1>1, <3>1, <3>2, <3>3, StartExact
  <2>4. ASSUME StartAbort PROVE Exact'
    <3> DEFINE t == {m \in Missions : rec[m].st \notin Life!Final}
    <3>1. c' = [Read EXCEPT !.job = "abort", !.pc = "abort", !.todo = t]
      BY <2>4 DEF StartAbort
    <3>2. c'.pc \in Resting
      BY <2>1, <3>1 DEF Processes, Resting
    <3> QED BY <3>2, RestExact
  <2> QED BY <1>2, <1>4, <2>2, <2>3, <2>4
<1>5. CASE RepairMerge \/ ReportDirty
  <2>1. c' = c /\ c.pc = "repair"
    BY <1>1, <1>5 DEF RepairMerge, ReportDirty, Call
  <2>2. c'.pc \in Resting
    BY <2>1 DEF Resting
  <2> QED BY <1>2, <2>2, RestExact
<1>6. CASE Repaired
  <2>1. c.pc = "repair" /\ (c' = Idle \/ c' = FirstTurn(c))
    BY <1>6 DEF Repaired
  <2>2. CASE c' = Idle
    BY <1>2, <2>2, AtRest, RestExact DEF Resting
  <2> QED BY <1>1, <1>2, <1>3, <2>1, <2>2, StartExact
<1>7. CASE Complete \/ EndAbort \/ Crash
  <2>1. c' \in {Off, Idle} \/ (c' = c /\ c.pc = "complete")
    BY <1>1, <1>7 DEF Complete, EndAbort, Crash, Call
  <2>2. c'.pc \in Resting
    BY <2>1, AtRest DEF Resting
  <2> QED BY <1>2, <2>2, RestExact
<1> QED BY <1>1, <1>4, <1>5, <1>6, <1>7

LEMMA AbortLives ==
    ASSUME MaxFaults = 0, ConductorInv, NEW m \in Missions, AbortMission(m)
    PROVE  Exact' /\ Lives
<1> DEFINE k == [c EXCEPT !.todo = @ \ {m}, !.cur = m]
<1>1. c.pc = "abort" /\ m \in c.todo /\ Take(k, m, c.mem[m], "abort")
  BY DEF AbortMission
<1>2. /\ c \in Processes /\ c.job = "abort" /\ rec[m] \in Records /\ c.mem[m] = rec[m]
      /\ rec[m].st \notin Ended
  BY <1>1 DEF ConductorInv, AtCall, Agree, Types, TypeOK, Keeps
<1>3. k \in Processes /\ k.cur = m /\ k.job # "pass"
  <2> DEFINE left == c.todo \ {m}
  <2>1. m \in 0 .. N /\ left \subseteq Missions /\ k = [[c EXCEPT !.todo = left] EXCEPT !.cur = m]
    BY <1>2, Constants DEF Missions, Processes
  <2> HIDE DEF left
  <2> QED BY <1>2, <2>1 DEF Processes
<1> HIDE DEF k
<1>4. rec[m].st \in Life!From["abort"]
  <2>1. rec[m].st \in Life!States
    BY <1>2, RecordTypes
  <2> QED BY <1>2, <2>1 DEF Life!From, Life!Final, Ended
<1>5. "abort" \in Events /\ "abort" \notin Life!Rejecting
  BY DEF Events, Life!Rejecting
<1> QED BY <1>1, <1>2, <1>3, <1>4, <1>5, OutsideLives

LEMMA OperateLives ==
    ASSUME MaxFaults = 0, ConductorInv, NEW m \in Missions, NEW op \in {"retry", "reassign", "skip"}, Operate(m, op)
    PROVE  Exact' /\ Lives
<1> DEFINE w == rec[m]
           k == [Read EXCEPT !.job = "op", !.cur = m]
           x == IF op = "skip" THEN [w EXCEPT !.skipBy = TRUE, !.skipped = TRUE] ELSE [w EXCEPT !.rejections = 0]
<1>1. w.st \in Life!From[op] /\ Take(k, m, x, op)
  BY DEF Operate
<1>2. w \in Records /\ Read \in Processes
  BY ReadIs DEF ConductorInv, Types, TypeOK
<1>3. k \in Processes /\ k.cur = m /\ k.job # "pass"
  <2> DEFINE k1 == [Read EXCEPT !.job = "op"]
  <2>1. m \in 0 .. N /\ k = [k1 EXCEPT !.cur = m]
    BY <1>2, Constants DEF Missions, Processes
  <2>2. k1 \in Processes /\ k1.job = "op"
    BY <1>2 DEF Processes
  <2> HIDE DEF k1
  <2> QED BY <2>1, <2>2 DEF Processes
<1>4. x \in Records /\ x.st = w.st /\ x.rejections = IF op \in {"retry", "reassign"} THEN 0 ELSE w.rejections
  <2> HIDE DEF w
  <2>1. CASE op = "skip"
    <3> DEFINE v == [w EXCEPT !.skipBy = TRUE]
    <3>1. x = [v EXCEPT !.skipped = TRUE]
      BY <1>2, <2>1 DEF Records
    <3>2. v \in Records /\ v.st = w.st /\ v.rejections = w.rejections
      BY <1>2 DEF Records
    <3> HIDE DEF v
    <3> QED BY <2>1, <3>1, <3>2 DEF Records
  <2>2. CASE op # "skip"
    <3>1. 0 \in 0 .. MaxAttempts
      BY Constants
    <3> QED BY <1>2, <2>2, <3>1 DEF Records
  <2> QED BY <2>1, <2>2
<1>5. op \in Events /\ op \notin Life!Rejecting /\ op \notin {"integrate_started", "deps_integrated"}
  BY DEF Events, Life!Rejecting
<1> HIDE DEF k, x
<1> QED BY <1>1, <1>3, <1>4, <1>5, OutsideLives

\* The steps of the others write no record and leave the process alone.
LEMMA OthersLive ==
    ASSUME ConductorInv, Exact,
           \/ Soil \/ Clean \/ UNCHANGED vars
           \/ \E t \in Tasks : Accept(t) \/ Block(t) \/ Deadline(t) \/ \E k \in Commits : Done(t, k)
           \/ \E d \in Deliveries, decision \in {"APPROVED", "REJECTED"} : Verdict(d, decision)
    PROVE  Exact' /\ Lives
<1>1. c' = c /\ rec' = rec
  BY DEF Soil, Clean, Accept, Block, Done, Report, Deadline, Verdict, redis, vars
<1> QED BY <1>1, StillLives DEF Exact, Same, r

LEMMA ConductLives == ASSUME MaxFaults = 0, ConductorInv, Exact, Conduct PROVE Exact' /\ Lives
<1>1. CASE Startup \/ BeginPass \/ RepairMerge \/ ReportDirty \/ Repaired \/ Complete \/ EndAbort \/ Fail
  BY <1>1, BetweenLives
<1>2. ASSUME NEW m \in Missions, Recheck(m) \/ RepairDirty(m) \/ Resume(m) \/ AbortMission(m) PROVE Exact' /\ Lives
  BY <1>2, RepairLives, AbortLives
<1>3. CASE CloseAttempt \/ TellAgent \/ CloseReview \/ OpenReview \/ NoteSkip \/ Escalate \/ Flag
  BY <1>3, EffectsLive
<1>4. CASE Unlock \/ Request \/ Republish \/ ReadAnswer \/ StartCheck \/ ReadReview \/ Integrate
  BY <1>4, AdvanceLives
<1>5. CASE \/ Publish \/ CheckPasses \/ CheckFails \/ CheckBreaks \/ Uncheck
           \/ Merge \/ AbortMerge \/ SuiteGreen \/ SuiteRed \/ SuiteBreaks \/ Reset \/ NotIntegrated
  BY <1>5, WorkLives
<1>6. CASE Accepted \/ Return \/ NotifyLate \/ EndTurn
  BY <1>6, PassLives
<1> QED BY <1>1, <1>2, <1>3, <1>4, <1>5, <1>6 DEF Conduct

LEMMA LivesStep == ASSUME MaxFaults = 0, ConductorInv, Exact, [Next]_vars PROVE Exact' /\ Lives
<1>1. CASE Conduct
  BY <1>1, ConductLives
<1>2. CASE StartAbort \/ Crash
  BY <1>2, BetweenLives
<1>3. CASE \E m \in Missions, op \in {"retry", "reassign", "skip"} : Operate(m, op)
  BY <1>3, OperateLives
<1>4. CASE \/ Soil \/ Clean \/ UNCHANGED vars
           \/ \E t \in Tasks : Accept(t) \/ Block(t) \/ Deadline(t) \/ \E k \in Commits : Done(t, k)
           \/ \E d \in Deliveries, decision \in {"APPROVED", "REJECTED"} : Verdict(d, decision)
  BY <1>4, OthersLive
<1> QED BY <1>1, <1>2, <1>3, <1>4 DEF Next

LEMMA LivesInit == ASSUME Init PROVE Exact /\ Life!Init
<1>1. rec = [m \in Missions |-> New] /\ c.pc = "down"
  BY DEF Init, Off
<1>2. New.st = "pending" /\ New.rejections = 0
  BY DEF New
<1>3. Exact
  BY <1>1 DEF Exact, Working
<1> QED BY <1>1, <1>2, <1>3 DEF Life!Init

\* The conductor implements MissionState where no call of it fails: whatever it is
\* asked, whenever it dies and whatever the agents, the reviewer and the worktree do,
\* a mission's record changes by the events of the table (Next) and by the two ways
\* back of an interrupted check or merge only, a mission after those it depends on,
\* one merge at a time, at most MaxAttempts rejections a round.
THEOREM MissionsLifeCorrect == ASSUME MaxFaults = 0 PROVE Spec => MissionsLife
<1>1. ConductorInv /\ Exact /\ [Next]_vars => Exact' /\ Lives
  BY LivesStep
<1>2. Init => Exact /\ Life!Init
  BY LivesInit
<1> QED BY <1>1, <1>2, InvCorrect, PTL DEF Spec, MissionsLife, Life!Spec, Lives

\* What is proved of MissionState then holds of the records on the bus.
LifeProofs == INSTANCE MissionState_proofs WITH
    st <- [m \in Missions |-> rec[m].st],
    rejections <- [m \in Missions |-> rec[m].rejections]

\* Under the same condition the bus never shows a mission worked on before those it
\* depends on are integrated, skips, new rounds and aborts included (depsIntegrated).
THEOREM DependenciesFirstCorrect == ASSUME MaxFaults = 0 PROVE Spec => []Life!DependenciesFirst
<1>1. LifeProofs!MissionAssumption
  BY Constants, ConductorAssumption DEF LifeProofs!MissionAssumption
<1>2. LifeProofs!Spec => []LifeProofs!DependenciesFirst
  BY <1>1, LifeProofs!DependenciesFirstCorrect, PTL
<1>3. Life!Init => LifeProofs!Init
  BY DEF LifeProofs!Init, Life!Init
<1>4. Lives => [LifeProofs!Next]_(LifeProofs!vars)
  <2>1. \A m \in Missions : Life!Redo(m) => LifeProofs!Redo(m)
    BY DEF LifeProofs!Redo, Life!Redo
  <2>2. LifeProofs!From = Life!From
    BY DEF LifeProofs!From, Life!From, LifeProofs!States, Life!States, LifeProofs!Final, Life!Final
  <2>3. \A m \in Missions, ev \in DOMAIN Life!From : Life!Event(m, ev) => LifeProofs!Event(m, ev)
    BY <2>2, Zenon DEF LifeProofs!Event, Life!Event, LifeProofs!To, Life!To, LifeProofs!Left, Life!Left,
       LifeProofs!Count, Life!Count, LifeProofs!Rejecting, Life!Rejecting, LifeProofs!Retrying, Life!Retrying
  <2> QED BY <2>1, <2>2, <2>3 DEF Lives, LifeProofs!Next, Life!Next, LifeProofs!vars, Life!vars
<1>5. LifeProofs!DependenciesFirst => Life!DependenciesFirst
  BY DEF LifeProofs!DependenciesFirst, Life!DependenciesFirst, LifeProofs!Final, Life!Final
<1> QED BY <1>2, <1>3, <1>4, <1>5, MissionsLifeCorrect, PTL DEF MissionsLife, Life!Spec, LifeProofs!Spec, Lives
=============================================================================
