-------------------------- MODULE ConductorRecords ----------------------------
(***************************************************************************)
(* The invariant of the conductor, and its mission records: what a record  *)
(* says is true whenever it is read, and stays so through every event of   *)
(* the table, a new attempt, and what others do meanwhile.  The lemmas     *)
(* take the history, the board and the branch as parameters; the steps of  *)
(* the conductor itself are in Conductor_proofs.                           *)
(***************************************************************************)
EXTENDS Conductor, TLAPS

\* The calls a mission's turn consists of, and those of a merge.
Working == {"turn", "tell", "flag", "publish", "check", "uncheck", "merge", "unmerge", "suite", "reset",
            "unmerged", "failed", "late"}
Merging == {"merge", "unmerge", "suite", "reset", "unmerged"}
Resting == {"down", "idle", "recheck", "repair", "abort", "complete"}
Ended == {"integrated", "aborted"}
Worked == {"delivered", "checking", "in_review", "approved", "integrating"}

(***************************************************************************)
(* The records of a mission that still matter: the one on the bus, the one *)
(* in hand, and the copy of it that the process will yet take in hand.     *)
(***************************************************************************)
Has(k, m) == k.pc \in Working /\ k.cur = m
Keeps(k, m) ==
    \/ k.job = "pass" /\ k.pc \in Working /\ m > k.cur
    \/ k.job \in {"startup", "repair"} /\ k.pc \in Working \cup {"repair", "recheck"}
    \/ k.job = "abort" /\ k.pc \in Working \cup {"abort"} /\ m \in k.todo
Held(m, x, f, k) == x = f[m] \/ (Keeps(k, m) /\ x = k.mem[m]) \/ (Has(k, m) /\ x = k.r)
Copy(m, x) == Held(m, x, rec, c)

-----------------------------------------------------------------------------
(* What a record of mission m says is true, whenever it is read: h is the   *)
(* history, o the number of commands, b the board, t the branch.            *)

\* Of the events of its own life.
Tells(m, x, h) ==
    /\ x.st = "blocked" /\ x.escalated => <<m, x.attempt>> \in h.warned
    /\ x.st \in Worked => x.commit # 0
    /\ x.st = "in_review" => x.subject = x.commit
    /\ x.st \in {"in_review", "approved", "integrating"} => <<m, x.commit>> \in h.checked
    /\ x.st \in {"approved", "integrating"} => <<m, x.commit>> \in h.approved
    /\ ToSet(x.preHead) \subseteq h.checked \cap h.approved
    /\ ToSet(x.tested) \subseteq h.green
    /\ x.st \notin Ended => ~x.skipped

\* Of its rounds and attempts.
Counts(x, o) ==
    /\ x.st \in {"blocked"} \cup Ended \/ x.rejections < MaxAttempts
    /\ x.attempt <= MaxAttempts * o + x.rejections + 1 /\ x.attempt <= MaxAttempts * (o + 1)
    /\ x.st \in {"pending", "ready"} => x.attempt = 0
    /\ x.attempt = 0 => x.st \in {"pending", "ready"} \cup Ended
    /\ \A i \in DOMAIN x.history : x.history[i].n <= x.attempt
    /\ x.st \in {"requested", "aborted"} \/ x.skipped
       \/ \A i \in DOMAIN x.history : x.history[i].n = x.attempt => x.history[i].closed

\* Of the tasks on the board: none is newer, those given up are in the history, and
\* what is worked on was delivered by the current one.
GivenUp(x, n) == n < x.attempt \/ (n = x.attempt /\ (x.st = "aborted" \/ x.skipped))
Listed(m, x, n, h, b) ==
    \E i \in DOMAIN x.history :
        x.history[i].n = n /\ (x.history[i].closed => <<m, n>> \in h.told \/ b[<<m, n>>].st = "none")
Delivers(e, k) == e.st = "done" /\ e.commit = k /\ ~e.late
Posts(m, x, h, b) ==
    /\ \A n \in Attempts : b[<<m, n>>].st # "none" => n <= x.attempt
    /\ \A n \in Attempts : GivenUp(x, n) => Listed(m, x, n, h, b)
    /\ x.st \in Worked => x.attempt \in Attempts /\ Delivers(b[<<m, x.attempt>>], x.commit)

\* Of the change branch.
Lands(m, x, h, t, s) ==
    /\ x.st = "integrated" /\ ~x.skipped => <<m, x.commit>> \in t \cap h.green
    /\ x.st = "integrating" => ToSet(x.preHead) \subseteq t
    /\ s = 0 => /\ \A d \in t : d[1] = m => x.st \in {"integrating"} \cup Ended /\ x.commit = d[2]
                /\ \A d \in ToSet(x.preHead) : d[1] # m

Sound(m, x, h, b, t, s) == Tells(m, x, h) /\ Counts(x, s.ops) /\ Posts(m, x, h, b) /\ Lands(m, x, h, t, s.soils)
AllSound == \A m \in Missions : \A x \in Records : Copy(m, x) => Sound(m, x, hist, board, OnBranch, spent)

\* One merge at a time, and what is integrated was before it.
OneMerge ==
    \A m, n \in Missions : \A x, y \in Records :
        Copy(m, x) /\ Copy(n, y) /\ x.st = "integrating" =>
            /\ y.st = "integrating" => m = n /\ x.preHead = y.preHead
            /\ y.st = "integrated" /\ ~y.skipped /\ m # n => <<n, y.commit>> \in ToSet(x.preHead)

-----------------------------------------------------------------------------
(* How the copies agree.                                                    *)

\* A copy that a repair took and could not bring back.
Behind(x, y) ==
    /\ x.st = "integrating" /\ y.st \in {"approved", "integrating", "integrated", "blocked"}
    /\ y.attempt = x.attempt /\ y.commit = x.commit /\ ~y.skipped
Agree ==
    /\ \A m \in Missions : Keeps(c, m) =>
           \/ c.mem[m] = rec[m]
           \/ Behind(c.mem[m], rec[m]) /\ (c.job = "pass" \/ (c.job \in {"startup", "repair"} /\ Has(c, m)))
    /\ c.job \in {"startup", "repair"} /\ c.pc \in Working => Behind(c.mem[c.cur], c.r)
    /\ c.pc \in {"turn", "publish", "check", "merge", "unmerge", "suite", "tell"} =>
           \/ c.r = rec[c.cur]
           \/ c.job = "pass" /\ c.pc \in {"turn", "tell"} /\ Behind(c.r, rec[c.cur])

\* What the process is at.
AtCall ==
    /\ c.pc \in Working => c.cur \in Missions
    /\ c.pc = "publish" => c.r.st \in {"requested", "accepted"} /\ c.job \in {"pass", "op"}
    /\ c.pc = "check" => c.r.st = "checking" /\ c.job = "pass"
    /\ c.pc = "uncheck" => c.r.st = "delivered"
    /\ c.pc = "tell" => Owed # {} /\ board[<<c.cur, r.history[Oldest].n>>].st # "none"
    /\ c.pc \in {"repair", "recheck"} => c.job \in {"startup", "repair"}
    /\ c.pc = "abort" => c.job = "abort"
    /\ c.pc = "recheck" => c.job = "startup" /\ \A m \in c.todo : c.mem[m].st = "checking"
    /\ c.pc = "late" => c.job = "pass"
    /\ c.job = "abort" /\ c.pc \in Working => c.cur \notin c.todo
    /\ c.job = "abort" /\ c.pc \in Working \cup {"abort"} => \A m \in c.todo : c.mem[m].st \notin Ended
    /\ c.pc \in Merging => c.r.st = "integrating" /\ c.job \in {"pass", "startup", "repair"}
    /\ c.job = "repair" /\ c.pc \in Working \cup {"repair"} => c.busy
AtMerge ==
    /\ c.pc = "suite" => <<c.cur, c.r.commit>> \in OnBranch
    /\ c.pc \in {"merge", "unmerge", "unmerged"} /\ spent.soils = 0 => \A d \in OnBranch : d[1] # c.cur
    /\ c.pc \in Merging => \A y \in Records : Copy(c.cur, y) => y.st = "integrating"
    /\ c.job = "pass" /\ c.pc \in Working /\ chg.st = "active" /\ ~c.busy =>
           \A m \in Missions : \A x \in Records : Copy(m, x) => x.st # "integrating"

\* What the pass read of the board still holds where it will be acted on.
Reads(m, x, seen, b) ==
    x.st \in {"requested", "accepted"} =>
        LET t == <<m, x.attempt>> IN seen[t].st = "done" => b[t] = seen[t]
AllRead ==
    /\ \A t \in Tasks : c.seen[t].st # "none" => board[t].st # "none"
    /\ c.job # "abort" => \A m \in Missions : Keeps(c, m) /\ ~Has(c, m) => Reads(m, c.mem[m], c.seen, board)
    /\ c.job = "pass" /\ c.pc \in Working \ {"failed", "late"} => Reads(c.cur, c.r, c.seen, board)

\* The board, the ledger, the branch and the worktree.
EntryFits(e) == e.st = "done" => e.acc /\ e.commit # 0
WorldFits ==
    /\ \A t \in Tasks : EntryFits(board[t]) /\ EntryFits(c.seen[t])
    /\ \A d \in Deliveries : ledger[d] = "APPROVED" => d \in hist.approved
    /\ hist.completed <= 1 /\ (hist.completed = 1 => chg.complete)
    /\ git.dirty => spent.soils # 0

-----------------------------------------------------------------------------
(* Types.                                                                   *)

Steps == Working \cup Resting
Processes == [pc : Steps, job : {"startup", "repair", "pass", "op", "abort"}, cur : 0 .. N, r : Records,
              mem : [Missions -> Records], seen : [Tasks -> Entries], busy : BOOLEAN, errs : BOOLEAN,
              todo : SUBSET Missions]
Histories == [told : SUBSET Tasks, warned : SUBSET (Missions \X (Attempts \cup {0})), asked : SUBSET Deliveries,
              checked : SUBSET Deliveries, approved : SUBSET Deliveries, green : SUBSET Deliveries,
              noted : [Missions -> Nat], completed : Nat]
Types ==
    /\ TypeOK /\ c \in Processes /\ hist \in Histories
    /\ faults \in Nat /\ spent \in [{"ops", "crashes", "verdicts", "soils"} -> Nat] /\ spent.ops <= MaxOps

ConductorInv ==
    /\ Types /\ AllSound /\ OneMerge
    /\ Agree /\ AtCall /\ AtMerge /\ AllRead /\ WorldFits
    /\ MergedWasReviewed /\ SignalsHonest

-----------------------------------------------------------------------------
(* Facts about data.                                                        *)

LEMMA Constants ==
    /\ N \in Nat /\ MaxAttempts \in Nat /\ MaxAttempts >= 1 /\ MaxOps \in Nat
    /\ 0 \notin Commits /\ Commits \subseteq Nat
    /\ Missions \subseteq Nat /\ Attempts \subseteq Nat
BY ConductorAssumption DEF Missions, Attempts

LEMMA Products ==
    ASSUME NEW o \in Nat
    PROVE  /\ MaxAttempts * o \in Nat /\ MaxAttempts * (o + 1) = MaxAttempts * o + MaxAttempts
           /\ o <= MaxOps => MaxAttempts * o <= MaxAttempts * MaxOps
<1>1. MaxAttempts * o \in Nat /\ MaxAttempts * (o + 1) = MaxAttempts * o + MaxAttempts
  BY Constants
<1>2. ASSUME o <= MaxOps PROVE MaxAttempts * o <= MaxAttempts * MaxOps
  <2>1. PICK e \in Nat : MaxOps = o + e
    <3>1. MaxOps - o \in Nat /\ MaxOps = o + (MaxOps - o)
      BY <1>2, Constants
    <3> QED BY <3>1
  <2>2. MaxAttempts * MaxOps = MaxAttempts * o + MaxAttempts * e /\ MaxAttempts * e \in Nat
    BY <2>1, Constants
  <2> QED BY <1>1, <2>2
<1> QED BY <1>1, <1>2

LEMMA AppendIs ==
    ASSUME NEW S, NEW s \in Seq(S), NEW e \in S
    PROVE  /\ Append(s, e) \in Seq(S)
           /\ Append(s, e)[Len(s) + 1] = e /\ Len(s) + 1 \in DOMAIN Append(s, e)
           /\ \A i \in DOMAIN s : i \in DOMAIN Append(s, e) /\ Append(s, e)[i] = s[i]
           /\ \A i \in DOMAIN Append(s, e) : i = Len(s) + 1 \/ i \in DOMAIN s
           /\ ToSet(Append(s, e)) = ToSet(s) \cup {e}
<1>1. /\ Append(s, e) \in Seq(S) /\ Len(s) \in Nat /\ DOMAIN s = 1 .. Len(s)
      /\ DOMAIN Append(s, e) = 1 .. Len(s) + 1
      /\ Append(s, e)[Len(s) + 1] = e /\ \A i \in 1 .. Len(s) : Append(s, e)[i] = s[i]
  OBVIOUS
<1>2. ToSet(Append(s, e)) = ToSet(s) \cup {e}
  <2> DEFINE l == Len(s)
             a == Append(s, e)
  <2>1. ToSet(a) = {a[i] : i \in 1 .. l + 1} /\ ToSet(s) = {s[i] : i \in 1 .. l}
    BY <1>1 DEF ToSet
  <2>2. l \in Nat /\ a[l + 1] = e /\ \A i \in 1 .. l : a[i] = s[i]
    BY <1>1
  <2> HIDE DEF l, a
  <2>3. \A i \in 1 .. l + 1 : i = l + 1 \/ i \in 1 .. l
    BY <2>2
  <2>4. l + 1 \in 1 .. l + 1 /\ \A i \in 1 .. l : i \in 1 .. l + 1
    BY <2>2
  <2> QED BY <2>1, <2>2, <2>3, <2>4 DEF a
<1> QED BY <1>1, <1>2

HistoryEntries == [n : Attempts, closed : BOOLEAN, late : {"no", "accepted", "done", "blocked"},
                   outcome : {"superseded", "check_failed", "review_rejected"}]

LEMMA RecordTypes ==
    ASSUME NEW x \in Records
    PROVE  /\ x.st \in Life!States /\ x.attempt \in Nat /\ x.rejections \in Nat /\ x.rejections <= MaxAttempts
           /\ x.attempt \in Attempts \cup {0} /\ x.commit \in Commits \cup {0} /\ x.subject \in Commits \cup {0}
           /\ x.history \in Seq(HistoryEntries) /\ \A i \in DOMAIN x.history : x.history[i] \in HistoryEntries
           /\ \A i \in DOMAIN x.history : x.history[i].n \in Attempts /\ x.history[i].n \in Nat /\ x.history[i].closed \in BOOLEAN
           /\ x.preHead \in Seq(Deliveries) /\ x.tested \in Seq(Deliveries)
           /\ x.escalated \in BOOLEAN /\ x.skipped \in BOOLEAN /\ x.reviewOpen \in BOOLEAN
<1>1. x.history \in Seq(HistoryEntries)
  BY DEF Records, HistoryEntries
<1>2. \A i \in DOMAIN x.history : x.history[i] \in HistoryEntries
  BY <1>1
<1>3. /\ x.st \in Life!States /\ x.attempt \in Nat /\ x.rejections \in Nat /\ x.rejections <= MaxAttempts
      /\ x.attempt \in Attempts \cup {0} /\ x.commit \in Commits \cup {0} /\ x.subject \in Commits \cup {0}
  BY Constants DEF Records, Attempts
<1>4. \A i \in DOMAIN x.history : x.history[i].n \in Attempts /\ x.history[i].n \in Nat /\ x.history[i].closed \in BOOLEAN
  BY <1>2, Constants DEF HistoryEntries
<1> QED BY <1>1, <1>2, <1>3, <1>4 DEF Records

-----------------------------------------------------------------------------
(* What an event makes of a record.                                         *)

Events == {"deps_integrated", "accepted", "agent_blocked", "delivered", "check_started", "check_failed",
           "check_passed", "approved", "review_rejected", "integrate_started", "integrated",
           "integrate_failed", "retry", "reassign", "timed_out", "skip", "abort"}
Entry(x, ev) == [n |-> x.attempt, closed |-> FALSE, late |-> "no",
                 outcome |-> IF ev \in Life!Rejecting THEN ev ELSE "superseded"]
Closes(x, ev) == "supersede" \in Does(x, ev) /\ x.attempt # 0
Sends(x, ev) == "send_request" \in Does(x, ev)

LEMMA Fields ==
    ASSUME NEW x \in Records, NEW ev \in Events, ev \in Life!Rejecting => x.rejections < MaxAttempts,
           NEW y, y = Transition(x, ev)
    PROVE  /\ y \in Records
           /\ y.st = Step(x, ev) /\ y.rejections = Life!Count(x.rejections, ev)
           /\ y.attempt = x.attempt /\ y.commit = x.commit /\ y.preHead = x.preHead
           /\ y.tested = x.tested /\ y.skipped = x.skipped
           /\ Closes(x, ev) => y.history = Append(x.history, Entry(x, ev)) /\ Entry(x, ev) \in HistoryEntries
           /\ ~Closes(x, ev) => y.history = x.history
           /\ "escalate" \in Does(x, ev) => ~y.escalated
           /\ y.escalated => x.escalated
           /\ "open_review" \in Does(x, ev) => y.subject = x.commit
<1> DEFINE acts == Does(x, ev)
           z == [x EXCEPT !.st = Step(x, ev), !.rejections = Life!Count(x.rejections, ev)]
           h == IF Closes(x, ev) THEN Append(x.history, Entry(x, ev)) ELSE x.history
           e == x.escalated /\ "escalate" \notin acts
           w == [[z EXCEPT !.history = h] EXCEPT !.escalated = e]
           v == [[[w EXCEPT !.subject = x.commit] EXCEPT !.ref = x.attempt] EXCEPT !.reviewOpen = FALSE]
<1>1. y = IF "open_review" \in acts THEN v ELSE w
  BY DEF Transition, Closes, Entry
<1>2. Step(x, ev) \in Life!States
  BY DEF Step, Life!To, Life!States, Life!Rejecting, Events
<1>3. Life!Count(x.rejections, ev) \in 0 .. MaxAttempts
  <2>1. x.rejections \in Nat /\ x.rejections <= MaxAttempts /\ MaxAttempts \in Nat
    BY RecordTypes, Constants
  <2> QED BY <2>1 DEF Life!Count
<1>4. z \in Records /\ z.st = Step(x, ev) /\ z.rejections = Life!Count(x.rejections, ev)
      /\ z.attempt = x.attempt /\ z.commit = x.commit /\ z.preHead = x.preHead /\ z.tested = x.tested
      /\ z.skipped = x.skipped /\ z.history = x.history /\ z.escalated = x.escalated
  BY <1>2, <1>3 DEF Records
<1>5. x.history \in Seq(HistoryEntries) /\ (Closes(x, ev) => Entry(x, ev) \in HistoryEntries)
  <2>1. x.attempt \in Attempts \cup {0}
    BY RecordTypes
  <2> QED BY <2>1, RecordTypes DEF Entry, Closes, HistoryEntries, Life!Rejecting
<1>6. h \in Seq(HistoryEntries)
  BY <1>5, AppendIs
<1>7. e \in BOOLEAN /\ x.attempt \in Attempts \cup {0} /\ x.commit \in Commits \cup {0}
  BY RecordTypes
<1>8. w \in Records /\ w.st = z.st /\ w.rejections = z.rejections /\ w.attempt = z.attempt
      /\ w.commit = z.commit /\ w.preHead = z.preHead /\ w.tested = z.tested
      /\ w.skipped = z.skipped /\ w.history = h /\ w.escalated = e
  <2> HIDE DEF z, h, e
  <2> QED BY <1>4, <1>6, <1>7 DEF Records, HistoryEntries
<1>9. v \in Records /\ v.st = w.st /\ v.rejections = w.rejections /\ v.attempt = w.attempt
      /\ v.commit = w.commit /\ v.preHead = w.preHead /\ v.tested = w.tested
      /\ v.skipped = w.skipped /\ v.history = w.history /\ v.escalated = w.escalated /\ v.subject = x.commit
  <2> HIDE DEF w
  <2> QED BY <1>7, <1>8 DEF Records
<1> HIDE DEF v, w, z, h
<1> QED BY <1>1, <1>4, <1>5, <1>8, <1>9 DEF h

\* The table, event by event: where it starts, where it leads, what it owes.
LEMMA Table ==
    ASSUME NEW x \in Records, NEW ev \in Events
    PROVE  LET y == Step(x, ev)
               last == ~Life!Left(x.rejections, ev)
           IN  /\ x.st \in Life!From[ev] => x.st \notin Ended
               /\ ev = "deps_integrated" => y = "ready"
               /\ ev = "accepted" => y = "accepted"
               /\ ev = "delivered" => y = "delivered"
               /\ ev = "check_started" => y = "checking"
               /\ ev = "check_passed" => y = "in_review"
               /\ ev = "approved" => y = "approved"
               /\ ev = "integrate_started" => y = "integrating"
               /\ ev \in {"integrated", "skip"} => y = "integrated"
               /\ ev = "abort" => y = "aborted"
               /\ ev \in {"retry", "reassign"} => y = "requested"
               /\ ev \in {"agent_blocked", "timed_out", "integrate_failed"} => y = "blocked"
               /\ ev \in Life!Rejecting => y = IF last THEN "blocked" ELSE "requested"
<1>1. x.st \in Life!From[ev] => x.st \notin Ended
  BY DEF Events, Life!From, Life!States, Ended, Life!Final
<1> QED BY <1>1 DEF Step, Life!To, Life!Rejecting, Events

LEMMA Effects ==
    ASSUME NEW x \in Records, NEW ev \in Events
    PROVE  /\ Sends(x, ev) <=> \/ ev \in {"retry", "reassign"}
                               \/ ev \in Life!Rejecting /\ Life!Left(x.rejections, ev)
           /\ "escalate" \in Does(x, ev) <=> Step(x, ev) = "blocked"
           /\ "open_review" \in Does(x, ev) <=> ev = "check_passed"
           /\ Sends(x, ev) => "supersede" \in Does(x, ev)
           /\ "supersede" \in Does(x, ev) =>
                  Sends(x, ev) \/ (ev = "abort" /\ x.st # "pending") \/ (ev = "skip" /\ x.st \notin {"pending", "ready"})
           /\ ev = "abort" /\ x.st # "pending" => "supersede" \in Does(x, ev)
           /\ ev = "skip" /\ x.st \notin {"pending", "ready"} => "supersede" \in Does(x, ev)
<1>1. ev # "request_sent"
  BY DEF Events
<1> QED BY <1>1 DEF Does, Step, Sends, Life!Acts, Life!Sends, Life!Retrying, Life!Rejecting

LEMMA Rejections ==
    ASSUME NEW x \in Records, NEW ev \in Events
    PROVE  /\ ev \notin Life!Rejecting => Life!Count(x.rejections, ev) = x.rejections
           /\ ev \in Life!Rejecting =>
                  /\ Life!Count(x.rejections, ev) = x.rejections + 1
                  /\ Life!Left(x.rejections, ev) <=> x.rejections + 1 < MaxAttempts
BY RecordTypes DEF Life!Count, Life!Left

\* Where an event comes from.
LEMMA Origins ==
    ASSUME NEW s, NEW ev \in Events, s \in Life!From[ev]
    PROVE  /\ ev = "deps_integrated" => s = "pending"
           /\ ev = "accepted" => s = "requested"
           /\ ev = "agent_blocked" => s \in {"requested", "accepted"}
           /\ ev \in {"delivered", "timed_out"} => s = "accepted"
           /\ ev = "check_started" => s = "delivered"
           /\ ev \in {"check_passed", "check_failed"} => s = "checking"
           /\ ev \in {"approved", "review_rejected"} => s = "in_review"
           /\ ev = "integrate_started" => s = "approved"
           /\ ev \in {"integrated", "integrate_failed"} => s = "integrating"
           /\ ev = "retry" => s = "blocked"
           /\ ev = "reassign" => s \in {"accepted", "blocked"}
           /\ ev = "skip" => s \in Life!States \ {"approved", "integrating", "integrated", "aborted"}
           /\ ev = "abort" => s \in Life!States \ Ended
<1>1. ev \notin {"skip", "abort"} => Life!From[ev] \subseteq Life!States
  BY DEF Events, Life!From, Life!States
<1>2. Life!From["skip"] = Life!States \ {"approved", "integrating", "integrated", "aborted"}
  BY DEF Life!From
<1>3. Life!From["abort"] = Life!States \ Ended
  BY DEF Life!From, Ended, Life!Final
<1>4. ev \notin {"skip", "abort"} =>
           /\ ev = "deps_integrated" => s = "pending"
           /\ ev = "accepted" => s = "requested"
           /\ ev = "agent_blocked" => s \in {"requested", "accepted"}
           /\ ev \in {"delivered", "timed_out"} => s = "accepted"
           /\ ev = "check_started" => s = "delivered"
           /\ ev \in {"check_passed", "check_failed"} => s = "checking"
           /\ ev \in {"approved", "review_rejected"} => s = "in_review"
           /\ ev = "integrate_started" => s = "approved"
           /\ ev \in {"integrated", "integrate_failed"} => s = "integrating"
           /\ ev = "retry" => s = "blocked"
           /\ ev = "reassign" => s \in {"accepted", "blocked"}
  BY DEF Events, Life!From
<1> QED BY <1>2, <1>3, <1>4

-----------------------------------------------------------------------------
(* What a record says stays true through an event that is rightly taken.    *)

AllClosed(x) == \A i \in DOMAIN x.history : x.history[i].closed
Rightly(m, x, ev, h, b, t, s) ==
    /\ ev \in Events /\ ev # "skip" /\ x.st \in Life!From[ev]
    /\ ev \in {"accepted", "agent_blocked"} => AllClosed(x)
    /\ ev = "delivered" => x.commit # 0 /\ x.attempt \in Attempts /\ Delivers(b[<<m, x.attempt>>], x.commit)
    /\ ev = "check_passed" => <<m, x.commit>> \in h.checked
    /\ ev = "approved" => <<m, x.commit>> \in h.approved
    /\ ev = "integrate_started" => ToSet(x.preHead) \subseteq t
    /\ ev = "integrated" => <<m, x.commit>> \in t \cap h.green
    /\ ev = "integrate_failed" /\ s.soils = 0 => \A d \in t : d[1] # m

LEMMA EventRejections ==
    ASSUME NEW x \in Records, NEW o, Counts(x, o), NEW ev \in Events, x.st \in Life!From[ev]
    PROVE  ev \in Life!Rejecting => x.rejections < MaxAttempts
BY Origins DEF Counts, Ended, Life!Rejecting

LEMMA TellsAfter ==
    ASSUME NEW m, NEW x \in Records, NEW ev, NEW h, NEW b, NEW t, NEW s, NEW y, y = Transition(x, ev),
           Tells(m, x, h), Counts(x, s.ops), Rightly(m, x, ev, h, b, t, s)
    PROVE  y \in Records /\ Tells(m, y, h)
<1>1. ev \in Events /\ x.st \in Life!From[ev] /\ (ev \in Life!Rejecting => x.rejections < MaxAttempts)
  BY EventRejections DEF Rightly
<1>2. /\ y \in Records /\ y.st = Step(x, ev) /\ y.attempt = x.attempt /\ y.commit = x.commit
      /\ y.preHead = x.preHead /\ y.tested = x.tested /\ y.skipped = x.skipped
      /\ "escalate" \in Does(x, ev) => ~y.escalated
      /\ "open_review" \in Does(x, ev) => y.subject = x.commit
  BY <1>1, Fields
<1>3. /\ y.st = "blocked" => ~y.escalated
      /\ y.st = "in_review" => ev = "check_passed" /\ y.subject = x.commit
      /\ y.st = "approved" => ev = "approved" /\ x.st = "in_review"
      /\ y.st = "integrating" => ev = "integrate_started" /\ x.st = "approved"
      /\ y.st = "checking" => x.st = "delivered"
      /\ y.st = "delivered" => ev = "delivered"
      /\ ev = "check_passed" => x.st = "checking"
      /\ x.st \notin Ended
  <2>1. /\ "escalate" \in Does(x, ev) <=> Step(x, ev) = "blocked"
        /\ "open_review" \in Does(x, ev) <=> ev = "check_passed"
    BY <1>1, Effects
  <2>2. /\ Step(x, ev) = "in_review" => ev = "check_passed"
        /\ Step(x, ev) = "approved" => ev = "approved"
        /\ Step(x, ev) = "integrating" => ev = "integrate_started"
        /\ Step(x, ev) = "checking" => ev = "check_started"
        /\ Step(x, ev) = "delivered" => ev = "delivered"
        /\ x.st \notin Ended
    BY <1>1, Table DEF Events, Life!Rejecting
  <2> QED BY <1>1, <1>2, <2>1, <2>2, Origins
<1> QED BY <1>2, <1>3 DEF Tells, Rightly, Worked, Ended

LEMMA CountsAfter ==
    ASSUME NEW m, NEW x \in Records, NEW ev, NEW h, NEW b, NEW t, NEW s, s.ops \in Nat, NEW y, y = Transition(x, ev),
           Counts(x, s.ops), Rightly(m, x, ev, h, b, t, s), ev \in {"retry", "reassign"} => x.rejections = 0
    PROVE  Counts(y, s.ops)
<1>1. ev \in Events /\ x.st \in Life!From[ev] /\ (ev \in Life!Rejecting => x.rejections < MaxAttempts)
  BY EventRejections DEF Rightly
<1>2. /\ y \in Records /\ y.st = Step(x, ev) /\ y.attempt = x.attempt /\ y.skipped = x.skipped
      /\ y.rejections = Life!Count(x.rejections, ev)
      /\ Closes(x, ev) => y.history = Append(x.history, Entry(x, ev)) /\ Entry(x, ev) \in HistoryEntries
      /\ ~Closes(x, ev) => y.history = x.history
  BY <1>1, Fields
<1>3. x.rejections \in Nat /\ x.attempt \in Nat /\ MaxAttempts * s.ops \in Nat
  BY RecordTypes, Products
<1>4. y.rejections >= x.rejections
  BY <1>1, <1>2, <1>3, Rejections
<1>5. y.st \in {"blocked"} \cup Ended \/ y.rejections < MaxAttempts
  <2>1. CASE ev \in Life!Rejecting
    <3>1. Step(x, ev) = IF ~Life!Left(x.rejections, ev) THEN "blocked" ELSE "requested"
      BY <1>1, <2>1, Table
    <3> QED BY <1>1, <1>2, <2>1, <3>1, Rejections
  <2>2. CASE ev \in {"retry", "reassign"}
    BY <1>1, <1>2, <2>2, Rejections, Constants DEF Life!Rejecting
  <2>3. CASE ev \notin Life!Rejecting \cup {"retry", "reassign"}
    <3>1. y.rejections = x.rejections
      BY <1>1, <1>2, <2>3, Rejections
    <3>2. x.st = "blocked" => ev = "abort"
      BY <1>1, <2>3, Origins DEF Events, Rightly
    <3>3. x.st \notin Ended /\ (ev = "abort" => y.st = "aborted")
      BY <1>1, <1>2, Table
    <3> QED BY <3>1, <3>2, <3>3 DEF Counts, Ended
  <2> QED BY <2>1, <2>2, <2>3
<1>6. y.st \in {"pending", "ready"} => y.attempt = 0
  <2>1. /\ Step(x, ev) # "pending"
        /\ Step(x, ev) = "ready" => ev = "deps_integrated"
    BY <1>1, Table DEF Events, Life!Rejecting
  <2>2. ev = "deps_integrated" => x.st = "pending"
    BY <1>1, Origins
  <2> QED BY <1>2, <2>1, <2>2 DEF Counts
<1>7. y.attempt = 0 => y.st \in {"pending", "ready"} \cup Ended
  <2>1. x.st \in {"pending", "ready"} => ev \in {"deps_integrated", "abort"}
    BY <1>1, Origins DEF Events, Rightly
  <2>2. x.st \notin Ended /\ (ev = "deps_integrated" => y.st = "ready") /\ (ev = "abort" => y.st = "aborted")
    BY <1>1, <1>2, Table
  <2> QED BY <1>2, <2>1, <2>2 DEF Counts, Ended
<1>8. \A i \in DOMAIN y.history : y.history[i].n <= y.attempt
  <2>1. x.history \in Seq(HistoryEntries) /\ Entry(x, ev).n = x.attempt
    BY RecordTypes DEF Entry
  <2>2. CASE Closes(x, ev)
    <3>1. ASSUME NEW i \in DOMAIN y.history PROVE y.history[i].n <= y.attempt
      <4>1. \/ y.history[i] = Entry(x, ev)
            \/ i \in DOMAIN x.history /\ y.history[i] = x.history[i]
        BY <1>2, <2>1, <2>2, <3>1, AppendIs
      <4> QED BY <1>2, <1>3, <2>1, <4>1 DEF Counts
    <3> QED BY <3>1
  <2>3. CASE ~Closes(x, ev)
    BY <1>2, <2>3 DEF Counts
  <2> QED BY <2>2, <2>3
<1>9. \/ y.st \in {"requested", "aborted"} \/ y.skipped
      \/ \A i \in DOMAIN y.history : y.history[i].n = y.attempt => y.history[i].closed
  <2>1. CASE "supersede" \in Does(x, ev)
    <3>1. Sends(x, ev) \/ ev = "abort"
      BY <1>1, <2>1, Effects DEF Rightly
    <3>2. y.st \in {"requested", "aborted"}
      BY <1>1, <1>2, <3>1, Effects, Table
    <3> QED BY <3>2
  <2>2. CASE "supersede" \notin Does(x, ev)
    <3>1. y.history = x.history
      BY <1>2, <2>2 DEF Closes
    <3>2. CASE x.st = "requested"
      <4>1. ev \in {"accepted", "agent_blocked"} \/ ev = "abort"
        BY <1>1, <3>2, Origins DEF Events, Rightly
      <4>2. ev = "abort" => y.st = "aborted"
        BY <1>1, <1>2, Table
      <4> QED BY <3>1, <4>1, <4>2 DEF Rightly, AllClosed
    <3>3. CASE x.st # "requested"
      <4>1. x.st \notin Ended
        BY <1>1, Table
      <4> QED BY <1>2, <3>1, <3>3, <4>1 DEF Counts, Ended
    <3> QED BY <3>2, <3>3
  <2> QED BY <2>1, <2>2
<1>10. y.attempt <= MaxAttempts * s.ops + y.rejections + 1 /\ y.attempt <= MaxAttempts * (s.ops + 1)
  <2>1. y.rejections \in Nat
    BY <1>2, RecordTypes
  <2> QED BY <1>2, <1>3, <1>4, <2>1 DEF Counts
<1> QED BY <1>5, <1>6, <1>8, <1>9, <1>10, <1>7 DEF Counts

LEMMA PostsAfter ==
    ASSUME NEW m, NEW x \in Records, NEW ev, NEW h, NEW b, NEW t, NEW s, NEW y, y = Transition(x, ev),
           Posts(m, x, h, b), Counts(x, s.ops), Rightly(m, x, ev, h, b, t, s), ~x.skipped
    PROVE  /\ Posts(m, y, h, b)
           /\ Sends(x, ev) /\ y.attempt # 0 => Listed(m, y, y.attempt, h, b)
<1>1. ev \in Events /\ x.st \in Life!From[ev] /\ (ev \in Life!Rejecting => x.rejections < MaxAttempts)
  BY EventRejections DEF Rightly
<1>2. /\ y \in Records /\ y.st = Step(x, ev) /\ y.attempt = x.attempt /\ y.commit = x.commit /\ y.skipped = x.skipped
      /\ Closes(x, ev) => y.history = Append(x.history, Entry(x, ev)) /\ Entry(x, ev) \in HistoryEntries
      /\ ~Closes(x, ev) => y.history = x.history
  BY <1>1, Fields
<1>3. x.history \in Seq(HistoryEntries) /\ Entry(x, ev).n = x.attempt /\ ~Entry(x, ev).closed /\ x.attempt \in Nat
  BY RecordTypes DEF Entry
<1>4. ASSUME NEW n, Listed(m, x, n, h, b) PROVE Listed(m, y, n, h, b)
  <2>1. \A i \in DOMAIN x.history : i \in DOMAIN y.history /\ y.history[i] = x.history[i]
    BY <1>2, <1>3, AppendIs
  <2> QED BY <1>4, <2>1 DEF Listed
<1>5. Closes(x, ev) => Listed(m, y, x.attempt, h, b)
  BY <1>2, <1>3, AppendIs DEF Listed
<1>6. ASSUME NEW n \in Attempts, GivenUp(y, n) PROVE Listed(m, y, n, h, b)
  <2>1. CASE n < x.attempt
    BY <1>4, <2>1 DEF Posts, GivenUp
  <2>2. CASE n = x.attempt
    <3>1. y.st = "aborted" /\ n # 0
      BY <1>2, <1>6, <2>2, Constants DEF GivenUp, Attempts
    <3>2. ev = "abort"
      <4>1. Step(x, ev) = "aborted" => ev \in {"abort", "skip"}
        BY <1>1, Table DEF Events, Life!Rejecting
      <4> QED BY <1>2, <3>1, <4>1 DEF Rightly
    <3>3. x.st # "pending"
      BY <2>2, <3>1 DEF Counts
    <3>4. Closes(x, ev)
      BY <1>1, <2>2, <3>1, <3>2, <3>3, Effects DEF Closes
    <3> QED BY <1>5, <2>2, <3>4
  <2> QED BY <1>2, <1>6, <2>1, <2>2 DEF GivenUp
<1>7. Sends(x, ev) /\ y.attempt # 0 => Listed(m, y, y.attempt, h, b)
  BY <1>1, <1>2, <1>5, Effects DEF Closes
<1>8. y.st \in Worked => y.attempt \in Attempts /\ Delivers(b[<<m, y.attempt>>], y.commit)
  <2>1. y.st \in Worked => ev \in {"delivered", "check_started", "check_passed", "approved", "integrate_started"}
    BY <1>1, <1>2, Table DEF Events, Life!Rejecting, Worked, Rightly
  <2>2. ev \in {"check_started", "check_passed", "approved", "integrate_started"} => x.st \in Worked
    BY <1>1, Origins DEF Worked
  <2> QED BY <1>2, <2>1, <2>2 DEF Posts, Rightly
<1> QED BY <1>2, <1>6, <1>7, <1>8 DEF Posts

LEMMA LandsAfter ==
    ASSUME NEW m, NEW x \in Records, NEW ev, NEW h, NEW b, NEW t, NEW s, NEW y, y = Transition(x, ev),
           Lands(m, x, h, t, s.soils), Counts(x, s.ops), Rightly(m, x, ev, h, b, t, s)
    PROVE  Lands(m, y, h, t, s.soils)
<1>1. ev \in Events /\ x.st \in Life!From[ev] /\ (ev \in Life!Rejecting => x.rejections < MaxAttempts)
  BY EventRejections DEF Rightly
<1>2. y.st = Step(x, ev) /\ y.commit = x.commit /\ y.preHead = x.preHead
  BY <1>1, Fields
<1>3. /\ y.st = "integrated" => ev = "integrated"
      /\ y.st = "integrating" => ev = "integrate_started"
      /\ x.st = "integrating" => ev \in {"integrated", "integrate_failed", "abort"}
      /\ ev = "integrated" => y.st = "integrated"
      /\ ev = "abort" => y.st = "aborted"
      /\ x.st \notin Ended
  <2>1. x.st = "integrating" => ev \in {"integrated", "integrate_failed", "abort"}
    BY <1>1, Origins DEF Rightly, Events
  <2> QED BY <1>1, <1>2, <2>1, Table DEF Events, Life!Rejecting, Rightly
<1> QED BY <1>2, <1>3 DEF Lands, Rightly, Ended

LEMMA EventSound ==
    ASSUME NEW m, NEW x \in Records, NEW ev, NEW h, NEW b, NEW t, NEW s, s.ops \in Nat, NEW y, y = Transition(x, ev),
           Sound(m, x, h, b, t, s), Rightly(m, x, ev, h, b, t, s), ev \in {"retry", "reassign"} => x.rejections = 0
    PROVE  /\ y \in Records /\ Sound(m, y, h, b, t, s)
           /\ Sends(x, ev) /\ y.attempt # 0 => Listed(m, y, y.attempt, h, b)
<1>1. Tells(m, x, h) /\ Counts(x, s.ops) /\ Posts(m, x, h, b) /\ Lands(m, x, h, t, s.soils)
  BY DEF Sound
<1>2. ~x.skipped
  <2>1. x.st \notin Ended
    BY Table DEF Rightly
  <2> QED BY <1>1, <2>1 DEF Tells
<1>3. y \in Records /\ Tells(m, y, h)
  BY <1>1, TellsAfter
<1>4. Counts(y, s.ops)
  BY <1>1, CountsAfter
<1>5. Posts(m, y, h, b) /\ (Sends(x, ev) /\ y.attempt # 0 => Listed(m, y, y.attempt, h, b))
  BY <1>1, <1>2, PostsAfter
<1>6. Lands(m, y, h, t, s.soils)
  BY <1>1, LandsAfter
<1> QED BY <1>3, <1>4, <1>5, <1>6 DEF Sound

\* The record of a new attempt.
Opened(y) == [y EXCEPT !.attempt = @ + 1, !.commit = 0, !.subject = 0, !.st = "requested"]
Room(y, o) == y.rejections < MaxAttempts /\ y.attempt <= MaxAttempts * o + y.rejections

LEMMA OpenedSound ==
    ASSUME NEW m, NEW y \in Records, NEW h, NEW b, NEW t, NEW s, s.ops \in Nat, s.ops <= MaxOps,
           Sound(m, y, h, b, t, s), Room(y, s.ops), y.st \in {"ready", "requested"},
           y.attempt # 0 => Listed(m, y, y.attempt, h, b), NEW z, z = Opened(y)
    PROVE  z \in Records /\ Sound(m, z, h, b, t, s)
<1> DEFINE a == y.attempt + 1
<1>1. y.attempt \in Nat /\ y.rejections \in Nat /\ MaxAttempts * s.ops \in Nat
      /\ MaxAttempts * (s.ops + 1) = MaxAttempts * s.ops + MaxAttempts
  BY RecordTypes, Products
<1>2. a \in Nat /\ a >= 1 /\ a <= MaxAttempts * s.ops + y.rejections + 1 /\ a <= MaxAttempts * (s.ops + 1)
  BY <1>1, Constants DEF Room
<1>3. a \in Attempts
  <2>1. MaxAttempts * s.ops <= MaxAttempts * MaxOps /\ MaxAttempts * MaxOps \in Nat
        /\ MaxAttempts * (MaxOps + 1) = MaxAttempts * MaxOps + MaxAttempts
    BY Products, Constants
  <2>2. a <= MaxAttempts * (MaxOps + 1) /\ MaxAttempts * (MaxOps + 1) \in Nat
    BY <1>1, <1>2, <2>1, Constants
  <2> QED BY <1>2, <2>2 DEF Attempts
<1> HIDE DEF a
<1>4. /\ z \in Records /\ z.st = "requested" /\ z.attempt = a /\ z.commit = 0 /\ z.rejections = y.rejections
      /\ z.history = y.history /\ z.preHead = y.preHead /\ z.tested = y.tested /\ z.skipped = y.skipped
  <2> DEFINE y1 == [[y EXCEPT !.attempt = a] EXCEPT !.commit = 0]
             y2 == [[y1 EXCEPT !.subject = 0] EXCEPT !.st = "requested"]
  <2>1. z = y2
    BY DEF Opened, Records, a
  <2>2. "requested" \in Life!States
    BY DEF Life!States
  <2>3. /\ y1 \in Records /\ y1.attempt = a /\ y1.commit = 0 /\ y1.rejections = y.rejections
        /\ y1.history = y.history /\ y1.preHead = y.preHead /\ y1.tested = y.tested /\ y1.skipped = y.skipped
    BY <1>3 DEF Records
  <2> HIDE DEF y1
  <2>4. /\ y2 \in Records /\ y2.st = "requested" /\ y2.attempt = y1.attempt /\ y2.commit = y1.commit
        /\ y2.rejections = y1.rejections /\ y2.history = y1.history /\ y2.preHead = y1.preHead
        /\ y2.tested = y1.tested /\ y2.skipped = y1.skipped
    BY <2>2, <2>3 DEF Records
  <2> HIDE DEF y2
  <2> QED BY <2>1, <2>3, <2>4
<1>5. ~y.skipped
  BY DEF Sound, Tells, Ended
<1>6. Tells(m, z, h)
  BY <1>4, <1>5 DEF Sound, Tells, Worked
<1>7. Counts(z, s.ops)
  <2>1. \A i \in DOMAIN z.history : z.history[i].n <= z.attempt
    <3>1. ASSUME NEW i \in DOMAIN y.history PROVE y.history[i].n <= a
      BY <1>1, RecordTypes DEF Sound, Counts, a
    <3> QED BY <1>4, <3>1
  <2> QED BY <1>2, <1>4, <2>1 DEF Room, Counts
<1>8. Posts(m, z, h, b)
  <2>1. ASSUME NEW n \in Attempts, b[<<m, n>>].st # "none" PROVE n <= z.attempt
    <3>1. n <= y.attempt /\ n \in Nat
      BY <2>1, Constants DEF Sound, Posts
    <3> QED BY <1>1, <1>4, <3>1 DEF a
  <2>2. ASSUME NEW n \in Attempts, GivenUp(z, n) PROVE Listed(m, z, n, h, b)
    <3>1. n < a
      BY <1>4, <1>5, <2>2 DEF GivenUp
    <3>2. n \in Nat /\ n # 0 /\ (n < y.attempt \/ n = y.attempt)
      BY <1>1, <3>1, Constants DEF a, Attempts
    <3>3. Listed(m, y, n, h, b)
      BY <3>2 DEF Sound, Posts, GivenUp
    <3> QED BY <1>4, <3>3 DEF Listed
  <2> QED BY <1>4, <2>1, <2>2 DEF Posts, Worked
<1>9. Lands(m, z, h, t, s.soils)
  BY <1>4 DEF Sound, Lands, Ended
<1> QED BY <1>4, <1>6, <1>7, <1>8, <1>9 DEF Sound

\* What a call of Take writes.
Made(x, ev) == IF Sends(x, ev) THEN Opened(Transition(x, ev)) ELSE Transition(x, ev)

LEMMA MadeSound ==
    ASSUME NEW m, NEW x \in Records, NEW ev, NEW h, NEW b, NEW t, NEW s, s.ops \in Nat, s.ops <= MaxOps,
           Sound(m, x, h, b, t, s), Rightly(m, x, ev, h, b, t, s),
           ev \in {"retry", "reassign"} => x.rejections = 0 /\ x.attempt <= MaxAttempts * s.ops,
           NEW y, y = Transition(x, ev), NEW z, z = Made(x, ev)
    PROVE  y \in Records /\ Sound(m, y, h, b, t, s) /\ z \in Records /\ Sound(m, z, h, b, t, s)
<1>1. /\ y \in Records /\ Sound(m, y, h, b, t, s)
      /\ Sends(x, ev) /\ y.attempt # 0 => Listed(m, y, y.attempt, h, b)
  BY EventSound
<1>2. CASE Sends(x, ev)
  <2>1. ev \in Events /\ x.st \in Life!From[ev] /\ (ev \in Life!Rejecting => x.rejections < MaxAttempts)
    BY EventRejections DEF Rightly, Sound
  <2>2. y.st = Step(x, ev) /\ y.rejections = Life!Count(x.rejections, ev) /\ y.attempt = x.attempt
    BY <2>1, Fields
  <2>3. \/ ev \in {"retry", "reassign"}
        \/ ev \in Life!Rejecting /\ Life!Left(x.rejections, ev)
    BY <1>2, <2>1, Effects
  <2>4. y.st = "requested"
    BY <2>1, <2>2, <2>3, Table
  <2>5. x.rejections \in Nat /\ x.attempt \in Nat /\ MaxAttempts * s.ops \in Nat
    BY RecordTypes, Products
  <2>6. Room(y, s.ops)
    <3>1. CASE ev \in {"retry", "reassign"}
      <4>1. y.rejections = 0
        BY <2>1, <2>2, <3>1, Rejections DEF Life!Rejecting
      <4> QED BY <2>2, <2>5, <3>1, <4>1, Constants DEF Room
    <3>2. CASE ev \in Life!Rejecting /\ Life!Left(x.rejections, ev)
      <4>1. y.rejections = x.rejections + 1 /\ x.rejections + 1 < MaxAttempts
        BY <2>1, <2>2, <3>2, Rejections
      <4>2. x.attempt <= MaxAttempts * s.ops + x.rejections + 1
        BY DEF Sound, Counts
      <4> QED BY <2>2, <2>5, <4>1, <4>2 DEF Room
    <3> QED BY <2>3, <3>1, <3>2
  <2>7. z = Opened(y)
    BY <1>2 DEF Made
  <2> QED BY <1>1, <1>2, <2>4, <2>6, <2>7, OpenedSound
<1>3. CASE ~Sends(x, ev)
  BY <1>1, <1>3 DEF Made
<1> QED BY <1>2, <1>3

-----------------------------------------------------------------------------
(* What a record says stays true through the writes that are no event.      *)

\* The same record, but for what was done of it: attempts closed after their
\* agent was told, an escalation sent, a head tested.
Like(m, x, z, h, b) ==
    /\ z \in Records
    /\ z.st = x.st /\ z.attempt = x.attempt /\ z.rejections = x.rejections /\ z.commit = x.commit
    /\ z.subject = x.subject /\ z.skipped = x.skipped /\ z.preHead = x.preHead
    /\ z.st = "blocked" /\ z.escalated => x.escalated \/ <<m, x.attempt>> \in h.warned
    /\ ToSet(z.tested) \subseteq h.green
    /\ DOMAIN z.history = DOMAIN x.history
    /\ \A i \in DOMAIN x.history :
           /\ z.history[i].n = x.history[i].n /\ (x.history[i].closed => z.history[i].closed)
           /\ z.history[i].closed =>
                  \/ x.history[i].closed \/ <<m, x.history[i].n>> \in h.told
                  \/ b[<<m, x.history[i].n>>].st = "none"

LEMMA LikeSound ==
    ASSUME NEW m, NEW x \in Records, NEW z, NEW h, NEW b, NEW t, NEW s,
           Sound(m, x, h, b, t, s), Like(m, x, z, h, b)
    PROVE  Sound(m, z, h, b, t, s)
<1>1. Tells(m, z, h)
  BY DEF Sound, Tells, Like
<1>2. Counts(z, s.ops)
  <2>1. \A i \in DOMAIN z.history : z.history[i].n <= z.attempt
    BY DEF Sound, Counts, Like
  <2>2. \/ z.st \in {"requested", "aborted"} \/ z.skipped
        \/ \A i \in DOMAIN z.history : z.history[i].n = z.attempt => z.history[i].closed
    BY DEF Sound, Counts, Like
  <2> QED BY <2>1, <2>2 DEF Sound, Counts, Like
<1>3. Posts(m, z, h, b)
  <2>1. ASSUME NEW n \in Attempts, GivenUp(z, n) PROVE Listed(m, z, n, h, b)
    <3>1. Listed(m, x, n, h, b)
      BY <2>1 DEF Sound, Posts, Like, GivenUp
    <3>2. PICK i \in DOMAIN x.history : x.history[i].n = n
              /\ (x.history[i].closed => <<m, n>> \in h.told \/ b[<<m, n>>].st = "none")
      BY <3>1 DEF Listed
    <3> QED BY <3>2 DEF Like, Listed
  <2> QED BY <2>1 DEF Sound, Posts, Like
<1>4. Lands(m, z, h, t, s.soils)
  BY DEF Sound, Lands, Like
<1> QED BY <1>1, <1>2, <1>3, <1>4 DEF Sound

\* A new round, opened by a command, has MaxAttempts attempts more.
LEMMA RoundSound ==
    ASSUME NEW m, NEW x \in Records, NEW h, NEW b, NEW t, NEW s, NEW s2, s.ops \in Nat,
           s2.ops = s.ops + 1, s2.soils = s.soils, Sound(m, x, h, b, t, s), NEW z, z = [x EXCEPT !.rejections = 0]
    PROVE  /\ z \in Records /\ Sound(m, z, h, b, t, s2) /\ z.st = x.st /\ z.rejections = 0
           /\ z.attempt <= MaxAttempts * s2.ops
<1>1. /\ z \in Records /\ z.st = x.st /\ z.attempt = x.attempt /\ z.rejections = 0 /\ z.commit = x.commit
      /\ z.subject = x.subject /\ z.skipped = x.skipped /\ z.preHead = x.preHead /\ z.tested = x.tested
      /\ z.escalated = x.escalated /\ z.history = x.history
  <2>1. 0 \in 0 .. MaxAttempts
    BY Constants
  <2> QED BY <2>1 DEF Records
<1>2. /\ MaxAttempts * s.ops \in Nat /\ MaxAttempts * (s.ops + 1) = MaxAttempts * s.ops + MaxAttempts
      /\ MaxAttempts * (s.ops + 1 + 1) = MaxAttempts * (s.ops + 1) + MaxAttempts
      /\ x.attempt \in Nat /\ x.rejections \in Nat
  <2>1. s.ops + 1 \in Nat
    OBVIOUS
  <2>2. MaxAttempts * (s.ops + 1 + 1) = MaxAttempts * (s.ops + 1) + MaxAttempts
    BY <2>1, Products
  <2> QED BY <2>2, RecordTypes, Products
<1>3. x.attempt <= MaxAttempts * (s.ops + 1)
  BY DEF Sound, Counts
<1>4. Counts(z, s2.ops)
  <2>1. z.attempt <= MaxAttempts * s2.ops + z.rejections + 1 /\ z.attempt <= MaxAttempts * (s2.ops + 1)
    BY <1>1, <1>2, <1>3, Constants
  <2> QED BY <1>1, <2>1, Constants DEF Sound, Counts
<1>5. Tells(m, z, h) /\ Lands(m, z, h, t, s2.soils)
  BY <1>1 DEF Sound, Tells, Lands
<1>6. Posts(m, z, h, b)
  BY <1>1 DEF Sound, Posts, GivenUp, Listed
<1> QED BY <1>1, <1>3, <1>4, <1>5, <1>6 DEF Sound

LEMMA Skipped ==
    ASSUME NEW w \in Records, NEW z, z = Transition(w, "skip")
    PROVE  /\ z \in Records /\ z.st = "integrated" /\ z.rejections = w.rejections /\ z.attempt = w.attempt
           /\ z.preHead = w.preHead /\ z.tested = w.tested /\ z.skipped = w.skipped
           /\ Closes(w, "skip") => z.history = Append(w.history, Entry(w, "skip")) /\ Entry(w, "skip") \in HistoryEntries
           /\ ~Closes(w, "skip") => z.history = w.history
<1>1. "skip" \in Events /\ "skip" \notin Life!Rejecting
  BY DEF Events, Life!Rejecting
<1>2. Life!Count(w.rejections, "skip") = w.rejections /\ Step(w, "skip") = "integrated"
  BY <1>1, Rejections, Table
<1> QED BY <1>1, <1>2, Fields

LEMMA SkipSound ==
    ASSUME NEW m, NEW x \in Records, NEW h, NEW b, NEW t, NEW s, NEW s2, s.ops \in Nat,
           s2.ops = s.ops + 1, s2.soils = s.soils, Sound(m, x, h, b, t, s), x.st \in Life!From["skip"],
           NEW w \in Records, w.skipped, w.st = x.st, w.attempt = x.attempt, w.rejections = x.rejections,
           w.preHead = x.preHead, w.tested = x.tested, w.history = x.history, NEW z, z = Transition(w, "skip")
    PROVE  z \in Records /\ Sound(m, z, h, b, t, s2) /\ z.st = "integrated" /\ z.skipped
<1>1. "skip" \in Events /\ "skip" \notin Life!Rejecting /\ x.st \in Life!States \ {"approved", "integrating", "integrated", "aborted"}
  BY Origins DEF Events, Life!Rejecting
<1>2. /\ z \in Records /\ z.st = "integrated" /\ z.rejections = x.rejections /\ z.attempt = x.attempt
      /\ z.preHead = x.preHead /\ z.tested = x.tested /\ z.skipped
      /\ Closes(w, "skip") => z.history = Append(x.history, Entry(w, "skip")) /\ Entry(w, "skip") \in HistoryEntries
      /\ ~Closes(w, "skip") => z.history = x.history
  BY Skipped
<1>3. /\ MaxAttempts * s.ops \in Nat /\ MaxAttempts * (s.ops + 1) = MaxAttempts * s.ops + MaxAttempts
      /\ MaxAttempts * (s.ops + 1 + 1) = MaxAttempts * (s.ops + 1) + MaxAttempts
      /\ x.attempt \in Nat /\ x.rejections \in Nat
  <2>1. s.ops + 1 \in Nat
    OBVIOUS
  <2>2. MaxAttempts * (s.ops + 1 + 1) = MaxAttempts * (s.ops + 1) + MaxAttempts
    BY <2>1, Products
  <2> QED BY <2>2, RecordTypes, Products
<1>4. x.history \in Seq(HistoryEntries) /\ Entry(w, "skip").n = x.attempt /\ ~Entry(w, "skip").closed
  BY RecordTypes DEF Entry
<1>5. Counts(z, s2.ops)
  <2>1. z.attempt <= MaxAttempts * s2.ops + z.rejections + 1 /\ z.attempt <= MaxAttempts * (s2.ops + 1)
    <3>1. x.attempt <= MaxAttempts * (s.ops + 1)
      BY DEF Sound, Counts
    <3> DEFINE p == MaxAttempts * (s.ops + 1)
    <3>2. MaxAttempts * s2.ops = p /\ MaxAttempts * (s2.ops + 1) = p + MaxAttempts /\ p \in Nat
      BY <1>3, Constants
    <3>3. z.attempt <= p /\ z.attempt \in Nat /\ z.rejections \in Nat
      BY <1>2, <1>3, <3>1
    <3> HIDE DEF p
    <3> QED BY <3>2, <3>3, Constants
  <2>2. \A i \in DOMAIN z.history : z.history[i].n <= z.attempt
    <3>1. ASSUME NEW i \in DOMAIN z.history PROVE z.history[i].n <= z.attempt
      <4>1. \/ z.history[i].n = x.attempt
            \/ i \in DOMAIN x.history /\ z.history[i] = x.history[i]
        BY <1>2, <1>4, <3>1, AppendIs
      <4> QED BY <1>2, <1>3, <4>1 DEF Sound, Counts
    <3> QED BY <3>1
  <2> QED BY <1>2, <2>1, <2>2 DEF Counts, Ended
<1>6. Tells(m, z, h) /\ Lands(m, z, h, t, s2.soils)
  BY <1>1, <1>2 DEF Sound, Tells, Lands, Worked, Ended
<1>7. Posts(m, z, h, b)
  <2>1. ASSUME NEW n, Listed(m, x, n, h, b) PROVE Listed(m, z, n, h, b)
    <3>1. \A i \in DOMAIN x.history : i \in DOMAIN z.history /\ z.history[i] = x.history[i]
      BY <1>2, <1>4, AppendIs
    <3> QED BY <2>1, <3>1 DEF Listed
  <2>2. ASSUME NEW n \in Attempts, GivenUp(z, n) PROVE Listed(m, z, n, h, b)
    <3>1. CASE n < x.attempt
      BY <2>1, <3>1 DEF Sound, Posts, GivenUp
    <3>2. CASE n = x.attempt
      <4>1. x.attempt # 0
        BY <2>2, <3>2, Constants DEF Attempts
      <4>2. x.st \notin {"pending", "ready"}
        BY <4>1 DEF Sound, Counts
      <4>3. Closes(w, "skip")
        BY <1>1, <4>1, <4>2, Effects DEF Closes
      <4> QED BY <1>2, <1>4, <3>2, <4>3, AppendIs DEF Listed
    <3> QED BY <1>2, <2>2, <3>1, <3>2 DEF GivenUp
  <2> QED BY <1>2, <2>2 DEF Sound, Posts, Worked
<1> QED BY <1>2, <1>5, <1>6, <1>7 DEF Sound

\* A check or an integration that is done again.
LEMMA RedoSound ==
    ASSUME NEW m \in Missions, NEW x \in Records, NEW h, NEW b, NEW t, NEW s, NEW st2, NEW z, z = [x EXCEPT !.st = st2],
           Sound(m, x, h, b, t, s),
           \/ x.st = "checking" /\ st2 = "delivered"
           \/ x.st = "integrating" /\ st2 = "approved" /\ (s.soils = 0 => \A d \in t : d[1] # m)
    PROVE  /\ z \in Records /\ Sound(m, z, h, b, t, s) /\ z.st = st2 /\ z.attempt = x.attempt
           /\ z.commit = x.commit /\ z.skipped = x.skipped /\ z.preHead = x.preHead
<1>1. st2 \in Life!States
  BY DEF Life!States
<1>2. /\ z \in Records /\ z.st = st2 /\ z.attempt = x.attempt /\ z.rejections = x.rejections /\ z.commit = x.commit
      /\ z.subject = x.subject /\ z.skipped = x.skipped /\ z.preHead = x.preHead /\ z.tested = x.tested
      /\ z.history = x.history
  BY <1>1 DEF Records
<1>3. Tells(m, z, h) /\ Counts(z, s.ops)
  BY <1>2 DEF Sound, Tells, Counts, Worked, Ended
<1>4. Posts(m, z, h, b)
  BY <1>2 DEF Sound, Posts, GivenUp, Listed, Worked
<1>5. Lands(m, z, h, t, s.soils)
  BY <1>2 DEF Sound, Lands, Ended
<1> QED BY <1>2, <1>3, <1>4, <1>5 DEF Sound

\* The head a merge starts from.
LEMMA PreparedSound ==
    ASSUME NEW m, NEW x \in Records, NEW h, NEW b, NEW t, NEW s, NEW z \in Records,
           Sound(m, x, h, b, t, s), x.st = "approved", t \subseteq h.checked, t \subseteq h.approved,
           z.st = x.st, z.attempt = x.attempt, z.rejections = x.rejections, z.commit = x.commit, z.subject = x.subject,
           z.skipped = x.skipped, z.history = x.history, z.escalated = x.escalated, ToSet(z.preHead) = t, z.tested = <<>>
    PROVE  Sound(m, z, h, b, t, s)
<1>1. ToSet(<<>>) = {}
  BY DEF ToSet
<1>2. Tells(m, z, h) /\ Counts(z, s.ops)
  BY <1>1 DEF Sound, Tells, Counts
<1>3. Posts(m, z, h, b)
  BY DEF Sound, Posts, GivenUp, Listed
<1>4. Lands(m, z, h, t, s.soils)
  BY DEF Sound, Lands, Ended
<1> QED BY <1>2, <1>3, <1>4 DEF Sound

\* The commit that a delivery brings.
LEMMA BroughtSound ==
    ASSUME NEW m, NEW x \in Records, NEW h, NEW b, NEW t, NEW s, NEW k \in Commits, NEW z, z = [x EXCEPT !.commit = k],
           Sound(m, x, h, b, t, s), x.st = "accepted"
    PROVE  z \in Records /\ Sound(m, z, h, b, t, s) /\ z.st = "accepted" /\ z.attempt = x.attempt /\ z.commit = k
           /\ z.skipped = x.skipped
<1>1. /\ z \in Records /\ z.st = x.st /\ z.attempt = x.attempt /\ z.rejections = x.rejections /\ z.commit = k
      /\ z.subject = x.subject /\ z.skipped = x.skipped /\ z.preHead = x.preHead /\ z.tested = x.tested
      /\ z.history = x.history /\ z.escalated = x.escalated
  BY DEF Records
<1>2. Tells(m, z, h) /\ Counts(z, s.ops)
  BY <1>1 DEF Sound, Tells, Counts, Worked
<1>3. Posts(m, z, h, b) /\ Lands(m, z, h, t, s.soils)
  BY <1>1 DEF Sound, Posts, Lands, GivenUp, Listed, Worked, Ended
<1> QED BY <1>1, <1>2, <1>3 DEF Sound

-----------------------------------------------------------------------------
(* What a record says stays true when the world around it moves.            *)

Grows(h, h2) ==
    /\ h.told \subseteq h2.told /\ h.warned \subseteq h2.warned /\ h.checked \subseteq h2.checked
    /\ h.approved \subseteq h2.approved /\ h.green \subseteq h2.green

LEMMA GrownSound ==
    ASSUME NEW m, NEW x \in Records, NEW h, NEW h2, NEW b, NEW t, NEW s, NEW s2,
           Sound(m, x, h, b, t, s), Grows(h, h2), s.ops \in Nat, s2.ops = s.ops \/ s2.ops = s.ops + 1,
           s2.soils = 0 => s.soils = 0
    PROVE  Sound(m, x, h2, b, t, s2)
<1>1. Tells(m, x, h2) /\ Posts(m, x, h2, b) /\ Lands(m, x, h2, t, s2.soils)
  BY DEF Sound, Grows, Tells, Posts, Listed, Lands
<1>2. Counts(x, s2.ops)
  <2>1. /\ MaxAttempts * s.ops \in Nat /\ MaxAttempts * (s.ops + 1) = MaxAttempts * s.ops + MaxAttempts
        /\ MaxAttempts * (s.ops + 1 + 1) = MaxAttempts * (s.ops + 1) + MaxAttempts
        /\ x.attempt \in Nat /\ x.rejections \in Nat
    <3>1. s.ops + 1 \in Nat
      OBVIOUS
    <3>2. MaxAttempts * (s.ops + 1 + 1) = MaxAttempts * (s.ops + 1) + MaxAttempts
      BY <3>1, Products
    <3> QED BY <3>2, RecordTypes, Products
  <2>2. x.attempt <= MaxAttempts * s.ops + x.rejections + 1 /\ x.attempt <= MaxAttempts * (s.ops + 1)
    BY DEF Sound, Counts
  <2>3. x.attempt <= MaxAttempts * s2.ops + x.rejections + 1 /\ x.attempt <= MaxAttempts * (s2.ops + 1)
    <3>1. CASE s2.ops = s.ops
      BY <2>2, <3>1
    <3>2. CASE s2.ops = s.ops + 1
      <4> DEFINE p == MaxAttempts * (s.ops + 1)
      <4>1. MaxAttempts * s2.ops = p /\ MaxAttempts * (s2.ops + 1) = p + MaxAttempts /\ p \in Nat
        BY <2>1, <3>2, Constants
      <4>2. x.attempt <= p
        BY <2>2
      <4> HIDE DEF p
      <4> QED BY <2>1, <4>1, <4>2, Constants
    <3> QED BY <3>1, <3>2
  <2> QED BY <2>3 DEF Sound, Counts
<1> QED BY <1>1, <1>2 DEF Sound

LEMMA BoardSound ==
    ASSUME NEW m, NEW x \in Records, NEW h, NEW b, NEW b2, NEW t, NEW s, Sound(m, x, h, b, t, s),
           \A n \in Attempts : b2[<<m, n>>].st # "none" =>
               b[<<m, n>>].st # "none" \/ (n = x.attempt /\ ~GivenUp(x, n)),
           x.st \in Worked => b2[<<m, x.attempt>>] = b[<<m, x.attempt>>]
    PROVE  Sound(m, x, h, b2, t, s)
<1>1. \A n \in Attempts : b2[<<m, n>>].st # "none" => n <= x.attempt
  <2>1. ASSUME NEW n \in Attempts, b2[<<m, n>>].st # "none" PROVE n <= x.attempt
    <3>1. n \in Nat /\ x.attempt \in Nat
      BY Constants, RecordTypes
    <3> QED BY <2>1, <3>1 DEF Sound, Posts
  <2> QED BY <2>1
<1>2. ASSUME NEW n \in Attempts, GivenUp(x, n) PROVE Listed(m, x, n, h, b2)
  <2>1. Listed(m, x, n, h, b)
    BY <1>2 DEF Sound, Posts
  <2>2. b[<<m, n>>].st = "none" => b2[<<m, n>>].st = "none"
    BY <1>2
  <2> QED BY <2>1, <2>2 DEF Listed
<1>3. x.st \in Worked => x.attempt \in Attempts /\ Delivers(b2[<<m, x.attempt>>], x.commit)
  BY DEF Sound, Posts
<1>4. Posts(m, x, h, b2)
  BY <1>1, <1>2, <1>3 DEF Posts
<1> QED BY <1>4 DEF Sound

LEMMA BranchSound ==
    ASSUME NEW m, NEW x \in Records, NEW h, NEW b, NEW t, NEW t2, NEW s, Sound(m, x, h, b, t, s),
           x.st = "integrated" /\ ~x.skipped => <<m, x.commit>> \in t2,
           x.st = "integrating" => ToSet(x.preHead) \subseteq t2,
           s.soils = 0 => \A d \in t2 : d \in t \/ (d[1] = m => x.st \in {"integrating"} \cup Ended /\ x.commit = d[2])
    PROVE  Sound(m, x, h, b, t2, s)
<1>1. Lands(m, x, h, t2, s.soils)
  BY DEF Sound, Lands
<1> QED BY <1>1 DEF Sound

\* Records that differ in their tests, their gate and what a skip owes.
LEMMA LikeFields ==
    ASSUME NEW m, NEW x \in Records, NEW z \in Records, NEW h, NEW b,
           z.st = x.st, z.attempt = x.attempt, z.rejections = x.rejections, z.commit = x.commit, z.subject = x.subject,
           z.skipped = x.skipped, z.preHead = x.preHead, z.history = x.history, z.escalated = x.escalated,
           ToSet(z.tested) \subseteq h.green
    PROVE  Like(m, x, z, h, b)
BY DEF Like
=============================================================================
