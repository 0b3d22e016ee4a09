----------------------------- MODULE Conductor -----------------------------
(***************************************************************************)
(* The missions conductor (mission/conductor.go, integrate.go, complete.go *)
(* and the operator's commands of ops.go) for ONE change.  It requests     *)
(* each mission from its agent, checks what is delivered, has it reviewed, *)
(* and merges what is approved into the change branch.  It remembers only  *)
(* what it wrote: a pass rereads the records and the board, works on that  *)
(* copy, and writes every record whole, behind its lease.                  *)
(*                                                                         *)
(* A process holds a lock of the machine, so Git is touched by one process *)
(* at a time; a lost lease ends the process and is a crash here.  Between  *)
(* two steps of the conductor come the agents (bus/requests.go), the       *)
(* reviewer (the verdict ledger), deadlines, and whoever soils its         *)
(* worktree.  A call of the conductor fails before or after its effect.    *)
(*                                                                         *)
(* A task <<m, n>> is attempt n of mission m; a head of the change branch  *)
(* is the sequence of <<mission, commit>> merged into it.  Agents' names   *)
(* are left out: verdicts are the assigned reviewer's on the author, and a *)
(* reassigned mission differs from a retried one in the round it opens.    *)
(***************************************************************************)
EXTENDS Naturals, FiniteSets, SequencesExt

CONSTANTS
    N,             \* missions of the change, 1 .. N, in the order of a pass
    DependsOn,     \* mission -> the missions it depends on
    MaxAttempts,   \* max_attempts
    Commits,       \* what an agent may deliver for a mission
    Operations,    \* the operator's commands, a subset of AllOperations
    MayBeLate,     \* whether a deadline may pass before a delivery
    MaxOps,        \* bound: commands of the operator
    MaxFaults,     \* bound: calls that fail
    MaxCrashes,    \* bound: crashes and lost leases
    MaxVerdicts,   \* bound: verdicts
    MaxSoils       \* bound: times the integration worktree is soiled

AllOperations == {"retry", "reassign", "skip", "abort"}
Missions == 1 .. N

ASSUME ConductorAssumption ==
    /\ {N, MaxAttempts} \subseteq Nat \ {0}
    /\ DependsOn \in [Missions -> SUBSET Missions]
    /\ Commits \subseteq Nat \ {0}
    /\ Operations \subseteq AllOperations
    /\ MayBeLate \in BOOLEAN
    /\ {MaxOps, MaxFaults, MaxCrashes, MaxVerdicts, MaxSoils} \subseteq Nat

VARIABLES
    rec,      \* mission -> its record on the bus
    chg,      \* the change's record on the bus
    board,    \* task -> its entry on the board
    gates,    \* the review gates open, by task
    ledger,   \* <<mission, commit>> -> how the reviewer's verdicts roll up
    git,      \* the change branch and the integration worktree
    overdue,  \* accepted tasks whose deadline has passed
    c,        \* the conductor's process: Off when none runs
    faults,   \* failed calls so far
    spent,    \* the other bounded events so far
    hist      \* history: see Init

vars == <<rec, chg, board, gates, ledger, git, overdue, c, faults, spent, hist>>

\* The persisted states of the missions are those of MissionState.
Life == INSTANCE MissionState WITH
    st <- [m \in Missions |-> rec[m].st],
    rejections <- [m \in Missions |-> rec[m].rejections]

\* Every round, the first and one per command, opens at most MaxAttempts.
Attempts == 1 .. MaxAttempts * (MaxOps + 1)
Tasks == Missions \X Attempts
Deliveries == Missions \X Commits

\* attempt is Attempt and Current.N; commit, Current.Commit; ref, the attempt
\* of ReviewRef; tested, TestedHead when TestedOK; skipBy, a skip's ledger
\* entry still owed.  0 and <<>> are the empty string.
New == [st |-> "pending", attempt |-> 0, rejections |-> 0, commit |-> 0, history |-> <<>>,
        subject |-> 0, ref |-> 0, reviewOpen |-> FALSE, escalated |-> FALSE,
        preHead |-> <<>>, tested |-> <<>>, skipBy |-> FALSE, skipped |-> FALSE]
NoEntry == [st |-> "none", acc |-> FALSE, commit |-> 0, late |-> FALSE]

(***************************************************************************)
(* The process: the call it is about to make, on whose behalf (the         *)
(* startup, a repair, a pass, a command), the mission and its record r in  *)
(* hand, and the change as it was read: missions, board, whether an        *)
(* integration was begun, whether an error was met, missions still to do.  *)
(***************************************************************************)
Off == [pc |-> "down", job |-> "pass", cur |-> 0, r |-> New, mem |-> [m \in Missions |-> New],
        seen |-> [t \in Tasks |-> NoEntry], busy |-> FALSE, errs |-> FALSE, todo |-> {}]
Idle == [Off EXCEPT !.pc = "idle"]

Init ==
    /\ rec = [m \in Missions |-> New]
    /\ chg = [st |-> "active", complete |-> FALSE, failedHeads |-> {}, dirtyTold |-> FALSE]
    /\ board = [t \in Tasks |-> NoEntry]
    /\ gates = {}
    /\ ledger = [d \in Deliveries |-> "PENDING"]
    /\ git = [branch |-> <<>>, merging |-> FALSE, dirty |-> FALSE]
    /\ overdue = {}
    /\ c = Off
    /\ faults = 0
    /\ spent = [ops |-> 0, crashes |-> 0, verdicts |-> 0, soils |-> 0]
    /\ hist = [told |-> {},       \* tasks whose agent was told to stop
               warned |-> {},     \* tasks whose blocking was escalated
               asked |-> {},      \* deliveries the reviewer was asked about
               checked |-> {},    \* deliveries that passed their checks
               approved |-> {},   \* deliveries the reviewer approved
               green |-> {},      \* deliveries on a head whose suite was green
               noted |-> [m \in Missions |-> 0],  \* ledger entries of its skip
               completed |-> 0]   \* complete signals sent

redis == <<rec, chg, board, gates>>
world == <<ledger, overdue, spent>>

-----------------------------------------------------------------------------
(* The process: how a call leaves it.                                       *)

At(k, pc, x) == [k EXCEPT !.pc = pc, !.r = x]
Failed(k, x) == [k EXCEPT !.pc = "failed", !.r = x, !.errs = TRUE]
Fault == faults < MaxFaults /\ faults' = faults + 1

\* PutMission: the whole record, under the lease.
Put(m, x, ok, failed) ==
    \/ rec' = [rec EXCEPT ![m] = x] /\ c' = ok /\ UNCHANGED faults
    \/ Fault /\ rec' \in {rec, [rec EXCEPT ![m] = x]} /\ c' = failed

\* Another call: eff is what it changes, none that it changes nothing.
Call(eff, none, ok, failed) ==
    \/ eff /\ c' = ok /\ UNCHANGED faults
    \/ Fault /\ (eff \/ none) /\ c' = failed

Step(x, ev) == Life!To(ev, Life!Left(x.rejections, ev))
Does(x, ev) == Life!Acts(x.st, ev, Life!Left(x.rejections, ev))

\* The record after an event, before a new attempt is opened.
Transition(x, ev) ==
    LET acts == Does(x, ev)
        closed == [n |-> x.attempt, closed |-> FALSE, late |-> "no",
                   outcome |-> IF ev \in Life!Rejecting THEN ev ELSE "superseded"]
        y == [x EXCEPT !.st = Step(x, ev),
                       !.rejections = Life!Count(x.rejections, ev),
                       !.history = IF "supersede" \in acts /\ x.attempt # 0
                                   THEN Append(@, closed) ELSE @,
                       !.escalated = @ /\ "escalate" \notin acts]
    IN  IF "open_review" \in acts
        THEN [y EXCEPT !.subject = x.commit, !.ref = x.attempt, !.reviewOpen = FALSE] ELSE y

\* newAttempt: without a base nothing is written, and x stays in hand.
NewAttempt(k, m, x) ==
    LET y == [x EXCEPT !.attempt = @ + 1, !.commit = 0, !.subject = 0, !.st = "requested"]
    IN  \/ Put(m, y, At(k, "publish", y), Failed(k, y))
        \/ Fault /\ c' = Failed(k, x) /\ UNCHANGED rec

\* transition: the put, or the new attempt; effects follow at "turn".
Take(k, m, x, ev) ==
    LET y == Transition(x, ev)
    IN  IF "send_request" \in Does(x, ev) THEN NewAttempt(k, m, y)
        ELSE Put(m, y, At(k, "turn", y), Failed(k, y))

-----------------------------------------------------------------------------
(* effects: what the record in hand still owes, in this order, each one     *)
(* recorded by a put of its own (pc "flag").                                *)

r == c.r
OwedWhileRunning == {i \in DOMAIN r.history :   \* mutant: only of a mission worked on
    ~r.history[i].closed /\ r.st \notin Life!Final}
Owed == {i \in DOMAIN r.history : ~r.history[i].closed}
MustClose == r.reviewOpen /\ (r.st # "in_review" \/ r.ref # r.attempt)
MustOpen == r.st = "in_review" /\ ~r.reviewOpen /\ r.ref # 0
MustWarn == r.st = "blocked" /\ ~r.escalated

Closed(i) == [r EXCEPT !.history[i].closed = TRUE]

\* closeAttempt, its first call; an attempt never published has none to close.
Oldest == CHOOSE i \in Owed : \A j \in Owed : i <= j
CloseAttempt ==
    /\ c.pc = "turn" /\ Owed # {}
    /\ LET i == Oldest
           t == <<c.cur, r.history[i].n>>
           super == [board EXCEPT ![t].st = "superseded"]
       IN  IF board[t].st = "none"
           THEN /\ Put(c.cur, Closed(i), At(c, "turn", Closed(i)), Failed(c, Closed(i)))
                /\ UNCHANGED board
           ELSE /\ Call(board' = super, UNCHANGED board,
                        [c EXCEPT !.pc = "tell",
                                  !.seen[t].st = IF @ = "none" THEN @ ELSE "superseded"],
                        Failed(c, r))
                /\ UNCHANGED rec
    /\ UNCHANGED <<chg, gates, git, world, hist>>

\* Its second call: the agent is told on the old thread.
TellAgentIgnored ==   \* mutant: a failed call counts as done
    /\ c.pc = "tell"
    /\ Call(hist' = [hist EXCEPT !.told = @ \cup {<<c.cur, r.history[Oldest].n>>}],
            UNCHANGED hist, At(c, "flag", Closed(Oldest)), At(c, "flag", Closed(Oldest)))
    /\ UNCHANGED <<redis, git, world>>
TellAgent ==
    /\ c.pc = "tell"
    /\ Call(hist' = [hist EXCEPT !.told = @ \cup {<<c.cur, r.history[Oldest].n>>}],
            UNCHANGED hist, At(c, "flag", Closed(Oldest)), Failed(c, r))
    /\ UNCHANGED <<redis, git, world>>

CloseReview ==
    /\ c.pc = "turn" /\ Owed = {} /\ MustClose
    /\ Call(gates' = gates \ {<<c.cur, r.ref>>}, UNCHANGED gates,
            At(c, "flag", [r EXCEPT !.reviewOpen = FALSE]), Failed(c, r))
    /\ UNCHANGED <<rec, chg, board, git, world, hist>>

\* openReview: the gate and the challenge are one script, skipped when the
\* gate is open already.
OpenReview ==
    /\ c.pc = "turn" /\ Owed = {} /\ ~MustClose /\ MustOpen
    /\ LET t == <<c.cur, r.ref>>
           ask == {<<c.cur, r.subject>>}
       IN  Call(/\ gates' = gates \cup {t}
                /\ hist' = [hist EXCEPT !.asked = IF t \in gates THEN @ ELSE @ \cup ask],
                UNCHANGED <<gates, hist>>,
                At(c, "flag", [r EXCEPT !.reviewOpen = TRUE]), Failed(c, r))
    /\ UNCHANGED <<rec, chg, board, git, world>>

\* The self-verdict of a skip, unless the ledger has it.
NoteSkip ==
    /\ c.pc = "turn" /\ Owed = {} /\ ~MustClose /\ ~MustOpen /\ r.skipBy
    /\ Call(hist' = [hist EXCEPT !.noted[c.cur] = IF @ = 0 THEN 1 ELSE @], UNCHANGED hist,
            At(c, "flag", [r EXCEPT !.skipBy = FALSE]), Failed(c, r))
    /\ UNCHANGED <<redis, git, world>>

EscalateIgnored ==   \* mutant: a failed call counts as done
    /\ c.pc = "turn" /\ Owed = {} /\ ~MustClose /\ ~MustOpen /\ ~r.skipBy /\ MustWarn
    /\ Call(hist' = [hist EXCEPT !.warned = @ \cup {<<c.cur, r.attempt>>}], UNCHANGED hist,
            At(c, "flag", [r EXCEPT !.escalated = TRUE]), At(c, "flag", [r EXCEPT !.escalated = TRUE]))
    /\ UNCHANGED <<redis, git, world>>
Escalate ==
    /\ c.pc = "turn" /\ Owed = {} /\ ~MustClose /\ ~MustOpen /\ ~r.skipBy /\ MustWarn
    /\ Call(hist' = [hist EXCEPT !.warned = @ \cup {<<c.cur, r.attempt>>}], UNCHANGED hist,
            At(c, "flag", [r EXCEPT !.escalated = TRUE]), Failed(c, r))
    /\ UNCHANGED <<redis, git, world>>

Flag ==
    /\ c.pc = "flag"
    /\ Put(c.cur, r, At(c, "turn", r), Failed(c, r))
    /\ UNCHANGED <<chg, board, gates, git, world, hist>>

\* ensurePublished: a task already on the board counts as published.
Published == board' = IF board[<<c.cur, r.attempt>>].st # "none" THEN board
                      ELSE [board EXCEPT ![<<c.cur, r.attempt>>].st = "requested"]
Publish ==
    /\ c.pc = "publish"
    /\ Call(Published, UNCHANGED board,
            [c EXCEPT !.pc = "turn",
                      !.seen[<<c.cur, r.attempt>>] = [NoEntry EXCEPT !.st = "requested"]],
            Failed(c, r))
    /\ UNCHANGED <<rec, chg, gates, git, world, hist>>

-----------------------------------------------------------------------------
(* How a mission's turn ends: late reports are answered, the copy in hand   *)
(* goes back, and the next mission's turn begins.                           *)

\* notifyLateSuperseded: an agent that moved a superseded task is told again,
\* once per board state.
LateReports(k) == {i \in DOMAIN k.r.history :
    LET h == k.r.history[i]
        s == k.seen[<<k.cur, h.n>>].st
    IN  h.outcome = "superseded" /\ s \in {"accepted", "done", "blocked"} /\ h.late # s}

OnwardOnce(k) ==   \* mutant: complete only after a pass that integrated
    IF k.cur < N THEN [k EXCEPT !.pc = "turn", !.cur = @ + 1, !.r = k.mem[k.cur + 1]]
    ELSE IF ~k.busy \/ k.errs \/ \E m \in Missions : k.mem[m].st # "integrated" THEN Idle
    ELSE [k EXCEPT !.pc = "complete", !.r = New]
Onward(k) ==
    IF k.cur < N THEN [k EXCEPT !.pc = "turn", !.cur = @ + 1, !.r = k.mem[k.cur + 1]]
    ELSE IF k.errs \/ chg.st # "active" \/ \E m \in Missions : k.mem[m].st # "integrated" THEN Idle
    ELSE [k EXCEPT !.pc = "complete", !.r = New]
Leave(k, x) == LET k2 == [k EXCEPT !.pc = "late", !.r = x, !.mem[k.cur] = x]
               IN  IF LateReports(k2) = {} THEN Onward(k2) ELSE k2

-----------------------------------------------------------------------------
(* advance: one mission, as far as the facts read allow.                    *)

Task == <<c.cur, r.attempt>>
Seen == c.seen[Task]
Settled == c.pc = "turn" /\ Owed = {} /\ ~MustClose /\ ~MustOpen /\ ~r.skipBy /\ ~MustWarn
Advancing == Settled /\ c.job = "pass" /\ chg.st = "active"
DepsStarted == \A d \in DependsOn[c.cur] : c.mem[d].st # "pending"   \* mutant
DepsIntegrated == \A d \in DependsOn[c.cur] : c.mem[d].st = "integrated"

\* pastDeadline: the clock is read now, the entry was read with the board.
StillAccepted == Seen.acc /\ Seen.st = "accepted" /\ Task \in overdue   \* mutant of PastDeadline
PastDeadline == Seen.acc /\ (\/ Seen.st = "done" /\ Seen.late
                             \/ Seen.st = "accepted" /\ Task \in overdue)
\* What advance does with a requested or accepted mission.
Answer == CASE Seen.st = "none" -> "unpublished"
            [] PastDeadline -> IF r.st = "requested" THEN "accepted" ELSE "timed_out"
            [] Seen.st = "accepted" /\ r.st = "requested" -> "accepted"
            [] Seen.st = "blocked" -> "agent_blocked"
            [] Seen.st = "done" /\ ~PastDeadline -> IF r.st = "requested" THEN "accepted" ELSE "delivered"
            [] OTHER -> "none"

\* Events read off the record and the board.
Unlock ==
    /\ Advancing /\ r.st = "pending" /\ DepsIntegrated
    /\ Take(c, c.cur, r, "deps_integrated")
    /\ UNCHANGED <<chg, board, gates, git, world, hist>>
Request ==
    /\ Advancing /\ r.st = "ready"
    /\ NewAttempt(c, c.cur, r)
    /\ UNCHANGED <<chg, board, gates, git, world, hist>>
Republish ==
    /\ Advancing /\ r.st \in {"requested", "accepted"} /\ Answer = "unpublished"
    /\ c' = [c EXCEPT !.pc = "publish"]
    /\ UNCHANGED <<redis, git, world, faults, hist>>
\* An acceptance in time ends the turn; one on the way to a delivery or to a
\* timeout does not.
Accepted ==
    /\ Advancing /\ r.st = "requested" /\ Answer = "accepted"
    /\ Seen.st = "accepted" /\ ~PastDeadline
    /\ LET x == Transition(r, "accepted")
       IN  Put(c.cur, x, Leave(c, x), Failed(c, x))
    /\ UNCHANGED <<chg, board, gates, git, world, hist>>
ReadAnswer ==
    /\ Advancing /\ r.st \in {"requested", "accepted"}
    /\ Answer \in {"accepted", "agent_blocked", "timed_out", "delivered"}
    /\ Answer = "accepted" => Seen.st = "done" \/ PastDeadline
    /\ LET x == IF Answer = "delivered" THEN [r EXCEPT !.commit = Seen.commit] ELSE r
       IN  Take(c, c.cur, x, Answer)
    /\ UNCHANGED <<chg, board, gates, git, world, hist>>

\* check: the record says checking while the checks run.  Their own failure
\* puts it back to delivered.
StartCheck ==
    /\ Advancing /\ r.st = "delivered"
    /\ LET x == Transition(r, "check_started")
       IN  Put(c.cur, x, At(c, "check", x), Failed(c, x))
    /\ UNCHANGED <<chg, board, gates, git, world, hist>>
CheckPasses ==
    /\ c.pc = "check"
    /\ Take(c, c.cur, r, "check_passed")
    /\ hist' = [hist EXCEPT !.checked = @ \cup {<<c.cur, r.commit>>}]
    /\ UNCHANGED <<chg, board, gates, git, world>>
CheckFails ==
    /\ c.pc = "check"
    /\ Take(c, c.cur, r, "check_failed")
    /\ UNCHANGED <<chg, board, gates, git, world, hist>>
CheckBreaks ==
    /\ c.pc = "check" /\ Fault
    /\ c' = At(c, "uncheck", [r EXCEPT !.st = "delivered"])
    /\ UNCHANGED <<redis, git, world, hist>>
Uncheck ==
    /\ c.pc = "uncheck"
    /\ Put(c.cur, r, Failed(c, r), Failed(c, r))
    /\ UNCHANGED <<chg, board, gates, git, world, hist>>

\* readReview: the verdicts on this commit, whenever they were given.
ReadReviewLenient ==   \* mutant: no rejection is an approval
    /\ Advancing /\ r.st = "in_review"
    /\ Take(c, c.cur, r, IF ledger[<<c.cur, r.subject>>] = "REJECTED" THEN "review_rejected" ELSE "approved")
    /\ UNCHANGED <<chg, board, gates, git, world, hist>>
ReadReview ==
    /\ Advancing /\ r.st = "in_review"
    /\ LET verdict == ledger[<<c.cur, r.subject>>]
       IN  /\ verdict # "PENDING"
           /\ Take(c, c.cur, r, IF verdict = "APPROVED" THEN "approved" ELSE "review_rejected")
    /\ UNCHANGED <<chg, board, gates, git, world, hist>>

-----------------------------------------------------------------------------
(* integrate, finishIntegration: merge, run the suite, roll back if red.    *)

Integrate ==
    /\ Advancing /\ r.st = "approved" /\ ~c.busy
    /\ LET x == Transition([r EXCEPT !.preHead = git.branch, !.tested = <<>>], "integrate_started")
           k == [c EXCEPT !.busy = TRUE]
       IN  Put(c.cur, x, At(k, "merge", x), Failed(k, x))
    /\ UNCHANGED <<chg, board, gates, git, world, hist>>

Dirty == git.dirty \/ git.merging
Merge ==
    /\ c.pc = "merge" /\ ~Dirty
    /\ LET d == <<c.cur, r.commit>>
           head == IF d \in ToSet(git.branch) THEN git.branch ELSE Append(git.branch, d)
       IN  \/ Call(git' = [git EXCEPT !.branch = head], UNCHANGED git,
                   At(c, "suite", r), Failed(c, r))
           \/ git' = [git EXCEPT !.merging = TRUE] /\ c' = At(c, "unmerge", r) /\ UNCHANGED faults
    /\ UNCHANGED <<redis, world, hist>>
AbortMerge ==
    /\ c.pc = "unmerge"
    /\ Call(git' = [git EXCEPT !.merging = FALSE], UNCHANGED git, At(c, "unmerged", r), Failed(c, r))
    /\ UNCHANGED <<redis, world, hist>>

SuiteGreen ==
    /\ c.pc = "suite"
    /\ Take(c, c.cur, [r EXCEPT !.tested = git.branch], "integrated")
    /\ hist' = [hist EXCEPT !.green = @ \cup ToSet(git.branch)]
    /\ UNCHANGED <<chg, board, gates, git, world>>
SuiteRedKept ==   \* mutant: the merge is left on the branch
    /\ c.pc = "suite"
    /\ c' = At(c, "unmerged", [r EXCEPT !.tested = <<>>])
    /\ UNCHANGED <<redis, git, world, faults, hist>>
SuiteRed ==
    /\ c.pc = "suite"
    /\ c' = At(c, "reset", [r EXCEPT !.tested = <<>>])
    /\ UNCHANGED <<redis, git, world, faults, hist>>
SuiteBreaks ==
    /\ c.pc = "suite" /\ Fault
    /\ c' = Failed(c, r)
    /\ UNCHANGED <<redis, git, world, hist>>
Reset ==
    /\ c.pc = "reset"
    /\ Call(git' = [git EXCEPT !.branch = r.preHead], UNCHANGED git, At(c, "unmerged", r), Failed(c, r))
    /\ UNCHANGED <<redis, world, hist>>

\* The integration failed: a dirty worktree, a conflict undone, a red suite
\* rolled back.
NotIntegrated ==
    /\ c.pc \in {"unmerged", "merge"} /\ (c.pc = "merge" => Dirty)
    /\ Take(c, c.cur, r, "integrate_failed")
    /\ UNCHANGED <<chg, board, gates, git, world, hist>>

-----------------------------------------------------------------------------
(* The pass around it: repair, the missions in order, late reports,         *)
(* complete.                                                                *)

FirstTurn(k) == [k EXCEPT !.job = "pass", !.pc = "turn", !.cur = 1, !.r = k.mem[1]]
Integrating(k) == {m \in Missions : k.mem[m].st = "integrating"}
Read == [Idle EXCEPT !.mem = rec, !.seen = board]

BeginPass ==
    /\ c.pc = "idle"
    /\ LET k == [Read EXCEPT !.busy = chg.st = "active" /\ Integrating(Read) # {}]
       IN  c' = IF k.busy THEN [k EXCEPT !.job = "repair", !.pc = "repair"] ELSE FirstTurn(k)
    /\ UNCHANGED <<redis, git, world, faults, hist>>

\* The process starts: an interrupted check is redone, an integration repaired.
Startup ==
    /\ c.pc = "down"
    /\ c' = IF chg.st # "active" THEN Idle
            ELSE LET k == [Read EXCEPT !.job = "startup",
                                       !.todo = {m \in Missions : rec[m].st = "checking"}]
                 IN  [k EXCEPT !.pc = IF k.todo = {} THEN "repair" ELSE "recheck"]
    /\ UNCHANGED <<redis, git, world, faults, hist>>
Recheck(m) ==
    /\ c.pc = "recheck" /\ m \in c.todo
    /\ LET x == [c.mem[m] EXCEPT !.st = "delivered"]
           k == [c EXCEPT !.todo = @ \ {m}, !.mem[m] = x]
       IN  Put(m, x, [k EXCEPT !.pc = IF k.todo = {} THEN "repair" ELSE "recheck"], Idle)
    /\ UNCHANGED <<chg, board, gates, git, world, hist>>

\* repairIntegration: undo a merge in progress; block what was integrating in
\* a dirty worktree, or report it once; resume what was integrating.
Broken == IF c.job = "startup" THEN Idle ELSE FirstTurn([c EXCEPT !.errs = TRUE])
RepairMerge ==
    /\ c.pc = "repair" /\ git.merging
    /\ Call(git' = [git EXCEPT !.merging = FALSE], UNCHANGED git, c, Broken)
    /\ UNCHANGED <<redis, world, hist>>
RepairDirtyWaits(m) ==   \* mutant: an integration waits for a clean worktree
    /\ c.pc = "repair" /\ ~git.merging /\ git.dirty /\ m \in Integrating(c)
    /\ c' = IF c.job = "startup" THEN Idle ELSE FirstTurn(c)
    /\ UNCHANGED <<redis, git, world, faults, hist>>
RepairDirty(m) ==
    /\ c.pc = "repair" /\ ~git.merging /\ git.dirty /\ m \in Integrating(c)
    /\ Take([c EXCEPT !.cur = m], m, c.mem[m], "integrate_failed")
    /\ UNCHANGED <<chg, board, gates, git, world, hist>>
ReportDirty ==
    /\ c.pc = "repair" /\ ~git.merging
    /\ \/ ~git.dirty /\ chg.dirtyTold
       \/ git.dirty /\ ~chg.dirtyTold /\ Integrating(c) = {} /\ c.cur = 0
    /\ Call(chg' = [chg EXCEPT !.dirtyTold = git.dirty], UNCHANGED chg, c, Broken)
    /\ UNCHANGED <<rec, board, gates, git, world, hist>>
ResumeUntested(m) ==   \* mutant: what was merged is integrated
    /\ c.pc = "repair" /\ ~git.merging /\ ~git.dirty /\ ~chg.dirtyTold /\ m \in Integrating(c)
    /\ LET x == c.mem[m]
           y == [x EXCEPT !.st = "approved"]
       IN  IF <<m, x.commit>> \in ToSet(git.branch) THEN Take([c EXCEPT !.cur = m], m, x, "integrated")
           ELSE Put(m, y, [c EXCEPT !.cur = m, !.mem[m] = y], Broken)
    /\ UNCHANGED <<chg, board, gates, git, world, hist>>
Resume(m) ==
    /\ c.pc = "repair" /\ ~git.merging /\ ~git.dirty /\ ~chg.dirtyTold /\ m \in Integrating(c)
    /\ LET x == c.mem[m]
           y == [x EXCEPT !.st = "approved"]
           k == [c EXCEPT !.cur = m]
       IN  IF <<m, x.commit>> \notin ToSet(git.branch)
           THEN /\ Put(m, y, [k EXCEPT !.mem[m] = y], Broken)
                /\ git' = [git EXCEPT !.branch = IF IsPrefix(x.preHead, @) THEN x.preHead ELSE @]
           ELSE /\ IF x.tested = git.branch THEN Take(k, m, x, "integrated")
                   ELSE c' = At(k, "suite", x) /\ UNCHANGED <<rec, faults>>
                /\ UNCHANGED git
    /\ UNCHANGED <<chg, board, gates, world, hist>>
Repaired ==
    /\ c.pc = "repair" /\ ~git.merging /\ Integrating(c) = {}
    /\ IF git.dirty THEN chg.dirtyTold \/ c.cur # 0 ELSE ~chg.dirtyTold
    /\ c' = IF c.job = "startup" THEN Idle ELSE FirstTurn(c)
    /\ UNCHANGED <<redis, git, world, faults, hist>>

\* What is left of a turn: the late reports, then the next mission.
Waiting ==
    CASE r.st = "pending" -> ~DepsIntegrated
      [] r.st \in {"requested", "accepted"} -> Answer = "none"
      [] r.st = "in_review" -> ledger[<<c.cur, r.subject>>] = "PENDING"
      [] r.st = "approved" -> c.busy
      [] r.st \in {"ready", "delivered"} -> FALSE
      [] OTHER -> TRUE

\* The call returns: the pass goes on with the copy in hand.
Return ==
    /\ Settled /\ (Advancing => Waiting)
    /\ LET k == [c EXCEPT !.mem[c.cur] = r]
       IN  c' = CASE c.job = "pass" -> Leave(c, r)
                  [] c.job \in {"startup", "repair"} -> [k EXCEPT !.pc = "repair"]
                  [] c.job = "abort" -> [c EXCEPT !.pc = "abort"]
                  [] c.job = "op" -> Idle
    /\ UNCHANGED <<redis, git, world, faults, hist>>
Fail ==
    /\ c.pc = "failed"
    /\ c' = CASE c.job = "pass" -> Leave(c, r)
              [] c.job \in {"startup", "repair"} -> Broken
              [] c.job = "abort" -> [c EXCEPT !.pc = "abort"]
              [] c.job = "op" -> Idle
    /\ UNCHANGED <<redis, git, world, faults, hist>>

\* One late report is answered; after the last one the record is put.
NotifyLate ==
    /\ c.pc = "late" /\ LateReports(c) # {}
    /\ LET i == CHOOSE i \in LateReports(c) : \A j \in LateReports(c) : i <= j
           t == <<c.cur, r.history[i].n>>
       IN  Call(hist' = [hist EXCEPT !.told = @ \cup {t}], UNCHANGED hist,
                [c EXCEPT !.r.history[i].late = c.seen[t].st], Onward([c EXCEPT !.errs = TRUE]))
    /\ UNCHANGED <<redis, git, world>>
EndTurn ==
    /\ c.pc = "late" /\ LateReports(c) = {}
    /\ Put(c.cur, r, Onward(c), Onward([c EXCEPT !.errs = TRUE]))
    /\ UNCHANGED <<chg, board, gates, git, world, hist>>

\* checkComplete: the suite once more on the head; the signal and its marker
\* are one script, idempotent by the marker.
Complete ==
    /\ c.pc = "complete"
    /\ IF chg.complete \/ (git.dirty /\ chg.dirtyTold) \/ (~git.dirty /\ git.branch \in chg.failedHeads)
       THEN c' = Idle /\ UNCHANGED <<chg, faults, hist>>
       ELSE IF git.dirty \/ chg.dirtyTold
       THEN /\ Call(chg' = [chg EXCEPT !.dirtyTold = git.dirty], UNCHANGED chg,
                    IF git.dirty THEN Idle ELSE c, Idle)
            /\ UNCHANGED hist
       ELSE \/ Call(/\ chg' = [chg EXCEPT !.complete = TRUE, !.failedHeads = {}]
                    /\ hist' = [hist EXCEPT !.completed = @ + 1],
                    UNCHANGED <<chg, hist>>, Idle, Idle)
            \/ /\ Call(chg' = [chg EXCEPT !.failedHeads = {git.branch}], UNCHANGED chg, Idle, Idle)
               /\ UNCHANGED hist
    /\ UNCHANGED <<rec, board, gates, git, world>>

-----------------------------------------------------------------------------
(* HandleOp: the operator's commands, between two passes.                   *)

Command(op) == /\ c.pc = "idle" /\ op \in Operations /\ spent.ops < MaxOps
               /\ spent' = [spent EXCEPT !.ops = @ + 1]

\* One mission's commands: retry and reassign open a new round; a skip owes
\* its ledger entry.
Operate(m, op) ==
    /\ Command(op) /\ (op = "retry" \/ chg.st = "active")
    /\ rec[m].st \in Life!From[op]
    /\ LET k == [Read EXCEPT !.job = "op", !.cur = m]
           x == IF op = "skip" THEN [rec[m] EXCEPT !.skipBy = TRUE, !.skipped = TRUE]
                ELSE [rec[m] EXCEPT !.rejections = 0]
       IN  Take(k, m, x, op)
    /\ UNCHANGED <<chg, board, gates, ledger, git, overdue, hist>>

\* Missions first, the change last: after an error it stays active.
StartAbort ==
    /\ Command("abort")
    /\ c' = [Read EXCEPT !.job = "abort", !.pc = "abort",
                         !.todo = {m \in Missions : rec[m].st \notin Life!Final}]
    /\ UNCHANGED <<redis, ledger, git, overdue, faults, hist>>
AbortMission(m) ==
    /\ c.pc = "abort" /\ m \in c.todo
    /\ Take([c EXCEPT !.todo = @ \ {m}, !.cur = m], m, c.mem[m], "abort")
    /\ UNCHANGED <<chg, board, gates, git, world, hist>>
EndAbort ==
    /\ c.pc = "abort" /\ c.todo = {}
    /\ IF c.errs THEN c' = Idle /\ UNCHANGED <<chg, faults>>
       ELSE Call(chg' = [chg EXCEPT !.st = "aborted"], UNCHANGED chg, Idle, Idle)
    /\ UNCHANGED <<rec, board, gates, git, world, hist>>

-----------------------------------------------------------------------------
(* Around the conductor.                                                    *)

\* requestTransition: the target accepts, blocks or completes its task, also
\* one that was superseded; a done task stays done.
Report(t, entry) ==
    /\ board[t].st \notin {"none", "done"} /\ entry # board[t]
    /\ board' = [board EXCEPT ![t] = entry]
    /\ UNCHANGED <<rec, chg, gates, git, world, c, faults, hist>>
Accept(t) == Report(t, [board[t] EXCEPT !.st = "accepted", !.acc = TRUE])
Block(t) == Report(t, [board[t] EXCEPT !.st = "blocked"])
Done(t, k) == /\ board[t].acc /\ board[t].st # "blocked"
              /\ Report(t, [board[t] EXCEPT !.st = "done", !.commit = k, !.late = t \in overdue])

\* The timeout runs from the first acceptance, whatever the state since.
Deadline(t) ==
    /\ MayBeLate /\ board[t].acc /\ t \notin overdue
    /\ overdue' = overdue \cup {t}
    /\ UNCHANGED <<redis, ledger, git, c, faults, spent, hist>>

\* AppendVerdict: not fenced, any time after the reviewer was asked.
Verdict(d, decision) ==
    /\ d \in hist.asked /\ spent.verdicts < MaxVerdicts
    /\ ledger' = [ledger EXCEPT ![d] = decision]
    /\ spent' = [spent EXCEPT !.verdicts = @ + 1]
    /\ hist' = [hist EXCEPT !.approved = IF decision = "APPROVED" THEN @ \cup {d} ELSE @]
    /\ UNCHANGED <<redis, git, overdue, c, faults>>

Soil == /\ ~git.dirty /\ spent.soils < MaxSoils
        /\ spent' = [spent EXCEPT !.soils = @ + 1]
        /\ git' = [git EXCEPT !.dirty = TRUE]
        /\ UNCHANGED <<redis, ledger, overdue, c, faults, hist>>
Clean == /\ git.dirty
         /\ git' = [git EXCEPT !.dirty = FALSE]
         /\ UNCHANGED <<redis, world, c, faults, hist>>

Crash == /\ c.pc # "down" /\ spent.crashes < MaxCrashes
         /\ spent' = [spent EXCEPT !.crashes = @ + 1]
         /\ c' = Off
         /\ UNCHANGED <<redis, ledger, git, overdue, faults, hist>>

Conduct ==
    \/ Startup \/ BeginPass
    \/ \E m \in Missions : Recheck(m) \/ RepairDirty(m) \/ Resume(m) \/ AbortMission(m)
    \/ RepairMerge \/ ReportDirty \/ Repaired
    \/ CloseAttempt \/ TellAgent \/ CloseReview \/ OpenReview \/ NoteSkip \/ Escalate \/ Flag
    \/ Unlock \/ Request \/ Republish \/ Publish \/ Accepted \/ ReadAnswer
    \/ StartCheck \/ CheckPasses \/ CheckFails \/ CheckBreaks \/ Uncheck \/ ReadReview
    \/ Integrate \/ Merge \/ AbortMerge \/ SuiteGreen \/ SuiteRed \/ SuiteBreaks \/ Reset
    \/ NotIntegrated \/ Return \/ Fail \/ NotifyLate \/ EndTurn \/ Complete \/ EndAbort

Next ==
    \/ Conduct \/ StartAbort \/ Crash \/ Soil \/ Clean
    \/ \E m \in Missions, op \in {"retry", "reassign", "skip"} : Operate(m, op)
    \/ \E t \in Tasks : Accept(t) \/ Block(t) \/ Deadline(t) \/ \E k \in Commits : Done(t, k)
    \/ \E d \in Deliveries, decision \in {"APPROVED", "REJECTED"} : Verdict(d, decision)

Spec == Init /\ [][Next]_vars

-----------------------------------------------------------------------------
(* Properties.                                                              *)

Records == [st : Life!States, attempt : Attempts \cup {0}, rejections : 0 .. MaxAttempts,
            commit : Commits \cup {0}, history : Seq([n : Attempts, closed : BOOLEAN,
                late : {"no", "accepted", "done", "blocked"},
                outcome : {"superseded", "check_failed", "review_rejected"}]),
            subject : Commits \cup {0}, ref : Attempts \cup {0}, reviewOpen : BOOLEAN,
            escalated : BOOLEAN, preHead : Seq(Deliveries), tested : Seq(Deliveries),
            skipBy : BOOLEAN, skipped : BOOLEAN]
Entries == [st : {"none", "requested", "accepted", "blocked", "done", "superseded"},
            acc : BOOLEAN, commit : Commits \cup {0}, late : BOOLEAN]

\* Types.
TypeOK ==
    /\ rec \in [Missions -> Records]
    /\ chg \in [st : {"active", "aborted"}, complete : BOOLEAN,
                failedHeads : SUBSET Seq(Deliveries), dirtyTold : BOOLEAN]
    /\ board \in [Tasks -> Entries]
    /\ gates \in SUBSET Tasks
    /\ ledger \in [Deliveries -> {"PENDING", "APPROVED", "REJECTED"}]
    /\ git \in [branch : Seq(Deliveries), merging : BOOLEAN, dirty : BOOLEAN]
    /\ overdue \in SUBSET Tasks
    /\ c.r \in Records /\ c.mem \in [Missions -> Records] /\ c.seen \in [Tasks -> Entries]
    /\ c.cur \in 0 .. N /\ c.todo \in SUBSET Missions

OnBranch == ToSet(git.branch)

\* What is on the change branch passed its checks, and the assigned reviewer
\* approved exactly that commit: whatever verdicts came in late, were changed
\* or were given on another attempt (runChecks, readReview).
MergedWasReviewed == OnBranch \subseteq hist.checked \cap hist.approved

\* A mission that was not skipped is integrated only with its commit on the
\* branch, and on a head whose suite was green, also when the merge and its
\* record were cut apart by a crash (integrate, finishIntegration, Startup).
IntegratedIsGreen ==
    \A m \in Missions : rec[m].st = "integrated" /\ ~rec[m].skipped =>
        <<m, rec[m].commit>> \in OnBranch \cap hist.green

\* A conflict or a red suite restores the head (integrate): no commit stays on
\* the branch of a mission that is neither merging, merged nor aborted.  Not so
\* once somebody soiled the worktree: a merge in it is blocked where it stands.
OnlyRecordedMerges ==
    spent.soils = 0 => \A d \in OnBranch :
        rec[d[1]].st \in {"integrating", "integrated", "aborted"} /\ rec[d[1]].commit = d[2]

\* What is checked, reviewed and merged is what the current attempt delivered,
\* in time (pastDeadline: "a late delivery is never checked"); never the work
\* of a superseded attempt.
DeliveredByCurrent ==
    \A m \in Missions : rec[m].st \in {"delivered", "checking", "in_review", "approved", "integrating"} =>
        LET e == board[<<m, rec[m].attempt>>]
        IN  e.st = "done" /\ e.commit = rec[m].commit /\ ~e.late

\* An attempt published is the current one of a mission still worked on, or it
\* is in the history, where nobody marks it closed before its agent was told
\* to stop (transition, closeAttempt).
Stopped(m, n) == \E i \in DOMAIN rec[m].history :
    LET h == rec[m].history[i] IN h.n = n /\ (h.closed => <<m, n>> \in hist.told)
NoForgottenRequest ==
    \A m \in Missions, n \in Attempts : board[<<m, n>>].st # "none" =>
        \/ n = rec[m].attempt /\ rec[m].st # "aborted" /\ ~rec[m].skipped
        \/ Stopped(m, n)

\* A block is marked escalated only when its escalation was sent, and the signal
\* of a complete change and the ledger entry of a skip are sent at most once,
\* through failed calls and replays (effects, checkComplete).
SignalsHonest ==
    /\ \A m \in Missions : rec[m].st = "blocked" /\ rec[m].escalated =>
           <<m, rec[m].attempt>> \in hist.warned
    /\ hist.completed <= 1 /\ \A m \in Missions : hist.noted[m] <= 1

\* The missions live as MissionState says: only by the events of the table, a
\* mission after those it depends on, one merge at a time, rounds bounded.
MissionsLife == Life!Spec

-----------------------------------------------------------------------------
(* Liveness.  The service restarts the conductor, whose loop ticks.         *)

FairSpec == Spec /\ WF_vars(Conduct)

\* A mission that waits for nobody but the conductor moves on, one whose attempt was
\* recorded and never published included (newAttempt dies between the two).
WithConductor(m) ==
    \/ rec[m].st \in {"ready", "delivered", "approved", "integrating"}
    \/ rec[m].st = "requested" /\ board[<<m, rec[m].attempt>>].st = "none"
NeverStalls == \A m \in Missions : WithConductor(m) ~> ~WithConductor(m)

\* check: checks that end without a result put the mission "back to delivered so
\* the next pass checks again"; none is left checking for ever.
ChecksEnd == \A m \in Missions : rec[m].st = "checking" ~> rec[m].st # "checking"

\* effects: what a record owes (an attempt to close, a gate to close, a skip to
\* note, a block to escalate) is done in the end, in an aborted change too.
Owes(x) == \/ \E i \in DOMAIN x.history : ~x.history[i].closed
           \/ x.reviewOpen /\ x.st # "in_review"
           \/ x.skipBy
           \/ x.st = "blocked" /\ ~x.escalated
OwedIsDone == \A m \in Missions : Owes(rec[m]) ~> ~Owes(rec[m])

\* checkComplete: when every mission of a change is integrated, its completion
\* is signalled or its red suite is, unless the worktree is soiled.
CompletionIsDecided ==
    (chg.st = "active" /\ \A m \in Missions : rec[m].st = "integrated") ~>
        (chg.complete \/ chg.failedHeads # {} \/ git.dirty \/ chg.st = "aborted")
=============================================================================
