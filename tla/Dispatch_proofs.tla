--------------------------- MODULE Dispatch_proofs ---------------------------
(***************************************************************************)
(* Theorems of Dispatch.  What a run of the dispatcher has in hand is      *)
(* first shown sound, whatever step it came by; then that the fence makes  *)
(* the lease holder's record the one on the bus; then what follows for the *)
(* prompts it types and the escalations it records.                        *)
(***************************************************************************)
EXTENDS Dispatch, TLAPS

\* A record claims nothing that was not done.
True(w, h) ==
    /\ w \in WakeRecord
    /\ w.escalated = "true" => h.told >= w.high
    /\ w.gap => h.gaps

\* A run is sound: its types, and what it has in hand, by the step it is at.
Sound(r, h) ==
    /\ r \in RunState
    /\ r.x.acked <= r.x.delivered
    /\ True(r.w, h)
    /\ r.pc = "reserve" => r.reset \/ (r.w.tries < MaxTries /\ r.w.escalated = "no")
    /\ r.pc \in {"confirm", "type"} => r.w.state = "prompting" /\ r.w.tries > 0

History == [typed : 0 .. MaxTries + 2, told : Messages, gaps : BOOLEAN]

-----------------------------------------------------------------------------
(* The operators of the dispatcher.                                         *)

\* A record without marks or claims is a true one.
LEMMA NoWakeTrue ==
    ASSUME NEW h
    PROVE  True(NoWake, h)
BY DispatchAssumption DEF True, NoWake, WakeRecord, Messages, Procs

\* Taking the progress marks (loop.go:595-606) leaves the rest of a record.
LEMMA MarkedTrue ==
    ASSUME NEW h, NEW w, True(w, h), NEW x \in LookResult, x.acked <= x.delivered
    PROVE  /\ True(Marked(w, x), h)
           /\ Marked(w, x).state = w.state /\ Marked(w, x).tries = w.tries
           /\ Marked(w, x).escalated = w.escalated
<1>1. x.delivered \in Messages /\ x.acked \in Messages /\ MaxMessages \in Nat
  BY DispatchAssumption DEF LookResult, Messages
<1>2. x.delivered + 1 \in 0 .. MaxMessages + 1 /\ x.delivered - x.acked \in Messages
  BY <1>1 DEF Messages
<1> QED BY <1>2 DEF Marked, True, WakeRecord

\* A reset (step.base) clears the tries and the escalation, and nothing else of
\* what a record claims.
LEMMA BaseTrue ==
    ASSUME NEW h, NEW d \in Slots, Sound(disp[d], h), NEW w, True(w, h), NEW reset \in BOOLEAN
    PROVE  /\ True(base(d, w, reset), h)
           /\ reset => base(d, w, reset).escalated = "no"
<1> DEFINE m == Marked(w, disp[d].x)
<1>1. True(m, h) /\ disp[d].snap \in Procs
  BY MarkedTrue DEF Sound, RunState
<1>2. base(d, w, reset) = IF reset THEN [m EXCEPT !.tries = 0, !.escalated = "no", !.cause = FALSE,
                                                  !.pid = disp[d].snap] ELSE w
  BY DEF base
<1>3. 0 \in 0 .. MaxTries
  BY DispatchAssumption
<1> HIDE DEF m
<1>4. CASE reset
  <2> DEFINE r == [m EXCEPT !.tries = 0, !.escalated = "no", !.cause = FALSE, !.pid = disp[d].snap]
  <2>1. r \in WakeRecord /\ r.escalated = "no" /\ r.gap = m.gap
    BY <1>1, <1>3 DEF True, WakeRecord
  <2> QED BY <1>1, <1>2, <1>4, <2>1 DEF True
<1> QED BY <1>2, <1>4

\* Before it has looked, a run has read nothing.
LEMMA NoLookType == NoLook \in LookResult /\ NoLook.acked = NoLook.delivered /\ NoLook.acked = 0
<1>1. 0 \in 0 .. Late /\ 0 \in Messages
  BY DispatchAssumption DEF Late, Messages
<1> QED BY <1>1 DEF NoLook, LookResult

\* A run that is over, and one at the start of a pass, are sound.
LEMMA StoppedSound ==
    ASSUME NEW h
    PROVE  Sound(Stopped, h) /\ Sound(Pass, h) /\ \A n \in Procs : Sound([Pass EXCEPT !.pc = "look", !.snap = n], h)
<1>1. NoLook \in LookResult /\ NoLook.acked <= NoLook.delivered
  BY NoLookType
<1>2. True(NoWake, h) /\ NoWake \in WakeRecord
  BY NoWakeTrue DEF True
<1>3. Stopped \in RunState
  BY <1>1, <1>2, DispatchAssumption DEF Stopped, RunState, Procs
<1> QED BY <1>1, <1>2, <1>3 DEF Sound, Stopped, Pass, RunState

\* Having decided, a run keeps only a record and the gap to tell.
LEMMA KeepSound ==
    ASSUME NEW h, NEW d \in Slots, Sound(disp[d], h), NEW w, True(w, h),
           NEW pc \in {"confirm", "type", "put", "pending", "cmd", "notify", "gap"},
           pc \in {"confirm", "type"} => w.state = "prompting" /\ w.tries > 0
    PROVE  Sound(Keep(d, pc, w), h)
<1> DEFINE x == [NoLook EXCEPT !.gap = disp[d].x.gap]
<1>1. disp[d].x.gap \in BOOLEAN
  BY DEF Sound, RunState, LookResult
<1>2. x \in LookResult /\ x.acked = x.delivered /\ x.acked \in Messages
  <2>1. NoLook \in LookResult /\ NoLook.acked = NoLook.delivered
    BY NoLookType
  <2> QED BY <1>1, <2>1 DEF LookResult
<1>3. Keep(d, pc, w) = [Stopped EXCEPT !.pc = pc, !.w = w, !.x = x]
  BY DEF Keep, Stopped
<1>4. Stopped \in RunState
  BY StoppedSound DEF Sound
<1> HIDE DEF x
<1>5. Keep(d, pc, w) \in RunState
  BY <1>2, <1>3, <1>4 DEF RunState, True
<1>6. Keep(d, pc, w).pc = pc /\ Keep(d, pc, w).w = w /\ Keep(d, pc, w).x = x
  BY <1>3, <1>4 DEF RunState
<1>7. x.acked <= x.delivered
  BY <1>2 DEF Messages
<1> QED BY <1>5, <1>6, <1>7 DEF Sound

\* The end of an act: the gap, or the next pass.
LEMMA EndOfActSound ==
    ASSUME NEW h, NEW d \in Slots, Sound(disp[d], h), NEW w, True(w, h)
    PROVE  Sound(EndOfAct(d, w), h)
<1>1. Sound([disp[d] EXCEPT !.pc = "gap", !.w = w], h)
  BY DEF Sound, RunState, True
<1> QED BY <1>1, StoppedSound DEF EndOfAct

\* A write of a record, unless it is on the bus already.
LEMMA PutNextSound ==
    ASSUME NEW h, NEW d \in Slots, Sound(disp[d], h), NEW w, True(w, h)
    PROVE  Sound(PutNext(d, w), h)
<1>1. Sound(Keep(d, "put", w), h)
  BY KeepSound
<1> QED BY <1>1, EndOfActSound DEF PutNext

Verdicts == [act : {"none", "prompt", "defer", "escalate"}, reset : BOOLEAN, cause : BOOLEAN,
             replay : BOOLEAN]
\* A prompt is decided only with a try left and no escalation standing.
MayPrompt(v, w) == v.act = "prompt" => v.reset \/ (w.tries < MaxTries /\ w.escalated = "no")

\* Decide asks for a prompt only where MayPrompt allows it (decide.go rules 3-9).
LEMMA DecideVerdict ==
    ASSUME NEW w \in WakeRecord, NEW x, NEW snap, NEW in
    PROVE  Decide(x, snap, w, in) \in Verdicts /\ MayPrompt(Decide(x, snap, w, in), w)
<1> DEFINE moved == IsReset(w, x, snap)
           rearmed == ~moved /\ w.escalated = "true" /\ w.cause /\ in = "ready"
           reset == moved \/ rearmed
           escalated == IF reset THEN "no" ELSE w.escalated
           tries == IF reset THEN 0 ELSE w.tries
           D == Decide(x, snap, w, in)
<1>1. moved \in BOOLEAN /\ reset \in BOOLEAN
  BY DEF IsReset, Progressed, IdentityChanged, Reopened
<1>2. w.cause \in BOOLEAN /\ w.escalated \in {"no", "pending", "true"} /\ w.tries \in Nat
  BY DispatchAssumption DEF WakeRecord
<1>3. D = CASE escalated = "pending" ->
                 [Verdict("escalate", reset, w.cause) EXCEPT !.replay = TRUE]
            [] escalated = "true" -> Verdict("none", reset, FALSE)
            [] escalated = "no" /\ Exhausted(tries) -> Verdict("escalate", reset, FALSE)
            [] escalated = "no" /\ ~Exhausted(tries) /\ ~(moved \/ x.open) ->
                 Verdict("none", reset, FALSE)
            [] OTHER -> JudgePane(x, snap, in, reset)
  BY DEF Decide
<1>4. escalated \in {"no", "pending", "true"} /\ (reset \/ (escalated = w.escalated /\ tries = w.tries))
  BY <1>2
<1> HIDE DEF moved, rearmed, reset, escalated, tries, D
<1>5. \A a \in {"none", "prompt", "defer", "escalate"}, c \in BOOLEAN :
        Verdict(a, reset, c) \in Verdicts /\ Verdict(a, reset, c).act = a
        /\ Verdict(a, reset, c).reset = reset
  BY <1>1 DEF Verdict, Verdicts
<1>6. JudgePane(x, snap, in, reset) \in Verdicts /\ JudgePane(x, snap, in, reset).reset = reset
  <2> DEFINE a == IF x.old > (IF in = "working" THEN workingFactor * T ELSE T)
                  THEN "escalate" ELSE "defer"
             c == in \in {"error", "gone", "working", "busy"}
  <2>1. a \in {"prompt", "defer", "escalate"} /\ c \in BOOLEAN
    OBVIOUS
  <2>2. JudgePane(x, snap, in, reset) =
          IF in = "ready" THEN Verdict("prompt", reset, FALSE) ELSE Verdict(a, reset, c)
    BY DEF JudgePane
  <2> HIDE DEF a, c
  <2> QED BY <1>5, <2>1, <2>2
<1>7. CASE escalated = "pending"
  <2>1. D = [Verdict("escalate", reset, w.cause) EXCEPT !.replay = TRUE]
    BY <1>3, <1>7
  <2>2. D \in Verdicts /\ D.act = "escalate"
    BY <1>2, <1>5, <2>1 DEF Verdicts
  <2> QED BY <2>2 DEF MayPrompt, D
<1>8. CASE escalated = "true"
  <2>1. D = Verdict("none", reset, FALSE)
    BY <1>3, <1>8
  <2> QED BY <1>5, <2>1 DEF MayPrompt, D
<1>9. CASE escalated = "no"
  <2>1. CASE Exhausted(tries)
    <3>1. D = Verdict("escalate", reset, FALSE)
      BY <1>3, <1>9, <2>1
    <3> QED BY <1>5, <3>1 DEF MayPrompt, D
  <2>2. CASE ~Exhausted(tries)
    <3>1. D = Verdict("none", reset, FALSE) \/ D = JudgePane(x, snap, in, reset)
      BY <1>3, <1>9, <2>2
    <3>2. D \in Verdicts /\ D.reset = reset
      BY <1>5, <1>6, <3>1
    <3>3. reset \/ (w.tries < MaxTries /\ w.escalated = "no")
      BY <1>2, <1>4, <1>9, <2>2, DispatchAssumption DEF Exhausted
    <3> QED BY <3>2, <3>3 DEF MayPrompt, D
  <2> QED BY <2>1, <2>2
<1> QED BY <1>4, <1>7, <1>8, <1>9

\* A committed escalation is not yet recorded as sent (loop.go:740-788).
LEMMA EscalateSound ==
    ASSUME NEW h, NEW d \in Slots, Sound(disp[d], h), NEW v \in Verdicts
    PROVE  Sound(escalate(d, v), h)
<1> DEFINE b == base(d, disp[d].w, v.reset)
           m == IF b.mark = 0 /\ b.pending = 0 THEN Marked(b, disp[d].x) ELSE b
           r == [m EXCEPT !.state = IF @ = "none" THEN "deferred" ELSE @, !.escalated = "pending",
                          !.cause = v.cause, !.high = IF v.replay THEN @ ELSE disp[d].x.high]
<1>1. True(b, h)
  BY BaseTrue DEF Sound, Verdicts
<1>2. True(m, h)
  BY <1>1, MarkedTrue DEF Sound, RunState
<1>3. escalate(d, v) = IF r = disp[d].w THEN Keep(d, "cmd", r) ELSE Keep(d, "pending", r)
  BY DEF escalate
<1>4. disp[d].x.high \in Messages /\ v.cause \in BOOLEAN
  BY DEF Sound, RunState, LookResult, Verdicts
<1> HIDE DEF b, m
<1>5. True(r, h)
  BY <1>2, <1>4 DEF True, WakeRecord
<1> HIDE DEF r
<1> QED BY <1>3, <1>5, KeepSound

\* What a run does on a verdict leaves it sound.
LEMMA ActSound ==
    ASSUME NEW h, NEW d \in Slots, Sound(disp[d], h), NEW v \in Verdicts,
           MayPrompt(v, disp[d].w), NEW next \in {"recheck", "reserve"}
    PROVE  Sound(act(d, v, next), h)
<1>1. CASE v.act = "none"
  BY <1>1, EndOfActSound DEF act, Sound
<1>2. CASE v.act = "defer"
  <2> DEFINE b == base(d, disp[d].w, v.reset)
             r == [b EXCEPT !.state = "deferred"]
  <2>1. True(b, h)
    BY BaseTrue DEF Sound, Verdicts
  <2> HIDE DEF b
  <2>2. True(r, h)
    BY <2>1 DEF True, WakeRecord
  <2>3. act(d, v, next) = PutNext(d, r)
    BY <1>2 DEF act, b
  <2> QED BY <2>2, <2>3, PutNextSound
<1>3. CASE v.act = "escalate"
  BY <1>3, EscalateSound DEF act
<1>4. CASE v.act = "prompt"
  <2>1. act(d, v, next) = [disp[d] EXCEPT !.pc = next, !.reset = v.reset]
    BY <1>4 DEF act
  <2>2. v.reset \in BOOLEAN
    BY DEF Verdicts
  <2> QED BY <1>4, <2>1, <2>2 DEF Sound, RunState, MayPrompt
<1> QED BY <1>1, <1>2, <1>3, <1>4 DEF Verdicts

-----------------------------------------------------------------------------
(* Every run is sound, in every reachable state.                            *)

WorldOK ==
    /\ queue \in [published : Messages, delivered : Messages, acked : Messages, gap : BOOLEAN]
    /\ queue.acked <= queue.delivered /\ queue.delivered <= queue.published
    /\ age \in [1 .. MaxMessages -> 0 .. Late]
    /\ agent \in [proc : Procs, last : Procs, reg : Procs, armed : BOOLEAN]
    /\ pause \in {"none", "set", "due"}
    /\ swap \in [pc : {"off", "wait", "close", "spawn", "proof"}, intent : BOOLEAN]
    /\ lease \in Slots \cup {None} /\ ample \in BOOLEAN
    /\ since \in 0 .. Retry
    /\ spent \in [faults : 0 .. MaxFaults, pauses : 0 .. MaxPauses, swaps : 0 .. MaxSwaps]
RunsOK ==
    /\ hist \in History
    /\ True(wake, hist)
    /\ disp \in [Slots -> RunState]
    /\ \A d \in Slots : Sound(disp[d], hist)
SoundInv == WorldOK /\ RunsOK

\* The clock's last threshold is a number.
LEMMA LateNat == Late \in Nat /\ MaxMessages \in Nat /\ MaxProcs \in Nat /\ MaxTries \in Nat
                 /\ Retry \in Nat /\ MaxFaults \in Nat /\ MaxPauses \in Nat /\ MaxSwaps \in Nat
<1>1. workingFactor \in Nat /\ T \in Nat
  BY DispatchAssumption
<1>2. workingFactor * T \in Nat
  BY <1>1
<1> QED BY <1>2, DispatchAssumption DEF Late

\* The parts are the type invariant.
LEMMA SoundIsTyped == SoundInv => TypeOK
BY DEF SoundInv, WorldOK, RunsOK, TypeOK, History, True

\* What was done is never undone: a true record stays true, a sound run sound.
LEMMA TrueStays ==
    ASSUME hist \in History, hist' \in History, hist'.told >= hist.told,
           hist.gaps => hist'.gaps
    PROVE  /\ \A w : True(w, hist) => True(w, hist')
           /\ \A r : Sound(r, hist) => Sound(r, hist')
<1>1. hist.told \in Nat /\ hist'.told \in Nat
  BY LateNat DEF History, Messages
<1>2. ASSUME NEW w, True(w, hist) PROVE True(w, hist')
  <2>1. w.high \in Nat
    BY <1>2, LateNat DEF True, WakeRecord, Messages
  <2> QED BY <1>1, <1>2, <2>1 DEF True
<1>3. ASSUME NEW r, Sound(r, hist) PROVE Sound(r, hist')
  BY <1>2, <1>3 DEF Sound
<1> QED BY <1>2, <1>3

\* A step of one run, to a sound state, keeps every run sound.
LEMMA DoKeepsRuns ==
    ASSUME RunsOK, hist' \in History, hist'.told >= hist.told, hist.gaps => hist'.gaps,
           NEW d \in Slots, NEW next, Do(d, next), Sound(next, hist'), True(wake', hist')
    PROVE  RunsOK'
<1>1. \A r : Sound(r, hist) => Sound(r, hist')
  BY TrueStays DEF RunsOK
<1>2. next \in RunState
  BY DEF Sound
<1>3. disp' \in [Slots -> RunState] /\ disp'[d] = next /\ \A e \in Slots \ {d} : disp'[e] = disp[e]
  BY <1>2 DEF Do, RunsOK
<1> QED BY <1>1, <1>3 DEF RunsOK

\* So does a step that leaves the history as it was.
LEMMA QuietStep ==
    ASSUME RunsOK, UNCHANGED hist, NEW d \in Slots, NEW next, Do(d, next), Sound(next, hist),
           True(wake', hist)
    PROVE  RunsOK'
<1>1. hist \in History /\ hist.told >= hist.told
  BY LateNat DEF RunsOK, History, Messages
<1> QED BY <1>1, DoKeepsRuns

\* A step of the world around them, or of an agent that moves on.
LEMMA WorldKeepsRuns ==
    ASSUME RunsOK, UNCHANGED <<disp, wake>>, hist' = hist \/ MovedOn
    PROVE  RunsOK'
<1>1. hist' \in History /\ hist'.told = hist.told /\ hist'.gaps = hist.gaps /\ hist.told \in Nat
  BY LateNat DEF RunsOK, History, MovedOn, Messages
<1>2. hist'.told >= hist.told
  BY <1>1
<1> QED BY <1>1, <1>2, TrueStays DEF RunsOK

\* A fault spent is within the bound.
LEMMA FaultType ==
    ASSUME WorldOK, NEW n \in Nat, Fault(n)
    PROVE  spent' \in [faults : 0 .. MaxFaults, pauses : 0 .. MaxPauses, swaps : 0 .. MaxSwaps]
<1>1. spent.faults + n \in 0 .. MaxFaults /\ spent' = [spent EXCEPT !.faults = @ + n]
  BY LateNat DEF WorldOK, Fault
<1> QED BY <1>1 DEF WorldOK

\* A message published is young, and within the bound.
LEMMA PublishedType ==
    ASSUME WorldOK, queue.published < MaxMessages, Published(1)
    PROVE  /\ queue' \in [published : Messages, delivered : Messages, acked : Messages, gap : BOOLEAN]
           /\ queue'.acked <= queue'.delivered /\ queue'.delivered <= queue'.published
           /\ age' \in [1 .. MaxMessages -> 0 .. Late]
<1>1. /\ queue.published \in Nat /\ queue.delivered \in Nat /\ queue.acked \in Nat
      /\ queue.published + 1 \in Messages
  <2>1. {queue.published, queue.delivered, queue.acked} \subseteq Messages
    BY DEF WorldOK
  <2> QED BY <2>1, LateNat DEF Messages
<1>2. queue' = [queue EXCEPT !.published = @ + 1]
  BY DEF Published
<1>3. queue' \in [published : Messages, delivered : Messages, acked : Messages, gap : BOOLEAN]
  BY <1>1, <1>2 DEF WorldOK
<1>4. queue'.acked <= queue'.delivered /\ queue'.delivered <= queue'.published
  BY <1>1, <1>2 DEF WorldOK
<1>5. age' = [m \in DOMAIN age |-> IF m > queue.published THEN 0 ELSE age[m]]
  BY DEF Published
<1>6. 0 \in 0 .. Late /\ DOMAIN age = 1 .. MaxMessages
  BY LateNat DEF WorldOK
<1>7. age' \in [1 .. MaxMessages -> 0 .. Late]
  BY <1>5, <1>6 DEF WorldOK
<1> QED BY <1>3, <1>4, <1>7

\* The agent, its queue, the clock, the pause and a swap keep the invariant: they
\* touch no run and no record.
LEMMA WorldSound ==
    ASSUME SoundInv,
           \/ Publish \/ Arm \/ Take \/ Ack \/ Disarm \/ Die \/ Relaunch \/ Register \/ Trim \/ Tick
           \/ SetPause \/ PauseDue \/ Resume \/ BeginSwap \/ SwapStep \/ IntentExpires
    PROVE  SoundInv'
<1> DEFINE Queues == [published : Messages, delivered : Messages, acked : Messages, gap : BOOLEAN]
           Agents == [proc : Procs, last : Procs, reg : Procs, armed : BOOLEAN]
           Swaps == [pc : {"off", "wait", "close", "spawn", "proof"}, intent : BOOLEAN]
           Spent == [faults : 0 .. MaxFaults, pauses : 0 .. MaxPauses, swaps : 0 .. MaxSwaps]
<1>a. WorldOK /\ RunsOK
  BY DEF SoundInv
<1>b. /\ queue.published \in Nat /\ queue.delivered \in Nat /\ queue.acked \in Nat
      /\ queue.published <= MaxMessages
      /\ agent.last \in Nat /\ agent.proc \in Procs /\ 0 \in Procs
  BY <1>a, LateNat DEF WorldOK, Messages, Procs
<1>c. UNCHANGED <<disp, wake>> /\ (hist' = hist \/ MovedOn)
  BY DEF Publish, Arm, Take, Ack, Disarm, Die, Relaunch, Register, Trim, Tick, SetPause, PauseDue,
         Resume, BeginSwap, SwapStep, SwapCheck, ClosePane, Spawn, EndSwap, SwapDies, IntentExpires
<1>d. RunsOK'
  BY <1>a, <1>c, WorldKeepsRuns
<1>l. ASSUME agent.last < MaxProcs PROVE Launched \in Agents
  <2>1. agent.last + 1 \in Procs
    BY <1>b, <1>l, LateNat DEF Procs
  <2> QED BY <1>a, <2>1 DEF Launched, WorldOK
<1>k. [agent EXCEPT !.proc = 0, !.armed = FALSE] \in Agents /\ [agent EXCEPT !.armed = FALSE] \in Agents
  BY <1>a, <1>b DEF WorldOK
<1>1. ASSUME Publish PROVE WorldOK'
  BY <1>1, <1>a, PublishedType DEF Publish, WorldOK
<1>2. ASSUME Arm PROVE WorldOK'
  BY <1>2, <1>a DEF Arm, WorldOK
<1>3. ASSUME Take PROVE WorldOK'
  <2>1. queue' = [queue EXCEPT !.delivered = @ + 1, !.gap = FALSE]
        /\ UNCHANGED <<age, agent, pause, swap, lease, ample, since, spent>>
    BY <1>3 DEF Take
  <2>2. queue.delivered + 1 \in Messages /\ queue.delivered + 1 <= queue.published
        /\ queue.acked <= queue.delivered + 1
    <3>1. queue.delivered < queue.published
      BY <1>3 DEF Take
    <3>2. queue.acked <= queue.delivered
      BY <1>a DEF WorldOK
    <3> QED BY <1>b, <3>1, <3>2, LateNat DEF Messages
  <2>3. queue' \in Queues /\ queue'.acked <= queue'.delivered /\ queue'.delivered <= queue'.published
    BY <1>a, <2>1, <2>2 DEF WorldOK
  <2> QED BY <1>a, <2>1, <2>3 DEF WorldOK
<1>4. ASSUME Ack PROVE WorldOK'
  <2>1. queue' = [queue EXCEPT !.acked = @ + 1] /\ agent' \in {agent, [agent EXCEPT !.armed = FALSE]}
        /\ UNCHANGED <<age, pause, swap, lease, ample, since, spent>>
    BY <1>4 DEF Ack
  <2>2. queue.acked + 1 \in Messages /\ queue.acked + 1 <= queue.delivered
    <3>1. queue.acked < queue.delivered
      BY <1>4 DEF Ack
    <3>2. queue.delivered <= queue.published
      BY <1>a DEF WorldOK
    <3> QED BY <1>b, <3>1, <3>2, LateNat DEF Messages
  <2>3. queue' \in Queues /\ queue'.acked <= queue'.delivered /\ queue'.delivered <= queue'.published
    BY <1>a, <2>1, <2>2 DEF WorldOK
  <2>4. agent' \in Agents
    BY <1>a, <1>k, <2>1 DEF WorldOK
  <2> QED BY <1>a, <2>1, <2>3, <2>4 DEF WorldOK
<1>5. ASSUME Disarm PROVE WorldOK'
  <2>1. (IF Owed THEN 1 ELSE 0) \in Nat
    OBVIOUS
  <2>2. spent' \in Spent
    BY <1>5, <1>a, <2>1, FaultType DEF Disarm
  <2> QED BY <1>5, <1>a, <1>k, <2>2 DEF Disarm, WorldOK
<1>6. ASSUME Die PROVE WorldOK'
  BY <1>6, <1>a, <1>k DEF Die, WorldOK
<1>7. ASSUME Relaunch PROVE WorldOK'
  BY <1>7, <1>a, <1>l DEF Relaunch, WorldOK
<1>8. ASSUME Register PROVE WorldOK'
  <2>1. [agent EXCEPT !.reg = agent.proc] \in Agents
    BY <1>a, <1>b DEF WorldOK
  <2> QED BY <1>8, <1>a, <2>1 DEF Register, WorldOK
<1>9. ASSUME Trim PROVE WorldOK'
  <2>1. /\ [queue EXCEPT !.gap = TRUE] \in Queues
        /\ [queue EXCEPT !.gap = TRUE].acked = queue.acked
        /\ [queue EXCEPT !.gap = TRUE].delivered = queue.delivered
        /\ [queue EXCEPT !.gap = TRUE].published = queue.published
    BY <1>a DEF WorldOK
  <2> QED BY <1>9, <1>a, <2>1 DEF Trim, WorldOK
<1>10. ASSUME Tick PROVE WorldOK'
  <2>1. age' = [m \in DOMAIN age |-> IF m <= queue.published /\ age[m] < Late
                                     THEN age[m] + 1 ELSE age[m]]
        /\ since' = (IF since < Retry THEN since + 1 ELSE since)
        /\ UNCHANGED <<queue, agent, pause, swap, lease, ample, spent>>
    BY <1>10 DEF Tick
  <2>2. age' \in [1 .. MaxMessages -> 0 .. Late]
    <3>1. \A m \in 1 .. MaxMessages : age[m] \in 0 .. Late /\ (age[m] < Late => age[m] + 1 \in 0 .. Late)
      BY <1>a, LateNat DEF WorldOK
    <3>2. DOMAIN age = 1 .. MaxMessages
      BY <1>a DEF WorldOK
    <3> QED BY <2>1, <3>1, <3>2
  <2>3. since' \in 0 .. Retry
    BY <1>a, <2>1, LateNat DEF WorldOK
  <2> QED BY <1>a, <2>1, <2>2, <2>3 DEF WorldOK
<1>11. ASSUME SetPause PROVE WorldOK'
  <2>1. spent.pauses + 1 \in 0 .. MaxPauses
    BY <1>11, <1>a, LateNat DEF SetPause, WorldOK
  <2>2. [spent EXCEPT !.pauses = @ + 1] \in Spent
    BY <1>a, <2>1 DEF WorldOK
  <2> QED BY <1>11, <1>a, <2>2 DEF SetPause, WorldOK
<1>12. ASSUME PauseDue PROVE WorldOK'
  BY <1>12, <1>a DEF PauseDue, WorldOK
<1>13. ASSUME Resume PROVE WorldOK'
  BY <1>13, <1>a, PublishedType DEF Resume, EndPause, WorldOK
<1>s. \A pc \in {"off", "wait", "close", "spawn", "proof"}, intent \in BOOLEAN :
        SwapGo(pc, intent) => swap' \in Swaps
  BY DEF SwapGo
<1>14. ASSUME BeginSwap PROVE WorldOK'
  <2>1. spent.swaps + 1 \in 0 .. MaxSwaps
    BY <1>14, <1>a, LateNat DEF BeginSwap, WorldOK
  <2>2. [spent EXCEPT !.swaps = @ + 1] \in Spent
    BY <1>a, <2>1 DEF WorldOK
  <2> QED BY <1>14, <1>a, <1>s, <2>2 DEF BeginSwap, WorldOK
<1>15. ASSUME SwapStep PROVE WorldOK'
  <2>1. CASE SwapCheck
    BY <2>1, <1>a, <1>s DEF SwapCheck, WorldOK
  <2>2. CASE ClosePane
    BY <2>2, <1>a, <1>k, <1>s DEF ClosePane, WorldOK
  <2>3. CASE Spawn
    BY <2>3, <1>a, <1>l, <1>s DEF Spawn, WorldOK
  <2>4. CASE EndSwap
    BY <2>4, <1>a, <1>s DEF EndSwap, WorldOK
  <2>5. CASE SwapDies
    BY <2>5, <1>a, <1>s DEF SwapDies, WorldOK
  <2> QED BY <1>15, <2>1, <2>2, <2>3, <2>4, <2>5 DEF SwapStep
<1>16. ASSUME IntentExpires PROVE WorldOK'
  BY <1>16, <1>a, <1>s DEF IntentExpires, WorldOK
<1>w. WorldOK'
  BY <1>1, <1>2, <1>3, <1>4, <1>5, <1>6, <1>7, <1>8, <1>9, <1>10, <1>11, <1>12, <1>13, <1>14, <1>15, <1>16
<1> QED BY <1>d, <1>w DEF SoundInv

\* A try is left when a run reserves: the reservation is charged within MaxTries,
\* and no escalation stands in it (loop.go:674-700).
LEMMA ReservedTrue ==
    ASSUME SoundInv, NEW d \in Slots, At(d, "reserve")
    PROVE  True(Reserved(d), hist) /\ Reserved(d).state = "prompting" /\ Reserved(d).tries > 0
<1> DEFINE b == base(d, disp[d].w, disp[d].reset)
           m == Marked(b, disp[d].x)
           n == (IF disp[d].reset THEN 0 ELSE disp[d].w.tries) + 1
           r == [m EXCEPT !.state = "prompting", !.high = disp[d].x.high, !.pid = disp[d].snap,
                          !.tries = n]
<1>1. Sound(disp[d], hist) /\ disp[d].reset \in BOOLEAN /\ disp[d].x \in LookResult
      /\ disp[d].snap \in Procs /\ disp[d].x.high \in Messages
  BY DEF SoundInv, RunsOK, Sound, RunState, LookResult
<1>2. True(b, hist) /\ (disp[d].reset => b.escalated = "no") /\ (~disp[d].reset => b = disp[d].w)
  BY <1>1, BaseTrue DEF Sound, base
<1>3. disp[d].reset \/ (disp[d].w.tries < MaxTries /\ disp[d].w.escalated = "no")
  BY <1>1 DEF Sound, At
<1>4. n \in 0 .. MaxTries /\ n > 0
  <2>1. disp[d].w.tries \in 0 .. MaxTries
    BY <1>1 DEF Sound, True, WakeRecord
  <2> QED BY <1>3, <2>1, DispatchAssumption
<1>5. b.escalated = "no"
  BY <1>2, <1>3
<1>6. True(m, hist) /\ m.escalated = "no"
  BY <1>1, <1>2, <1>5, MarkedTrue DEF Sound
<1>7. Reserved(d) = r
  BY DEF Reserved
<1> HIDE DEF m, n
<1>8. r \in WakeRecord /\ r.escalated = "no" /\ r.gap = m.gap /\ r.state = "prompting" /\ r.tries = n
  BY <1>1, <1>4, <1>6 DEF True, WakeRecord
<1> HIDE DEF r
<1> QED BY <1>4, <1>6, <1>7, <1>8 DEF True

\* What a look reads is consistent, and what it leaves the run with is sound.
LEMMA LookSound ==
    ASSUME SoundInv, NEW d \in Slots, Look(d)
    PROVE  RunsOK'
<1> DEFINE x == [delivered |-> queue.delivered, acked |-> queue.acked,
                 high |-> IF Owed THEN queue.published ELSE 0,
                 old |-> IF Owed THEN age[queue.acked + 1] ELSE 0,
                 open |-> since = Retry, gap |-> queue.gap]
           cleared == [Marked(wake, x) EXCEPT !.state = "clear", !.tries = 0, !.high = 0,
                                              !.escalated = "no", !.cause = FALSE]
           here == [disp[d] EXCEPT !.x = x, !.w = wake]
           exists == wake.state # "none"
           skipped == swap.intent \/ (~Owed /\ ~exists /\ ~x.gap)
           done == IF x.gap /\ ~wake.gap THEN [here EXCEPT !.pc = "gap"] ELSE Pass
           next == CASE skipped -> Pass
                     [] ~skipped /\ ~Owed -> IF exists /\ cleared # wake
                                             THEN [here EXCEPT !.pc = "put", !.w = cleared] ELSE done
                     [] ~skipped /\ Owed /\ agent.armed -> done
                     [] OTHER -> [here EXCEPT !.pc = "judge"]
<1>1. Do(d, next) /\ UNCHANGED <<wake, hist>>
  BY DEF Look
<1>2. RunsOK /\ True(wake, hist) /\ Sound(disp[d], hist) /\ WorldOK
  BY DEF SoundInv, RunsOK
<1>3. x \in LookResult /\ x.acked <= x.delivered
  <2>1. queue.delivered \in Messages /\ queue.acked \in Messages /\ queue.published \in Messages
        /\ queue.gap \in BOOLEAN /\ queue.acked <= queue.delivered /\ 0 \in Messages
    BY <1>2, LateNat DEF WorldOK, Messages
  <2>2. Owed => age[queue.acked + 1] \in 0 .. Late
    <3>1. Owed => queue.acked + 1 \in 1 .. MaxMessages
      BY <2>1, LateNat DEF Owed, Messages
    <3> QED BY <1>2, <3>1 DEF WorldOK
  <2>3. 0 \in 0 .. Late
    BY LateNat
  <2> QED BY <2>1, <2>2, <2>3 DEF LookResult
<1> HIDE DEF x
<1>4. True(cleared, hist)
  <2> DEFINE m == Marked(wake, x)
             c == [m EXCEPT !.state = "clear", !.tries = 0, !.high = 0, !.escalated = "no", !.cause = FALSE]
  <2>1. True(m, hist)
    BY <1>2, <1>3, MarkedTrue
  <2>2. 0 \in Messages /\ 0 \in 0 .. MaxTries
    BY LateNat DEF Messages
  <2> HIDE DEF m
  <2>3. c \in WakeRecord /\ c.escalated = "no" /\ c.gap = m.gap
    BY <2>1, <2>2 DEF True, WakeRecord
  <2>4. cleared = c
    BY DEF m
  <2> HIDE DEF c
  <2> QED BY <2>1, <2>3, <2>4 DEF True
<1> HIDE DEF cleared
<1>5. \A pc \in {"gap", "judge", "put"}, w \in WakeRecord : True(w, hist) =>
        Sound([disp[d] EXCEPT !.x = x, !.w = w, !.pc = pc], hist)
  <2> TAKE pc \in {"gap", "judge", "put"}, w \in WakeRecord
  <2> HAVE True(w, hist)
  <2> DEFINE q == [disp[d] EXCEPT !.x = x, !.w = w, !.pc = pc]
  <2>1. disp[d] \in RunState /\ w \in WakeRecord
    BY <1>2 DEF Sound, True
  <2>2. q \in RunState /\ q.x = x /\ q.w = w /\ q.pc = pc
    BY <1>3, <2>1 DEF RunState
  <2> HIDE DEF q
  <2>3. Sound(q, hist)
    BY <1>3, <2>2 DEF Sound
  <2> QED BY <2>3 DEF q
<1>6. /\ [here EXCEPT !.pc = "gap"] = [disp[d] EXCEPT !.x = x, !.w = wake, !.pc = "gap"]
      /\ [here EXCEPT !.pc = "judge"] = [disp[d] EXCEPT !.x = x, !.w = wake, !.pc = "judge"]
      /\ [here EXCEPT !.pc = "put", !.w = cleared] = [disp[d] EXCEPT !.x = x, !.w = cleared, !.pc = "put"]
  BY <1>2 DEF Sound, RunState
<1>7. Sound(next, hist)
  <2>1. wake \in WakeRecord /\ cleared \in WakeRecord
    BY <1>2, <1>4 DEF True
  <2>2. /\ Sound([here EXCEPT !.pc = "gap"], hist) /\ Sound([here EXCEPT !.pc = "judge"], hist)
        /\ Sound([here EXCEPT !.pc = "put", !.w = cleared], hist)
    BY <1>2, <1>4, <1>5, <1>6, <2>1
  <2> HIDE DEF here
  <2> QED BY <2>2, StoppedSound
<1> QED BY <1>1, <1>2, <1>7, QuietStep

\* Steps on a verdict.
LEMMA JudgeSound ==
    ASSUME SoundInv, NEW d \in Slots, Judge(d) \/ Recheck(d)
    PROVE  RunsOK'
<1>1. RunsOK /\ True(wake, hist) /\ Sound(disp[d], hist) /\ disp[d].w \in WakeRecord /\ True(disp[d].w, hist)
  BY DEF SoundInv, RunsOK, Sound, RunState
<1>2. UNCHANGED <<wake, hist>>
  BY DEF Judge, Recheck
<1>3. \A in : \A next \in {"recheck", "reserve"} :
        Sound(act(d, Decide(disp[d].x, disp[d].snap, disp[d].w, in), next), hist)
  BY <1>1, DecideVerdict, ActSound
<1>4. CASE Judge(d)
  <2>1. PICK in : Do(d, act(d, Decide(disp[d].x, disp[d].snap, disp[d].w, in), "recheck"))
    BY <1>4 DEF Judge
  <2> QED BY <1>1, <1>2, <1>3, <2>1, QuietStep
<1>5. CASE Recheck(d)
  <2>1. CASE Do(d, EndOfAct(d, disp[d].w))
    BY <1>1, <1>2, <2>1, EndOfActSound, QuietStep
  <2>2. CASE ~swap.intent
    <3>1. PICK in : Do(d, act(d, Decide(disp[d].x, disp[d].snap, disp[d].w, in), "reserve"))
      BY <1>5, <2>2 DEF Recheck
    <3> QED BY <1>1, <1>2, <1>3, <3>1, QuietStep
  <2> QED BY <1>5, <2>1, <2>2 DEF Recheck
<1> QED BY <1>4, <1>5

\* The reservation, or its refusal (loop.go:674-700).
LEMMA ReserveSound ==
    ASSUME SoundInv, NEW d \in Slots, Reserve(d)
    PROVE  RunsOK'
<1>1. RunsOK /\ True(wake, hist) /\ Sound(disp[d], hist) /\ True(disp[d].w, hist)
      /\ disp[d].reset \in BOOLEAN
  BY DEF SoundInv, RunsOK, Sound, RunState
<1>2. UNCHANGED hist /\ At(d, "reserve")
  BY DEF Reserve
<1>3. CASE Do(d, EndOfAct(d, disp[d].w)) /\ UNCHANGED wake
  BY <1>1, <1>2, <1>3, EndOfActSound, QuietStep
<1>4. CASE wake' = Reserved(d) /\ Do(d, Keep(d, "confirm", Reserved(d)))
  <2>1. True(Reserved(d), hist) /\ Reserved(d).state = "prompting" /\ Reserved(d).tries > 0
    BY <1>2, ReservedTrue
  <2>2. Sound(Keep(d, "confirm", Reserved(d)), hist)
    BY <1>1, <2>1, KeepSound
  <2> QED BY <1>1, <1>2, <1>4, <2>1, <2>2, QuietStep
<1>5. CASE /\ UNCHANGED wake
           /\ Do(d, PutNext(d, [base(d, wake, disp[d].reset) EXCEPT !.state = "deferred"]))
  <2> DEFINE b == base(d, wake, disp[d].reset)
             r == [b EXCEPT !.state = "deferred"]
  <2>1. True(b, hist)
    BY <1>1, BaseTrue
  <2> HIDE DEF b
  <2>2. True(r, hist)
    BY <2>1 DEF True, WakeRecord
  <2>3. Sound(PutNext(d, r), hist) /\ Do(d, PutNext(d, r))
    BY <1>1, <1>5, <2>2, PutNextSound DEF b
  <2> QED BY <1>1, <1>2, <1>5, <2>3, QuietStep
<1> QED BY <1>3, <1>4, <1>5 DEF Reserve

\* The steps between the reservation and the outcome of the prompt.
LEMMA TypeSound ==
    ASSUME SoundInv, NEW d \in Slots, Confirm(d) \/ Type(d)
    PROVE  RunsOK'
<1>1. RunsOK /\ True(wake, hist) /\ Sound(disp[d], hist) /\ True(disp[d].w, hist)
      /\ disp[d].w \in WakeRecord /\ hist \in History
  BY DEF SoundInv, RunsOK, Sound, True
<1>2. \A s \in {"deferred", "prompted"} : True([disp[d].w EXCEPT !.state = s], hist)
  BY <1>1 DEF True, WakeRecord
<1>3. CASE Confirm(d)
  <2>1. disp[d].w.state = "prompting" /\ disp[d].w.tries > 0
    BY <1>1, <1>3 DEF Confirm, At, Sound
  <2>2. Sound(Keep(d, "put", [disp[d].w EXCEPT !.state = "deferred"]), hist)
        /\ Sound(Keep(d, "type", disp[d].w), hist)
    BY <1>1, <1>2, <2>1, KeepSound
  <2> QED BY <1>1, <1>3, <2>2, QuietStep DEF Confirm
<1>4. CASE Type(d)
  <2> DEFINE typed == IF hist.typed < MaxTries + 2 THEN hist.typed + 1 ELSE hist.typed
  <2>1. hist' = [hist EXCEPT !.typed = typed]
        /\ UNCHANGED wake /\ Do(d, Keep(d, "put", [disp[d].w EXCEPT !.state = "prompted"]))
    BY <1>4 DEF Type
  <2>2. typed \in 0 .. MaxTries + 2 /\ hist.told \in Nat
    BY <1>1, LateNat DEF History, Messages
  <2> HIDE DEF typed
  <2>3. hist' \in History /\ hist'.told = hist.told /\ hist'.gaps = hist.gaps
    BY <1>1, <2>1, <2>2 DEF History
  <2>4. \A w : True(w, hist) => True(w, hist')
    BY <2>3 DEF True
  <2>5. Sound(Keep(d, "put", [disp[d].w EXCEPT !.state = "prompted"]), hist)
    BY <1>1, <1>2, KeepSound
  <2>6. Sound(Keep(d, "put", [disp[d].w EXCEPT !.state = "prompted"]), hist')
    BY <2>4, <2>5 DEF Sound
  <2>7. hist'.told >= hist.told /\ True(wake', hist')
    BY <1>1, <2>1, <2>2, <2>3, <2>4
  <2> QED BY <1>1, <2>1, <2>3, <2>6, <2>7, DoKeepsRuns
<1> QED BY <1>3, <1>4

\* Writing what is in hand.
LEMMA PutSound ==
    ASSUME SoundInv, NEW d \in Slots, Put(d) \/ EscalatePending(d) \/ EscalateCmd(d)
    PROVE  RunsOK'
<1>1. RunsOK /\ True(wake, hist) /\ Sound(disp[d], hist) /\ True(disp[d].w, hist)
  BY DEF SoundInv, RunsOK, Sound
<1>2. Sound(EndOfAct(d, disp[d].w), hist)
      /\ \A pc \in {"cmd", "notify"} : Sound(Keep(d, pc, disp[d].w), hist)
  BY <1>1, EndOfActSound, KeepSound
<1>3. UNCHANGED hist /\ True(wake', hist)
  BY <1>1 DEF Put, EscalatePending, EscalateCmd
<1>4. Do(d, EndOfAct(d, disp[d].w)) \/ Do(d, Keep(d, "cmd", disp[d].w)) \/ Do(d, Keep(d, "notify", disp[d].w))
  BY DEF Put, EscalatePending, EscalateCmd
<1> QED BY <1>1, <1>2, <1>3, <1>4, QuietStep

\* The notify is on the bus before the record in hand says so (loop.go:740-788).
LEMMA EscalateNotifySound ==
    ASSUME SoundInv, NEW d \in Slots, EscalateNotify(d)
    PROVE  RunsOK'
<1> DEFINE w == disp[d].w
           told == IF w.high > hist.told THEN w.high ELSE hist.told
           r == [w EXCEPT !.escalated = "true"]
<1>1. RunsOK /\ True(wake, hist) /\ Sound(disp[d], hist) /\ True(w, hist) /\ hist \in History
  BY DEF SoundInv, RunsOK, Sound
<1>2. hist' = [hist EXCEPT !.typed = 0, !.told = told] /\ UNCHANGED wake /\ Do(d, Keep(d, "put", r))
  BY DEF EscalateNotify
<1>3. w.high \in Messages /\ w.high \in Nat /\ hist.told \in Messages /\ hist.told \in Nat
  BY <1>1, LateNat DEF True, WakeRecord, History, Messages
<1>4. told \in Messages /\ told >= hist.told /\ told >= w.high
  BY <1>3
<1> HIDE DEF told
<1>5. hist' \in History /\ hist'.told = told /\ hist'.gaps = hist.gaps
  <2>1. 0 \in 0 .. MaxTries + 2
    BY LateNat
  <2> QED BY <1>1, <1>2, <1>4, <2>1 DEF History
<1>6. hist'.told >= hist.told
  BY <1>4, <1>5
<1>7. /\ \A v : True(v, hist) => True(v, hist')
      /\ \A s : Sound(s, hist) => Sound(s, hist')
  BY <1>1, <1>5, <1>6, TrueStays
<1>8. True(r, hist')
  <2>1. r \in WakeRecord /\ r.high = w.high /\ r.gap = w.gap
    BY <1>1 DEF True, WakeRecord
  <2>2. w.gap => hist'.gaps
    BY <1>1, <1>5 DEF True
  <2> HIDE DEF r
  <2> QED BY <1>4, <1>5, <2>1, <2>2 DEF True
<1>9. Sound(Keep(d, "put", r), hist')
  BY <1>1, <1>7, <1>8, KeepSound
<1> QED BY <1>1, <1>2, <1>5, <1>6, <1>7, <1>9, DoKeepsRuns

\* So is the notify of a gap.
LEMMA GapNotifySound ==
    ASSUME SoundInv, NEW d \in Slots, GapNotify(d)
    PROVE  RunsOK'
<1> DEFINE w == disp[d].w
           m == Marked(w, disp[d].x)
           r == IF w.state = "none" THEN [m EXCEPT !.state = "clear"] ELSE w
           g == [r EXCEPT !.gap = TRUE]
<1>1. RunsOK /\ True(wake, hist) /\ Sound(disp[d], hist) /\ True(w, hist) /\ hist \in History
  BY DEF SoundInv, RunsOK, Sound
<1>2. hist' = [hist EXCEPT !.gaps = TRUE] /\ UNCHANGED wake /\ Do(d, Keep(d, "put", g))
  BY DEF GapNotify
<1>3. hist' \in History /\ hist'.told = hist.told /\ hist'.gaps = TRUE /\ hist.told \in Nat
  <2>1. hist.told \in Nat
    BY <1>1, LateNat DEF History, Messages
  <2>2. hist' \in History /\ hist'.told = hist.told /\ hist'.gaps = TRUE
    BY <1>1, <1>2 DEF History
  <2> QED BY <2>1, <2>2
<1>4. hist'.told >= hist.told
  BY <1>3
<1>5. /\ \A v : True(v, hist) => True(v, hist')
      /\ \A s : Sound(s, hist) => Sound(s, hist')
  BY <1>1, <1>3, <1>4, TrueStays
<1>6. True(m, hist')
  BY <1>1, <1>5, MarkedTrue DEF Sound, RunState
<1> HIDE DEF m
<1>7. True(r, hist')
  BY <1>1, <1>5, <1>6 DEF True, WakeRecord
<1> HIDE DEF r
<1>8. True(g, hist')
  BY <1>3, <1>7 DEF True, WakeRecord
<1> HIDE DEF g
<1>9. Sound(Keep(d, "put", g), hist')
  BY <1>1, <1>5, <1>8, KeepSound
<1> QED BY <1>1, <1>2, <1>3, <1>4, <1>5, <1>9, DoKeepsRuns

\* A pass begins, is lost, fails or ends.
LEMMA PassSound ==
    ASSUME SoundInv, NEW d \in Slots,
           Acquire(d) \/ Paused(d) \/ Lost(d) \/ Error(d) \/ Stop(d)
    PROVE  RunsOK'
<1>1. RunsOK /\ True(wake, hist) /\ agent.reg \in Procs
  BY DEF SoundInv, RunsOK, WorldOK
<1>2. UNCHANGED <<wake, hist>>
  BY DEF Acquire, Paused, Lost, Error, Stop
<1>3. Do(d, Pass) \/ Do(d, Stopped) \/ Do(d, [Pass EXCEPT !.pc = "look", !.snap = agent.reg])
  BY DEF Acquire, Paused, Lost, Error, Stop
<1> QED BY <1>1, <1>2, <1>3, StoppedSound, QuietStep

\* What the steps of a run do to everything else is typed.
LEMMA RunKeepsWorld ==
    ASSUME SoundInv, NEW d \in Slots, DispStep(d) \/ Error(d) \/ Stop(d)
    PROVE  WorldOK'
<1>a. WorldOK /\ 0 \in Nat /\ 1 \in Nat /\ 0 \in 0 .. Retry
  BY LateNat DEF SoundInv
<1>1. CASE Paused(d)
  <2>1. UNCHANGED <<agent, swap, lease, ample, since>>
    BY <1>1 DEF Paused
  <2>2. CASE UNCHANGED <<queue, age, pause, spent>>
    BY <1>a, <2>1, <2>2 DEF WorldOK
  <2>3. CASE EndPause /\ UNCHANGED spent
    BY <1>a, <2>1, <2>3, PublishedType DEF EndPause, WorldOK
  <2>4. CASE Fault(1) /\ UNCHANGED <<queue, age, pause>>
    BY <1>a, <2>1, <2>4, FaultType DEF WorldOK
  <2> QED BY <1>1, <2>2, <2>3, <2>4 DEF Paused
<1>2. CASE Reserve(d)
  <2>1. UNCHANGED <<queue, age, agent, pause, swap, lease, ample, spent>>
        /\ (since' = 0 \/ since' = since)
    BY <1>2 DEF Reserve, world
  <2> QED BY <1>a, <2>1 DEF WorldOK
<1>3. CASE Error(d) \/ Stop(d)
  <2>1. UNCHANGED <<queue, age, agent, pause, swap, ample, since>> /\ Fault(1)
        /\ lease' \in {lease, None}
    BY <1>3 DEF Error, Stop, world
  <2> QED BY <1>a, <2>1, FaultType DEF WorldOK
<1>4. CASE \/ Acquire(d) \/ Look(d) \/ Judge(d) \/ Recheck(d) \/ Confirm(d) \/ Type(d) \/ Put(d)
           \/ EscalatePending(d) \/ EscalateCmd(d) \/ EscalateNotify(d) \/ GapNotify(d) \/ Lost(d)
  <2>1. UNCHANGED <<queue, age, agent, pause, swap, since, spent>> /\ lease' \in {lease, d}
        /\ ample' \in {ample, TRUE}
    BY <1>4 DEF Acquire, Look, Judge, Recheck, Confirm, Type, Put, EscalatePending, EscalateCmd,
                EscalateNotify, GapNotify, Lost, world
  <2> QED BY <1>a, <2>1 DEF WorldOK
<1> QED BY <1>1, <1>2, <1>3, <1>4 DEF DispStep

\* Nothing is claimed, and every run is stopped, at first.
LEMMA SoundInit == Init => SoundInv
<1> SUFFICES ASSUME Init PROVE SoundInv
  OBVIOUS
<1>1. WorldOK
  BY LateNat, DispatchAssumption DEF Init, WorldOK, Messages, Procs, Late
<1>2. hist \in History
  BY LateNat DEF Init, History, Messages
<1>3. True(wake, hist) /\ \A d \in Slots : disp[d] = Stopped /\ Sound(disp[d], hist)
  BY NoWakeTrue, StoppedSound DEF Init
<1>4. disp \in [Slots -> RunState]
  BY <1>3 DEF Init, Sound
<1> QED BY <1>1, <1>2, <1>3, <1>4 DEF SoundInv, RunsOK

\* Every step, of the world, of a run or of the lease, keeps what is sound.
LEMMA SoundStep == SoundInv /\ [Next]_vars => SoundInv'
<1> SUFFICES ASSUME SoundInv, [Next]_vars PROVE SoundInv'
  OBVIOUS
<1>1. ASSUME \/ Publish \/ Arm \/ Take \/ Ack \/ Disarm \/ Die \/ Relaunch \/ Register \/ Trim \/ Tick
             \/ SetPause \/ PauseDue \/ Resume \/ BeginSwap \/ SwapStep \/ IntentExpires
      PROVE  SoundInv'
  BY <1>1, WorldSound
<1>2. ASSUME Ebb \/ Expire \/ \E d \in Slots : Renew(d) PROVE SoundInv'
  <2>1. WorldOK /\ RunsOK /\ UNCHANGED <<disp, wake, hist>>
    BY <1>2 DEF Ebb, Expire, Renew, SoundInv
  <2>2. (IF disp[lease].pc = "off" THEN 0 ELSE 1) \in Nat
    OBVIOUS
  <2>3. UNCHANGED <<queue, age, agent, pause, swap, since>> /\ ample' \in BOOLEAN
        /\ lease' \in {lease, None}
    BY <1>2, <2>1 DEF Ebb, Expire, Renew, WorldOK, world
  <2>4. spent' \in [faults : 0 .. MaxFaults, pauses : 0 .. MaxPauses, swaps : 0 .. MaxSwaps]
    BY <1>2, <2>1, <2>2, FaultType DEF Ebb, Expire, Renew, WorldOK
  <2>5. WorldOK'
    BY <2>1, <2>3, <2>4 DEF WorldOK
  <2> QED BY <2>1, <2>5, WorldKeepsRuns DEF SoundInv
<1>3. ASSUME NEW d \in Slots, DispStep(d) \/ Error(d) \/ Stop(d) PROVE SoundInv'
  <2>1. WorldOK'
    BY <1>3, RunKeepsWorld
  <2>2. RunsOK'
    BY <1>3, PassSound, LookSound, JudgeSound, ReserveSound, TypeSound, PutSound,
       EscalateNotifySound, GapNotifySound DEF DispStep
  <2> QED BY <2>1, <2>2 DEF SoundInv
<1>4. CASE UNCHANGED vars
  BY <1>4 DEF vars, SoundInv, WorldOK, RunsOK
<1> QED BY <1>1, <1>2, <1>3, <1>4 DEF Next

\* Every reachable state is sound.
THEOREM SoundCorrect == Spec => []SoundInv
BY SoundInit, SoundStep, PTL DEF Spec

\* Every variable has its type, whatever crashes, fails, stalls or is swapped;
\* among others the tries on the record stay within MaxTries.
THEOREM TypeCorrect == Spec => []TypeOK
BY SoundCorrect, SoundIsTyped, PTL

\* An escalation that the record, or any run, holds for sent was sent, for every
\* message it covers, and so for a gap (loop.go:740-783, 819-833).
THEOREM ClaimsAreTrue == Spec => [](EscalatedWasTold /\ GapFlagIsTrue /\ InHandIsTrue)
<1>1. SoundInv => EscalatedWasTold /\ GapFlagIsTrue /\ InHandIsTrue
  BY DEF SoundInv, RunsOK, Sound, True, EscalatedWasTold, GapFlagIsTrue, InHandIsTrue
<1> QED BY <1>1, SoundCorrect, PTL

-----------------------------------------------------------------------------
(* The fence: what the lease makes true of the run that holds it.           *)

\* Where a run has read the record and has not yet changed what it has in hand.
Looked == {"judge", "recheck", "reserve", "confirm", "type", "cmd", "notify", "gap"}
Known(r, w) == r.pc \in Looked => r.w = w
\* Where a run has reserved, and its prompt is still to be typed.
Bound == {"confirm", "type"}
TypesHeld == \A d \in Slots : At(d, "type") /\ ~MayStall => Holds(d)
FenceInv ==
    /\ lease \in Slots => Known(disp[lease], wake)
    /\ TypesHeld /\ TimeIsLeft
    /\ IntentStands
    /\ ~MayStall => NoPromptIntoSwap

\* What follows a write, a verdict or a look is known if what it is left with is.
LEMMA EndOfActKnown ==
    ASSUME NEW d \in Slots, disp[d] \in RunState, NEW w
    PROVE  Known(EndOfAct(d, w), w) /\ EndOfAct(d, w).pc \notin Bound
<1>1. Pass.pc = "pass" /\ "pass" \notin Looked
  BY DEF Pass, Stopped, Looked
<1>2. [disp[d] EXCEPT !.pc = "gap", !.w = w].w = w /\ [disp[d] EXCEPT !.pc = "gap", !.w = w].pc = "gap"
  BY DEF RunState
<1> QED BY <1>1, <1>2 DEF EndOfAct, Known, Bound

\* A run that keeps a record has that record in hand.
LEMMA KeepKnown ==
    ASSUME NEW d, NEW pc, NEW w
    PROVE  Keep(d, pc, w).pc = pc /\ Keep(d, pc, w).w = w /\ Known(Keep(d, pc, w), w)
BY DEF Keep, Stopped, Known

\* A write that is skipped leaves the run with the record it had.
LEMMA PutNextKnown ==
    ASSUME NEW d \in Slots, disp[d] \in RunState, NEW w
    PROVE  Known(PutNext(d, w), disp[d].w) /\ PutNext(d, w).pc \notin Bound
<1>1. Keep(d, "put", w).pc = "put" /\ "put" \notin Looked /\ "put" \notin Bound
  BY KeepKnown DEF Looked, Bound
<1> QED BY <1>1, EndOfActKnown DEF PutNext, Known

\* No verdict makes a run forget the record it read, or reserve or type at once.
LEMMA ActKnown ==
    ASSUME NEW d \in Slots, disp[d] \in RunState, NEW v \in Verdicts,
           NEW next \in {"recheck", "reserve"}
    PROVE  Known(act(d, v, next), disp[d].w) /\ act(d, v, next).pc \notin Bound
<1>1. CASE v.act = "none"
  BY <1>1, EndOfActKnown DEF act
<1>2. CASE v.act = "defer"
  BY <1>2, PutNextKnown DEF act
<1>3. CASE v.act = "escalate"
  <2>1. PICK r : act(d, v, next) = IF r = disp[d].w THEN Keep(d, "cmd", r) ELSE Keep(d, "pending", r)
    BY <1>3 DEF act, escalate
  <2>2. "pending" \notin Looked /\ {"pending", "cmd"} \cap Bound = {}
    BY DEF Looked, Bound
  <2> QED BY <2>1, <2>2, KeepKnown DEF Known
<1>4. CASE v.act = "prompt"
  <2>1. act(d, v, next) = [disp[d] EXCEPT !.pc = next, !.reset = v.reset]
    BY <1>4 DEF act
  <2> QED BY <2>1 DEF RunState, Known, Bound
<1> QED BY <1>1, <1>2, <1>3, <1>4 DEF Verdicts

\* A run that holds the lease and knows the record still does after its step: it
\* alone writes, and it writes what it has in hand.
LEMMA StepKnown ==
    ASSUME SoundInv, NEW d \in Slots, DispStep(d) \/ Error(d) \/ Stop(d),
           Holds(d) => Known(disp[d], wake)
    PROVE  lease' = d => Known(disp'[d], wake')
<1>1. disp \in [Slots -> RunState] /\ disp[d] \in RunState /\ disp[d].w \in WakeRecord
  BY DEF SoundInv, RunsOK, RunState
<1>2. \A next : Do(d, next) => disp'[d] = next
  BY <1>1 DEF Do
<1> SUFFICES ASSUME lease' = d PROVE Known(disp'[d], wake')
  OBVIOUS
<1>3. CASE Acquire(d) \/ Paused(d) \/ Lost(d) \/ Error(d) \/ Stop(d)
  <2>1. Do(d, Pass) \/ Do(d, Stopped) \/ Do(d, [Pass EXCEPT !.pc = "look", !.snap = agent.reg])
    BY <1>3 DEF Acquire, Paused, Lost, Error, Stop
  <2>2. Pass.pc = "pass" /\ Stopped.pc = "off" /\ [Pass EXCEPT !.pc = "look", !.snap = agent.reg].pc = "look"
    BY DEF Pass, Stopped
  <2>3. disp'[d].pc \in {"pass", "off", "look"}
    BY <1>2, <2>1, <2>2
  <2> QED BY <2>3 DEF Known, Looked
<1>4. CASE Look(d)
  <2> DEFINE Here(x) == [disp[d] EXCEPT !.x = x, !.w = wake]
  <2>1. UNCHANGED wake
    BY <1>4 DEF Look
  <2>2. PICK x, c : \/ Do(d, Pass)
                    \/ Do(d, [Here(x) EXCEPT !.pc = "put", !.w = c])
                    \/ Do(d, [Here(x) EXCEPT !.pc = "gap"])
                    \/ Do(d, [Here(x) EXCEPT !.pc = "judge"])
    BY <1>4, ZenonT(40) DEF Look
  <2>3. /\ [Here(x) EXCEPT !.pc = "put", !.w = c].pc = "put"
        /\ [Here(x) EXCEPT !.pc = "gap"].w = wake
        /\ [Here(x) EXCEPT !.pc = "judge"].w = wake
        /\ Pass.pc = "pass"
    BY <1>1 DEF RunState, Pass, Stopped
  <2> HIDE DEF Here
  <2> QED BY <1>2, <2>1, <2>2, <2>3 DEF Known, Looked
<1>5. CASE Judge(d) \/ Recheck(d)
  <2>1. Holds(d) /\ UNCHANGED wake /\ disp[d].w = wake
    BY <1>5 DEF Judge, Recheck, At, Holds, Known, Looked
  <2>2. \A in : \A next \in {"recheck", "reserve"} :
          Known(act(d, Decide(disp[d].x, disp[d].snap, disp[d].w, in), next), wake)
    BY <1>1, <2>1, ActKnown, DecideVerdict
  <2>3. Known(EndOfAct(d, disp[d].w), wake)
    BY <1>1, <2>1, EndOfActKnown
  <2>4. CASE Judge(d)
    <3>1. PICK in : Do(d, act(d, Decide(disp[d].x, disp[d].snap, disp[d].w, in), "recheck"))
      BY <2>4 DEF Judge
    <3> QED BY <1>2, <2>1, <2>2, <3>1
  <2>5. CASE Recheck(d)
    <3>1. CASE Do(d, EndOfAct(d, disp[d].w))
      BY <1>2, <2>1, <2>3, <3>1
    <3>2. CASE ~swap.intent
      <4>1. PICK in : Do(d, act(d, Decide(disp[d].x, disp[d].snap, disp[d].w, in), "reserve"))
        BY <2>5, <3>2 DEF Recheck
      <4> QED BY <1>2, <2>1, <2>2, <4>1
    <3> QED BY <2>5, <3>1, <3>2 DEF Recheck
  <2> QED BY <1>5, <2>4, <2>5
<1>6. CASE Reserve(d)
  <2>1. disp[d].w = wake
    BY <1>6 DEF Reserve, At, Holds, Known, Looked
  <2>2. CASE Do(d, EndOfAct(d, disp[d].w)) /\ UNCHANGED wake
    BY <1>1, <1>2, <2>1, <2>2, EndOfActKnown
  <2>3. CASE wake' = Reserved(d) /\ Do(d, Keep(d, "confirm", Reserved(d)))
    BY <1>2, <2>3, KeepKnown
  <2>4. CASE /\ UNCHANGED wake
             /\ Do(d, PutNext(d, [base(d, wake, disp[d].reset) EXCEPT !.state = "deferred"]))
    BY <1>1, <1>2, <2>1, <2>4, PutNextKnown
  <2> QED BY <1>6, <2>2, <2>3, <2>4 DEF Reserve
<1>7. CASE Confirm(d) \/ EscalateCmd(d)
  <2>1. disp[d].w = wake /\ UNCHANGED wake
    BY <1>7 DEF Confirm, EscalateCmd, At, Holds, Known, Looked
  <2>2. PICK w : Do(d, Keep(d, "put", w)) \/ Do(d, Keep(d, "type", wake)) \/ Do(d, Keep(d, "notify", wake))
    BY <1>7, <2>1 DEF Confirm, EscalateCmd
  <2> QED BY <1>2, <2>1, <2>2, KeepKnown DEF Known, Looked
<1>8. CASE Put(d) \/ EscalatePending(d)
  <2>1. wake' = disp[d].w /\ (Do(d, EndOfAct(d, disp[d].w)) \/ Do(d, Keep(d, "cmd", disp[d].w)))
    BY <1>8 DEF Put, EscalatePending
  <2> QED BY <1>1, <1>2, <2>1, EndOfActKnown, KeepKnown
<1>9. CASE Type(d) \/ EscalateNotify(d) \/ GapNotify(d)
  <2>1. PICK w : Do(d, Keep(d, "put", w))
    BY <1>9, Zenon DEF Type, EscalateNotify, GapNotify
  <2> QED BY <1>2, <2>1, KeepKnown DEF Known, Looked
<1> QED BY <1>3, <1>4, <1>5, <1>6, <1>7, <1>8, <1>9 DEF DispStep

\* Only a run that holds an ample lease comes to its reservation, and only one that
\* holds the lease, after its reservation and with no swap under way, to type.
LEMMA StepTypes ==
    ASSUME SoundInv, FenceInv, NEW d \in Slots, DispStep(d) \/ Error(d) \/ Stop(d),
           disp'[d].pc \in Bound
    PROVE  /\ Holds(d) /\ UNCHANGED <<lease, ample>>
           /\ \/ Confirm(d) /\ ~swap.intent
              \/ Reserve(d) /\ ample /\ disp'[d].pc = "confirm"
<1>1. disp[d] \in RunState /\ disp \in [Slots -> RunState] /\ disp[d].w \in WakeRecord
  BY DEF SoundInv, RunsOK, RunState
<1>2. \A next : Do(d, next) => disp'[d] = next
  BY <1>1 DEF Do
<1>3. ~(Acquire(d) \/ Paused(d) \/ Lost(d) \/ Error(d) \/ Stop(d))
  <2> SUFFICES ASSUME Acquire(d) \/ Paused(d) \/ Lost(d) \/ Error(d) \/ Stop(d) PROVE FALSE
    OBVIOUS
  <2>1. Do(d, Pass) \/ Do(d, Stopped) \/ Do(d, [Pass EXCEPT !.pc = "look", !.snap = agent.reg])
    BY DEF Acquire, Paused, Lost, Error, Stop
  <2>2. Pass.pc = "pass" /\ Stopped.pc = "off" /\ [Pass EXCEPT !.pc = "look", !.snap = agent.reg].pc = "look"
    BY DEF Pass, Stopped
  <2> QED BY <1>2, <2>1, <2>2 DEF Bound
<1>4. ~Look(d)
  <2> SUFFICES ASSUME Look(d) PROVE FALSE
    OBVIOUS
  <2>1. PICK x, c : \/ Do(d, Pass)
                    \/ Do(d, [[disp[d] EXCEPT !.x = x, !.w = wake] EXCEPT !.pc = "put", !.w = c])
                    \/ Do(d, [[disp[d] EXCEPT !.x = x, !.w = wake] EXCEPT !.pc = "gap"])
                    \/ Do(d, [[disp[d] EXCEPT !.x = x, !.w = wake] EXCEPT !.pc = "judge"])
    BY ZenonT(40) DEF Look
  <2>2. /\ [[disp[d] EXCEPT !.x = x, !.w = wake] EXCEPT !.pc = "put", !.w = c].pc = "put"
        /\ [[disp[d] EXCEPT !.x = x, !.w = wake] EXCEPT !.pc = "gap"].pc = "gap"
        /\ [[disp[d] EXCEPT !.x = x, !.w = wake] EXCEPT !.pc = "judge"].pc = "judge"
        /\ Pass.pc = "pass"
    BY <1>1 DEF RunState, Pass, Stopped
  <2> QED BY <1>2, <2>1, <2>2 DEF Bound
<1>5. ~(Judge(d) \/ Recheck(d))
  <2> SUFFICES ASSUME Judge(d) \/ Recheck(d) PROVE FALSE
    OBVIOUS
  <2>1. \A in : \A next \in {"recheck", "reserve"} :
          act(d, Decide(disp[d].x, disp[d].snap, disp[d].w, in), next).pc \notin Bound
    BY <1>1, ActKnown, DecideVerdict
  <2>2. EndOfAct(d, disp[d].w).pc \notin Bound
    BY <1>1, EndOfActKnown
  <2>3. CASE Judge(d)
    <3>1. PICK in : Do(d, act(d, Decide(disp[d].x, disp[d].snap, disp[d].w, in), "recheck"))
      BY <2>3 DEF Judge
    <3> QED BY <1>2, <2>1, <3>1
  <2>4. CASE Recheck(d)
    <3>1. CASE Do(d, EndOfAct(d, disp[d].w))
      BY <1>2, <2>2, <3>1
    <3>2. CASE ~swap.intent
      <4>1. PICK in : Do(d, act(d, Decide(disp[d].x, disp[d].snap, disp[d].w, in), "reserve"))
        BY <2>4, <3>2 DEF Recheck
      <4> QED BY <1>2, <2>1, <4>1
    <3> QED BY <2>4, <3>1, <3>2 DEF Recheck
  <2> QED BY <2>3, <2>4
<1>6. ASSUME Reserve(d) PROVE ample /\ disp'[d].pc = "confirm"
  <2>1. \A w : EndOfAct(d, w).pc \notin Bound /\ PutNext(d, w).pc \notin Bound
                /\ Keep(d, "confirm", w).pc = "confirm"
    BY <1>1, EndOfActKnown, PutNextKnown, KeepKnown
  <2>2. \/ Do(d, EndOfAct(d, disp[d].w))
        \/ Do(d, PutNext(d, [base(d, wake, disp[d].reset) EXCEPT !.state = "deferred"]))
        \/ ample /\ Do(d, Keep(d, "confirm", Reserved(d)))
    BY <1>6 DEF Reserve
  <2> QED BY <1>2, <2>1, <2>2
<1>7. ~(\/ Put(d) \/ EscalatePending(d) \/ EscalateCmd(d) \/ Type(d) \/ EscalateNotify(d)
        \/ GapNotify(d))
  <2> SUFFICES ASSUME \/ Put(d) \/ EscalatePending(d) \/ EscalateCmd(d) \/ Type(d)
                      \/ EscalateNotify(d) \/ GapNotify(d)
               PROVE  FALSE
    OBVIOUS
  <2>1. PICK w : \/ Do(d, EndOfAct(d, disp[d].w))
                 \/ Do(d, Keep(d, "put", w)) \/ Do(d, Keep(d, "cmd", w)) \/ Do(d, Keep(d, "notify", w))
    BY Zenon DEF Put, EscalatePending, EscalateCmd, Type, EscalateNotify, GapNotify
  <2>2. EndOfAct(d, disp[d].w).pc \notin Bound
    BY <1>1, EndOfActKnown
  <2> QED BY <1>2, <2>1, <2>2, KeepKnown DEF Bound
<1>8. Confirm(d) \/ Reserve(d)
  BY <1>3, <1>4, <1>5, <1>7 DEF DispStep
<1>9. ASSUME Confirm(d) PROVE ~swap.intent
  BY <1>2, <1>9, KeepKnown DEF Confirm, Bound
<1>10. Holds(d) /\ UNCHANGED <<lease, ample>>
  BY <1>8 DEF Confirm, Reserve
<1> QED BY <1>6, <1>8, <1>9, <1>10

\* Nobody holds the lease, and no swap is under way, at first.
LEMMA FenceInit == Init => FenceInv
<1> SUFFICES ASSUME Init PROVE FenceInv
  OBVIOUS
<1>1. \A d \in Slots : disp[d].pc = "off"
  BY DEF Init, Stopped
<1>2. lease = None /\ None \notin Slots /\ swap.pc = "off"
  BY DispatchAssumption DEF Init
<1> QED BY <1>1, <1>2 DEF FenceInv, TypesHeld, TimeIsLeft, IntentStands, NoPromptIntoSwap, At

\* Every step keeps what the fence makes true.
LEMMA FenceStep == SoundInv /\ FenceInv /\ [Next]_vars => FenceInv'
<1> SUFFICES ASSUME SoundInv, FenceInv, [Next]_vars PROVE FenceInv'
  OBVIOUS
<1>0. WorldOK /\ None \notin Slots /\ disp \in [Slots -> RunState] /\ (swap.pc # "off" => swap.intent)
  BY DispatchAssumption DEF SoundInv, RunsOK, FenceInv, IntentStands
<1>t. ~MayStall => \A d \in Slots : At(d, "type") => wake.state = "prompting" /\ lease = d
  <2> SUFFICES ASSUME ~MayStall, NEW d \in Slots, At(d, "type")
               PROVE  wake.state = "prompting" /\ lease = d
    OBVIOUS
  <2>1. lease = d
    BY DEF FenceInv, TypesHeld, Holds
  <2>2. disp[d].w = wake
    BY <2>1 DEF FenceInv, Known, Looked, At
  <2>3. disp[d].w.state = "prompting"
    BY DEF SoundInv, RunsOK, Sound, At
  <2> QED BY <2>1, <2>2, <2>3
<1>1. ASSUME \/ Publish \/ Arm \/ Take \/ Ack \/ Disarm \/ Die \/ Relaunch \/ Register \/ Trim \/ Tick
             \/ SetPause \/ PauseDue \/ Resume
             \/ UNCHANGED vars
      PROVE  FenceInv'
  <2>1. UNCHANGED <<swap, lease, ample, wake, disp>>
    BY <1>1 DEF Publish, Arm, Take, Ack, Disarm, Die, Relaunch, Register, Trim, Tick, SetPause,
                PauseDue, Resume, vars
  <2> QED BY <2>1 DEF FenceInv, TypesHeld, TimeIsLeft, IntentStands, NoPromptIntoSwap, Known, At, Holds
<1>2. ASSUME BeginSwap \/ SwapStep \/ IntentExpires PROVE FenceInv'
  <2>1. UNCHANGED <<lease, ample, wake, disp>>
    BY <1>2 DEF BeginSwap, SwapStep, SwapCheck, ClosePane, Spawn, EndSwap, SwapDies, IntentExpires
  <2>2. (swap'.pc # "off" => swap'.intent)
        /\ (swap'.pc \in {"close", "spawn", "proof"} =>
              swap.pc \in {"close", "spawn", "proof"} \/ wake.state # "prompting")
    BY <1>2 DEF BeginSwap, SwapStep, SwapCheck, ClosePane, Spawn, EndSwap, SwapDies, IntentExpires, SwapGo
  <2>3. ~MayStall => NoPromptIntoSwap'
    BY <1>t, <2>1, <2>2 DEF NoPromptIntoSwap, FenceInv, At
  <2> QED BY <2>1, <2>2, <2>3 DEF FenceInv, TypesHeld, TimeIsLeft, IntentStands, Known, At, Holds
<1>3. ASSUME Ebb \/ Expire \/ \E d \in Slots : Renew(d) PROVE FenceInv'
  <2>1. UNCHANGED <<swap, wake, disp>> /\ lease' \in {lease, None}
    BY <1>3 DEF Ebb, Expire, Renew, world
  <2>2. TimeIsLeft'
    <3>1. CASE Ebb
      BY <3>1 DEF Ebb, TimeIsLeft
    <3>2. CASE Expire
      BY <3>2 DEF Expire, TimeIsLeft
    <3>3. CASE \E d \in Slots : Renew(d)
      BY <3>3 DEF Renew, TimeIsLeft
    <3> QED BY <1>3, <3>1, <3>2, <3>3
  <2>3. TypesHeld'
    <3> SUFFICES ASSUME NEW e \in Slots, disp[e].pc = "type", ~MayStall PROVE lease' = e
      BY <2>1 DEF TypesHeld, At, Holds
    <3>1. lease = e /\ ample
      BY <1>0, <1>t DEF At, FenceInv, TimeIsLeft
    <3> QED BY <1>3, <3>1 DEF Ebb, Expire, Renew
  <2> QED BY <1>0, <2>1, <2>2, <2>3 DEF FenceInv, IntentStands, NoPromptIntoSwap, At
<1>4. ASSUME NEW d \in Slots, DispStep(d) \/ Error(d) \/ Stop(d) PROVE FenceInv'
  <2>1. /\ UNCHANGED swap
        /\ lease' \in {lease, None} \/ (lease = None /\ lease' = d)
        /\ lease' # lease => lease = None \/ lease = d
    BY <1>4 DEF DispStep, Acquire, Paused, Look, Judge, Recheck, Reserve, Confirm, Type, Put,
                EscalatePending, EscalateCmd, EscalateNotify, GapNotify, Lost, Error, Stop, Holds, world
  <2>2. \A e \in Slots \ {d} : disp'[e] = disp[e]
    <3>1. PICK next : Do(d, next)
      BY <1>4 DEF DispStep, Acquire, Paused, Look, Judge, Recheck, Reserve, Confirm, Type, Put,
                  EscalatePending, EscalateCmd, EscalateNotify, GapNotify, Lost, Error, Stop
    <3> QED BY <1>0, <3>1 DEF Do
  <2>3. wake' = wake \/ Holds(d)
    BY <1>4 DEF DispStep, Acquire, Paused, Look, Judge, Recheck, Reserve, Confirm, Type, Put,
                EscalatePending, EscalateCmd, EscalateNotify, GapNotify, Lost, Error, Stop
  <2>4. lease' \in Slots => Known(disp'[lease'], wake')
    <3>1. CASE lease' = d
      BY <1>4, <3>1, StepKnown DEF FenceInv, Holds
    <3>2. CASE lease' # d /\ lease' \in Slots
      BY <1>0, <2>1, <2>2, <2>3, <3>2 DEF FenceInv, Holds
    <3> QED BY <3>1, <3>2
  <2>5. disp'[d].pc \in Bound => /\ Holds(d) /\ UNCHANGED <<lease, ample>>
                                 /\ \/ Confirm(d) /\ ~swap.intent
                                    \/ ample /\ disp'[d].pc = "confirm"
    BY <1>4, StepTypes
  <2>6. TypesHeld'
    <3> SUFFICES ASSUME NEW e \in Slots, disp'[e].pc = "type", ~MayStall PROVE lease' = e
      BY DEF TypesHeld, At, Holds
    <3>1. CASE e = d
      BY <2>5, <3>1 DEF Holds, Bound
    <3>2. CASE e # d
      BY <1>0, <1>t, <2>1, <2>2, <3>2 DEF At
    <3> QED BY <3>1, <3>2
  <2>7. ~MayStall => NoPromptIntoSwap'
    <3> SUFFICES ASSUME ~MayStall, swap.pc \in {"close", "spawn", "proof"}, NEW e \in Slots,
                        disp'[e].pc = "type"
                 PROVE  FALSE
      BY <2>1 DEF NoPromptIntoSwap, At
    <3>1. CASE e = d
      BY <1>0, <2>5, <3>1 DEF Bound
    <3>2. CASE e # d
      BY <2>2, <3>2 DEF FenceInv, NoPromptIntoSwap, At
    <3> QED BY <3>1, <3>2
  <2>8. IntentStands'
    BY <2>1 DEF FenceInv, IntentStands
  <2>9. TimeIsLeft'
    <3> SUFFICES ASSUME ~MayStall, lease' # None, disp'[lease'].pc \in Bound PROVE ample'
      BY DEF TimeIsLeft, Bound
    <3>1. CASE lease' = d
      <4>1. Holds(d) /\ ample' = ample /\ (ample \/ Confirm(d))
        BY <2>5, <3>1
      <4>2. Confirm(d) => ample
        BY <1>0, <4>1 DEF Confirm, At, Holds, FenceInv, TimeIsLeft
      <4> QED BY <4>1, <4>2
    <3>2. CASE lease' # d
      <4>1. lease' = lease /\ lease \in Slots \ {d} /\ disp'[lease'] = disp[lease]
        BY <1>0, <2>1, <2>2, <3>2 DEF WorldOK
      <4>2. ample
        BY <1>0, <4>1 DEF FenceInv, TimeIsLeft, Bound
      <4>3. ample' \in {ample, TRUE}
        BY <1>4 DEF DispStep, Acquire, Paused, Look, Judge, Recheck, Reserve, Confirm, Type, Put,
                    EscalatePending, EscalateCmd, EscalateNotify, GapNotify, Lost, Error, Stop
      <4> QED BY <4>2, <4>3
    <3> QED BY <3>1, <3>2
  <2> QED BY <2>4, <2>6, <2>7, <2>8, <2>9 DEF FenceInv
<1> QED BY <1>1, <1>2, <1>3, <1>4 DEF Next

\* Soundness and the fence together are inductive.
LEMMA FenceCorrect == Spec => [](SoundInv /\ FenceInv)
BY SoundInit, SoundStep, FenceInit, FenceStep, PTL DEF Spec

\* They are the invariant that the runs check, in parts.
LEMMA InvFollows == SoundInv /\ FenceInv => DispatchInv
<1> SUFFICES ASSUME SoundInv, FenceInv PROVE DispatchInv
  OBVIOUS
<1>1. \A d \in Slots : Sound(disp[d], hist)
  BY DEF SoundInv, RunsOK
<1>2. ReadsInOrder /\ TryIsLeft
  BY <1>1 DEF Sound, ReadsInOrder, TryIsLeft, At
<1>3. EscalatedWasTold /\ GapFlagIsTrue /\ InHandIsTrue
  BY <1>1 DEF SoundInv, RunsOK, Sound, True, EscalatedWasTold, GapFlagIsTrue, InHandIsTrue
<1>4. ReservedInHand
  BY <1>1 DEF Sound, FenceInv, TypesHeld, ReservedInHand, At, Holds
<1>5. HolderKnowsRecord
  BY DispatchAssumption DEF SoundInv, WorldOK, FenceInv, Known, Looked, HolderKnowsRecord
<1> QED BY <1>2, <1>3, <1>4, <1>5 DEF FenceInv, DispatchInv

\* The whole inductive invariant holds, for any number of dispatchers, messages,
\* processes, tries, pauses, swaps and faults.
THEOREM InvCorrect == Spec => []DispatchInv
BY FenceCorrect, InvFollows, PTL

\* The fence works: a run that holds the lease never writes over a record it has
\* not read, whatever runs lost the lease and still live (dispatchkeys.go).
THEOREM FenceWorks == Spec => []HolderKnowsRecord
BY InvCorrect, PTL DEF DispatchInv

\* If a prompt is typed within the lease time left at its reservation, no prompt
\* lands in the pane a swap closes or in the new one before its proof
\* (swap.go:265-279, loop.go:710-720).
THEOREM SwapIsQuiet == ASSUME ~MayStall PROVE Spec => []NoPromptIntoSwap
<1>1. DispatchInv => NoPromptIntoSwap
  BY DEF DispatchInv
<1> QED BY <1>1, InvCorrect, PTL

\* Under the same condition a prompt is typed only by the run that holds the lease,
\* with its try charged and its own reservation the record on the bus: the check
\* of MinPTTL at the reservation is what keeps the lease until then.
THEOREM TypesReserved == ASSUME ~MayStall PROVE Spec => []TypesUnderReservation
<1>1. DispatchInv => TypesUnderReservation
  <2> SUFFICES ASSUME DispatchInv, NEW d \in Slots, At(d, "type")
               PROVE  /\ Holds(d) /\ wake = disp[d].w
                      /\ wake.state = "prompting" /\ wake.tries > 0
    BY DEF TypesUnderReservation
  <2>1. Holds(d) /\ disp[d].w.state = "prompting" /\ disp[d].w.tries > 0
    BY DEF DispatchInv, ReservedInHand, At
  <2>2. lease # None /\ disp[lease].pc = "type"
    BY <2>1, DispatchAssumption DEF Holds, At
  <2>3. disp[d].w = wake
    BY <2>1, <2>2 DEF DispatchInv, HolderKnowsRecord, Holds
  <2> QED BY <2>1, <2>3
<1> QED BY <1>1, InvCorrect, PTL

-----------------------------------------------------------------------------
(* The prompts: how many were typed since the agent moved on or somebody    *)
(* was told, against the tries of the record on the bus.                    *)

\* A reservation that is still to be typed.
Pending(r) == IF r.pc \in {"confirm", "type"} THEN 1 ELSE 0
Charged == hist.typed + IF lease \in Slots THEN Pending(disp[lease]) ELSE 0

\* The agent moved on since record w, as what was read (x, snap) shows.
Moved(w, x, snap) == Progressed(w, x) \/ IdentityChanged(w, snap)

\* n prompts are within record w: one more than its tries, the one of a pass that
\* looked before the agent moved; where a move is still to be seen, that one only.
Within(w, q, g, n) ==
    /\ n <= 1 \/ (~Moved(w, q, g) /\ n <= w.tries + 1)
    /\ w.escalated = "true" \/ w.state = "none" => n = 0

\* A run that has looked, and nothing moved since.
Judging == {"judge", "recheck", "reserve"}
Fresh(r, q, g) ==
    /\ r.snap = g
    /\ r.pc \in Judging => r.x.delivered = q.delivered /\ r.x.acked = q.acked
Resets(w, x, snap, reset) ==
    IF reset THEN Moved(w, x, snap) \/ w.escalated = "true" ELSE ~Moved(w, x, snap)
Charges(r, q, g, n) ==
    /\ r.pc \in Judging \cup {"look"} /\ ~Fresh(r, q, g) => n = 0
    /\ r.pc \in Judging => r.x.acked < q.published
    /\ r.pc = "reserve" => Resets(r.w, r.x, r.snap, r.reset)
    /\ r.pc \in {"put", "pending"} => Within(r.w, q, g, n)
    /\ r.pc \in {"confirm", "type"} => r.w.escalated = "no" /\ r.w.state # "none"
ChargeInv ==
    /\ Within(wake, queue, agent.reg, Charged)
    /\ ~Owed => Charged <= 1
    /\ \A d \in Slots : Holds(d) => Charges(disp[d], queue, agent.reg, hist.typed)
Sane == SoundInv /\ FenceInv /\ ChargeInv /\ ~MayStall

\* The numbers that are compared are numbers.
LEMMA Numbers ==
    ASSUME SoundInv
    PROVE  /\ hist.typed \in Nat /\ wake.tries \in Nat
           /\ queue.delivered \in Nat /\ queue.acked \in Nat /\ queue.published \in Nat
           /\ disp \in [Slots -> RunState]
           /\ \A d \in Slots : /\ disp[d] \in RunState /\ disp[d].w \in WakeRecord
                               /\ disp[d].w.tries \in Nat
                               /\ disp[d].x.delivered \in Nat /\ disp[d].x.acked \in Nat
           /\ agent.reg \in Procs
<1>1. hist.typed \in Nat /\ wake.tries \in Nat
  BY LateNat DEF SoundInv, RunsOK, History, True, WakeRecord
<1>2. queue.delivered \in Nat /\ queue.acked \in Nat /\ queue.published \in Nat /\ agent.reg \in Procs
  BY LateNat DEF SoundInv, WorldOK, Messages
<1>3. disp \in [Slots -> RunState]
  BY DEF SoundInv, RunsOK
<1>4. \A d \in Slots : /\ disp[d] \in RunState /\ disp[d].w \in WakeRecord
                       /\ disp[d].x \in LookResult
  BY <1>3 DEF RunState
<1>5. \A d \in Slots : disp[d].w.tries \in Nat /\ disp[d].x.delivered \in Nat /\ disp[d].x.acked \in Nat
  <2> SUFFICES ASSUME NEW d \in Slots
               PROVE  disp[d].w.tries \in Nat /\ disp[d].x.delivered \in Nat /\ disp[d].x.acked \in Nat
    OBVIOUS
  <2>1. disp[d].w.tries \in 0 .. MaxTries
    BY <1>4 DEF WakeRecord
  <2>2. disp[d].x.delivered \in Messages /\ disp[d].x.acked \in Messages
    BY <1>4 DEF LookResult
  <2> QED BY <2>1, <2>2, LateNat DEF Messages
<1> QED BY <1>1, <1>2, <1>3, <1>4, <1>5

\* Fewer prompts are within a record too; so are as many where nothing was
\* delivered or acknowledged.
LEMMA WithinLess ==
    ASSUME NEW w, w.tries \in Nat, NEW q, NEW p, NEW g, NEW n \in Nat, NEW k \in Nat, k <= n,
           Within(w, q, g, n), p.delivered = q.delivered, p.acked = q.acked
    PROVE  Within(w, p, g, k)
<1>1. Moved(w, p, g) <=> Moved(w, q, g)
  BY DEF Moved, Progressed, IdentityChanged
<1> QED BY <1>1 DEF Within

\* A record that keeps marks, process and tries has as many prompts within it.
LEMMA WithinSame ==
    ASSUME NEW w, NEW v, NEW q, NEW g, NEW n, Within(w, q, g, n),
           v.mark = w.mark, v.pending = w.pending, v.pid = w.pid, v.tries = w.tries,
           v.escalated = "true" => w.escalated = "true", v.state = "none" => w.state = "none"
    PROVE  Within(v, q, g, n)
<1>1. Moved(v, q, g) <=> Moved(w, q, g)
  BY DEF Moved, Progressed, IdentityChanged
<1> QED BY <1>1 DEF Within

\* The marks of a look at the queue as it is show no progress.
LEMMA MarkedStill ==
    ASSUME NEW w, w.mark \in Nat, NEW x, x.delivered \in Nat, x.acked \in Nat, NEW q,
           q.delivered = x.delivered, q.acked = x.acked, NEW v,
           v.mark = x.delivered + 1, v.pending = x.delivered - x.acked
    PROVE  ~Progressed(v, q)
BY DEF Progressed

\* A run that keeps nothing but its place charges nothing.
LEMMA IdleCharges ==
    ASSUME NEW r, NEW q, NEW g, NEW n,
           r.pc \in {"off", "pass", "cmd", "notify", "gap"}
    PROVE  Charges(r, q, g, n) /\ Pending(r) = 0
BY DEF Charges, Judging, Pending

\* The end of an act is such a place.
LEMMA EndOfActCharges ==
    ASSUME NEW d \in Slots, disp[d] \in RunState, NEW w, NEW q, NEW g, NEW n
    PROVE  Charges(EndOfAct(d, w), q, g, n) /\ Pending(EndOfAct(d, w)) = 0
<1>1. Pass.pc = "pass"
  BY DEF Pass, Stopped
<1>2. [disp[d] EXCEPT !.pc = "gap", !.w = w].pc = "gap"
  BY DEF RunState
<1>3. EndOfAct(d, w).pc \in {"pass", "gap"}
  BY <1>1, <1>2 DEF EndOfAct
<1> HIDE DEF EndOfAct
<1> QED BY <1>3, IdleCharges

\* A record is put, or committed, with the prompts within it.
LEMMA KeepCharges ==
    ASSUME NEW d, NEW w, NEW q, NEW g, NEW n, NEW pc \in {"put", "pending"}, Within(w, q, g, n)
    PROVE  Charges(Keep(d, pc, w), q, g, n) /\ Pending(Keep(d, pc, w)) = 0
<1>1. Keep(d, pc, w).pc = pc /\ Keep(d, pc, w).w = w
  BY KeepKnown
<1> QED BY <1>1 DEF Charges, Judging, Pending

\* So is one that is not put because it is there.
LEMMA PutNextCharges ==
    ASSUME NEW d \in Slots, disp[d] \in RunState, NEW w, NEW q, NEW g, NEW n, Within(w, q, g, n)
    PROVE  Charges(PutNext(d, w), q, g, n) /\ Pending(PutNext(d, w)) = 0
BY KeepCharges, EndOfActCharges DEF PutNext

\* Decide resets a record only where the agent moved or an escalation was sent,
\* and always where it moved (decide.go rules 3 to 5).
LEMMA DecideResets ==
    ASSUME NEW w \in WakeRecord, NEW x, NEW snap, NEW in
    PROVE  Resets(w, x, snap, Decide(x, snap, w, in).reset)
<1> DEFINE moved == IsReset(w, x, snap)
           rearmed == ~moved /\ w.escalated = "true" /\ w.cause /\ in = "ready"
           reset == moved \/ rearmed
           escalated == IF reset THEN "no" ELSE w.escalated
           tries == IF reset THEN 0 ELSE w.tries
           D == Decide(x, snap, w, in)
<1>1. reset \in BOOLEAN /\ w.cause \in BOOLEAN
  BY DEF WakeRecord
<1>2. Resets(w, x, snap, reset)
  BY <1>1 DEF Resets, Moved, IsReset, Reopened
<1>3. D = CASE escalated = "pending" ->
                 [Verdict("escalate", reset, w.cause) EXCEPT !.replay = TRUE]
            [] escalated = "true" -> Verdict("none", reset, FALSE)
            [] escalated = "no" /\ Exhausted(tries) -> Verdict("escalate", reset, FALSE)
            [] escalated = "no" /\ ~Exhausted(tries) /\ ~(moved \/ x.open) ->
                 Verdict("none", reset, FALSE)
            [] OTHER -> JudgePane(x, snap, in, reset)
  BY DEF Decide
<1>4. escalated \in {"no", "pending", "true"}
  BY DEF WakeRecord
<1> HIDE DEF moved, rearmed, reset, escalated, tries, D
<1>5. \A a, c : Verdict(a, reset, c).reset = reset
  BY DEF Verdict
<1>6. JudgePane(x, snap, in, reset).reset = reset
  BY DEF JudgePane, Verdict
<1>7. [Verdict("escalate", reset, w.cause) EXCEPT !.replay = TRUE].reset = reset
  BY DEF Verdict
<1>8. D.reset = reset
  BY <1>3, <1>4, <1>5, <1>6, <1>7
<1> QED BY <1>2, <1>8 DEF D

\* The step a run takes on a record it holds, in terms of that run alone.
LEMMA ChargeStep ==
    ASSUME Sane, NEW d \in Slots, NEW next, Do(d, next), lease' = d, lease \in {None, d},
           Charges(next, queue', agent'.reg, hist'.typed),
           Within(wake', queue', agent'.reg, hist'.typed + Pending(next)),
           ~Owed' => hist'.typed + Pending(next) <= 1
    PROVE  ChargeInv'
<1>1. disp'[d] = next
  BY Numbers DEF Do, Sane
<1>2. Charged' = hist'.typed + Pending(next)
  BY <1>1 DEF Charged, Pending
<1> QED BY <1>1, <1>2 DEF ChargeInv, Holds

\* A run that judges, under the lease, has the record on the bus in hand, and no
\* reservation waits.
LEMMA JudgingHolds ==
    ASSUME Sane, NEW d \in Slots, Holds(d)
    PROVE  /\ Charges(disp[d], queue, agent.reg, hist.typed)
           /\ Charged = hist.typed + Pending(disp[d])
           /\ disp[d].pc \in Looked => disp[d].w = wake
           /\ Within(wake, queue, agent.reg, hist.typed)
<1>1. Charged = hist.typed + Pending(disp[d]) /\ Pending(disp[d]) \in {0, 1}
  BY DEF Holds, Charged, Pending
<1>2. Within(wake, queue, agent.reg, hist.typed)
  BY <1>1, Numbers, WithinLess DEF Sane, ChargeInv
<1> QED BY <1>1, <1>2 DEF Sane, ChargeInv, FenceInv, Known, Holds

\* The record a verdict leaves in hand has the prompts within it: what was reset
\* was seen to move, or had nothing typed since.
LEMMA BaseWithin ==
    ASSUME Sane, NEW d \in Slots, Holds(d), disp[d].pc \in Judging, NEW reset \in BOOLEAN,
           Resets(disp[d].w, disp[d].x, disp[d].snap, reset)
    PROVE  /\ Within(base(d, disp[d].w, reset), queue, agent.reg, hist.typed)
           /\ ~Fresh(disp[d], queue, agent.reg) => hist.typed = 0
           /\ reset => hist.typed <= 1
<1> DEFINE w == disp[d].w
           m == Marked(w, disp[d].x)
           b == [m EXCEPT !.tries = 0, !.escalated = "no", !.cause = FALSE, !.pid = disp[d].snap]
<1>1. /\ disp[d].w = wake /\ Within(wake, queue, agent.reg, hist.typed)
      /\ ~Fresh(disp[d], queue, agent.reg) => hist.typed = 0
  BY JudgingHolds DEF Charges, Judging, Looked
<1>2. hist.typed \in Nat /\ w \in WakeRecord
  BY Numbers DEF Sane
<1>3. Fresh(disp[d], queue, agent.reg) =>
        (Moved(w, disp[d].x, disp[d].snap) <=> Moved(w, queue, agent.reg))
  BY DEF Fresh, Moved, Progressed, IdentityChanged
<1>4. reset => hist.typed <= 1
  BY <1>1, <1>2, <1>3 DEF Resets, Within
<1>5. CASE ~reset
  BY <1>1, <1>4, <1>5 DEF base
<1>6. CASE reset
  <2>1. base(d, w, reset) = b
    BY <1>6 DEF base
  <2>2. b.escalated = "no" /\ b.state = w.state
    BY <1>2 DEF WakeRecord, Marked
  <2>3. w.state = "none" => hist.typed = 0
    BY <1>1 DEF Within
  <2> HIDE DEF b
  <2> QED BY <1>1, <1>2, <1>4, <1>6, <2>1, <2>2, <2>3 DEF Within
<1> QED BY <1>4, <1>1, <1>5, <1>6

\* So has the record of a committed escalation.
LEMMA EscalateWithin ==
    ASSUME Sane, NEW d \in Slots, Holds(d), disp[d].pc \in Judging, NEW v \in Verdicts,
           Resets(disp[d].w, disp[d].x, disp[d].snap, v.reset)
    PROVE  /\ Charges(escalate(d, v), queue, agent.reg, hist.typed)
           /\ Pending(escalate(d, v)) = 0
<1> DEFINE x == disp[d].x
           n == hist.typed
           b == base(d, disp[d].w, v.reset)
           m == IF b.mark = 0 /\ b.pending = 0 THEN Marked(b, x) ELSE b
           r == [m EXCEPT !.state = IF @ = "none" THEN "deferred" ELSE @, !.escalated = "pending",
                          !.cause = v.cause, !.high = IF v.replay THEN @ ELSE x.high]
<1>1. v.reset \in BOOLEAN /\ n \in Nat /\ x.delivered \in Nat /\ x.acked \in Nat
  BY Numbers DEF Verdicts, Sane
<1>2. /\ Within(b, queue, agent.reg, n)
      /\ ~Fresh(disp[d], queue, agent.reg) => n = 0
  BY <1>1, BaseWithin
<1>3. b \in WakeRecord
  BY <1>1, BaseTrue DEF Sane, SoundInv, RunsOK, Sound, True
<1>4. escalate(d, v) = IF r = disp[d].w THEN Keep(d, "cmd", r) ELSE Keep(d, "pending", r)
  BY DEF escalate
<1>5. /\ m.tries = b.tries /\ m.pid = b.pid
      /\ \/ m.mark = b.mark /\ m.pending = b.pending
         \/ m.mark = x.delivered + 1 /\ m.pending = x.delivered - x.acked
  BY <1>3 DEF Marked, WakeRecord
<1>6. m \in WakeRecord
  <2>1. Sound(disp[d], hist) /\ True(disp[d].w, hist)
    BY DEF Sane, SoundInv, RunsOK, Sound
  <2>2. True(b, hist)
    BY <1>1, <2>1, BaseTrue
  <2>3. x \in LookResult /\ x.acked <= x.delivered
    BY <2>1 DEF Sound, RunState
  <2> HIDE DEF b
  <2> QED BY <2>2, <2>3, MarkedTrue DEF True
<1>7. r.mark = m.mark /\ r.pending = m.pending /\ r.pid = m.pid /\ r.tries = m.tries
      /\ r.escalated = "pending" /\ r.state # "none"
  <2> HIDE DEF m
  <2> QED BY <1>6 DEF WakeRecord
<1> HIDE DEF b, m, r
<1>8. Within(r, queue, agent.reg, n)
  <2>1. CASE n = 0
    BY <1>7, <2>1 DEF Within
  <2>2. CASE Fresh(disp[d], queue, agent.reg)
    <3>1. x.delivered = queue.delivered /\ x.acked = queue.acked
      BY <2>2 DEF Fresh
    <3>2. CASE m.mark = b.mark /\ m.pending = b.pending
      <4>1. Moved(r, queue, agent.reg) <=> Moved(b, queue, agent.reg)
        BY <1>5, <1>7, <3>2 DEF Moved, Progressed, IdentityChanged
      <4> QED BY <1>2, <1>5, <1>7, <4>1 DEF Within
    <3>3. CASE m.mark = x.delivered + 1 /\ m.pending = x.delivered - x.acked
      <4>1. ~Progressed(r, queue)
        BY <1>1, <1>7, <3>1, <3>3 DEF Progressed
      <4>2. Moved(r, queue, agent.reg) => Moved(b, queue, agent.reg)
        BY <1>5, <1>7, <4>1 DEF Moved, IdentityChanged
      <4> QED BY <1>2, <1>5, <1>7, <4>2 DEF Within
    <3> QED BY <1>5, <3>2, <3>3
  <2> QED BY <1>2, <2>1, <2>2
<1>9. CASE r = disp[d].w
  <2>1. Keep(d, "cmd", r).pc = "cmd"
    BY KeepKnown
  <2> QED BY <1>4, <1>9, <2>1, IdleCharges
<1>10. CASE r # disp[d].w
  BY <1>4, <1>8, <1>10, KeepCharges
<1> QED BY <1>9, <1>10

\* And so is whatever a run does on a verdict.
LEMMA ActCharges ==
    ASSUME Sane, NEW d \in Slots, Holds(d), disp[d].pc \in {"judge", "recheck"}, NEW v \in Verdicts,
           Resets(disp[d].w, disp[d].x, disp[d].snap, v.reset), NEW pc \in {"recheck", "reserve"}
    PROVE  /\ Charges(act(d, v, pc), queue, agent.reg, hist.typed)
           /\ Pending(act(d, v, pc)) = 0
<1>1. disp[d] \in RunState /\ disp[d].pc \in Judging /\ v.reset \in BOOLEAN
  BY Numbers DEF Judging, Sane, Verdicts
<1>2. CASE v.act = "none"
  BY <1>1, <1>2, EndOfActCharges DEF act
<1>3. CASE v.act = "defer"
  <2> DEFINE b == base(d, disp[d].w, v.reset)
             r == [b EXCEPT !.state = "deferred"]
  <2>1. Within(b, queue, agent.reg, hist.typed)
    BY <1>1, BaseWithin
  <2>2. b \in WakeRecord
    BY <1>1, BaseTrue DEF Sane, SoundInv, RunsOK, Sound, True
  <2> HIDE DEF b
  <2>3. /\ r.mark = b.mark /\ r.pending = b.pending /\ r.pid = b.pid /\ r.tries = b.tries
        /\ r.escalated = b.escalated /\ r.state # "none"
    BY <2>2 DEF WakeRecord
  <2>4. act(d, v, pc) = PutNext(d, r)
    BY <1>3 DEF act, b
  <2> HIDE DEF r
  <2>5. Within(r, queue, agent.reg, hist.typed)
    BY <2>1, <2>3, WithinSame
  <2> QED BY <1>1, <2>4, <2>5, PutNextCharges
<1>4. CASE v.act = "escalate"
  BY <1>1, <1>4, EscalateWithin DEF act
<1>5. CASE v.act = "prompt"
  <2> DEFINE r == disp[d]
             s == [r EXCEPT !.pc = pc, !.reset = v.reset]
  <2>1. act(d, v, pc) = s
    BY <1>5 DEF act
  <2>2. s.pc = pc /\ s.reset = v.reset /\ s.x = r.x /\ s.w = r.w /\ s.snap = r.snap
    BY <1>1 DEF RunState
  <2>3. Charges(r, queue, agent.reg, hist.typed)
    BY JudgingHolds
  <2> HIDE DEF s
  <2>4. Fresh(s, queue, agent.reg) <=> Fresh(r, queue, agent.reg)
    BY <1>1, <2>2 DEF Fresh, Judging
  <2> QED BY <1>1, <2>1, <2>2, <2>3, <2>4 DEF Charges, Pending, Judging
<1> QED BY <1>2, <1>3, <1>4, <1>5 DEF Verdicts

\* A pass that begins, fails or ends charges nothing.
LEMMA PassCharges ==
    ASSUME Sane, NEW d \in Slots, Holds(d), Paused(d) \/ Error(d) \/ Stop(d)
    PROVE  ChargeInv'
<1>1. /\ UNCHANGED <<agent, wake, hist>> /\ queue'.delivered = queue.delivered
      /\ queue'.acked = queue.acked /\ queue'.published >= queue.published
      /\ queue'.published \in Nat
  <2>1. UNCHANGED <<agent, wake, hist>>
    BY DEF Paused, Error, Stop, world
  <2>2. UNCHANGED queue \/ EndPause
    BY DEF Paused, Error, Stop, world
  <2>3. UNCHANGED queue \/ queue' = [queue EXCEPT !.published = @ + 1]
    BY <2>2 DEF EndPause, Published
  <2>4. /\ queue.published + 1 >= queue.published /\ queue.published >= queue.published
        /\ queue.published \in Nat /\ queue.published + 1 \in Nat
    BY Numbers DEF Sane
  <2>5. queue \in [published : Messages, delivered : Messages, acked : Messages, gap : BOOLEAN]
    BY DEF Sane, SoundInv, WorldOK
  <2> QED BY <2>1, <2>3, <2>4, <2>5
<1>2. PICK next : Do(d, next) /\ next.pc \in {"off", "pass", "look"} /\ (next.pc = "look" => next.snap = agent.reg)
  <2>1. Do(d, Pass) \/ Do(d, Stopped) \/ Do(d, [Pass EXCEPT !.pc = "look", !.snap = agent.reg])
    BY DEF Paused, Error, Stop
  <2>2. /\ Pass.pc = "pass" /\ Stopped.pc = "off"
        /\ [Pass EXCEPT !.pc = "look", !.snap = agent.reg].pc = "look"
        /\ [Pass EXCEPT !.pc = "look", !.snap = agent.reg].snap = agent.reg
    BY DEF Pass, Stopped
  <2> QED BY <2>1, <2>2
<1>3. disp'[d] = next
  BY <1>2, Numbers DEF Do, Sane
<1>4. Charges(next, queue', agent.reg, hist.typed) /\ Pending(next) = 0
  BY <1>2 DEF Charges, Judging, Fresh, Pending
<1>5. Within(wake, queue', agent.reg, hist.typed)
  <2>1. Within(wake, queue, agent.reg, hist.typed)
    BY JudgingHolds
  <2> QED BY <1>1, <2>1, Numbers, WithinLess DEF Sane
<1>6. ~Owed' => hist.typed <= 1
  <2>1. Charged = hist.typed + Pending(disp[d]) /\ Pending(disp[d]) \in {0, 1} /\ (~Owed => Charged <= 1)
    BY JudgingHolds DEF Sane, ChargeInv, Pending
  <2>2. ~Owed' => ~Owed
    BY <1>1, Numbers DEF Owed, Sane
  <2> QED BY <2>1, <2>2, Numbers DEF Sane
<1>7. CASE lease' = d
  BY <1>1, <1>2, <1>4, <1>5, <1>6, <1>7, Numbers, ChargeStep DEF Holds, Sane
<1>8. CASE lease' # d
  <2>1. lease' = None /\ None \notin Slots
    BY <1>8, DispatchAssumption DEF Paused, Error, Stop, Holds
  <2>2. Charged' = hist.typed + 0
    BY <1>1, <2>1 DEF Charged
  <2>3. hist.typed + 0 = hist.typed
    BY Numbers DEF Sane
  <2> QED BY <1>1, <1>5, <1>6, <2>1, <2>2, <2>3 DEF ChargeInv, Holds
<1> QED BY <1>7, <1>8

\* A look finds the run fresh, or nothing typed since the agent moved; a record
\* cleared because nothing is owed has one prompt within it at the most.
LEMMA LookCharges ==
    ASSUME Sane, NEW d \in Slots, Holds(d), Look(d)
    PROVE  ChargeInv'
<1> DEFINE x == [delivered |-> queue.delivered, acked |-> queue.acked,
                 high |-> IF Owed THEN queue.published ELSE 0,
                 old |-> IF Owed THEN age[queue.acked + 1] ELSE 0,
                 open |-> since = Retry, gap |-> queue.gap]
           cleared == [Marked(wake, x) EXCEPT !.state = "clear", !.tries = 0, !.high = 0,
                                              !.escalated = "no", !.cause = FALSE]
           here == [disp[d] EXCEPT !.x = x, !.w = wake]
           exists == wake.state # "none"
           skipped == swap.intent \/ (~Owed /\ ~exists /\ ~x.gap)
           done == IF x.gap /\ ~wake.gap THEN [here EXCEPT !.pc = "gap"] ELSE Pass
           next == CASE skipped -> Pass
                     [] ~skipped /\ ~Owed -> IF exists /\ cleared # wake
                                             THEN [here EXCEPT !.pc = "put", !.w = cleared] ELSE done
                     [] ~skipped /\ Owed /\ agent.armed -> done
                     [] OTHER -> [here EXCEPT !.pc = "judge"]
           n == hist.typed
<1>1. Do(d, next) /\ UNCHANGED <<queue, agent, lease, wake, hist>> /\ At(d, "look")
  BY DEF Look, world
<1>2. /\ Within(wake, queue, agent.reg, n) /\ Charges(disp[d], queue, agent.reg, n)
      /\ n \in Nat /\ disp[d] \in RunState /\ wake \in WakeRecord
  BY JudgingHolds, Numbers DEF Sane, SoundInv, RunsOK, True
<1>3. ~Owed => n <= 1
  <2>1. Charged = n /\ (~Owed => Charged <= 1)
    BY <1>1, <1>2, JudgingHolds DEF Sane, ChargeInv, Pending, At
  <2> QED BY <2>1
<1>4. /\ x.delivered = queue.delivered /\ x.acked = queue.acked
  OBVIOUS
<1> HIDE DEF x
<1>5. cleared.escalated = "no" /\ cleared.state = "clear"
  BY <1>2 DEF Marked, WakeRecord
<1> HIDE DEF cleared
<1>6. /\ [here EXCEPT !.pc = "gap"].pc = "gap"
      /\ [here EXCEPT !.pc = "put", !.w = cleared].pc = "put"
      /\ [here EXCEPT !.pc = "put", !.w = cleared].w = cleared
      /\ [here EXCEPT !.pc = "judge"].pc = "judge"
      /\ [here EXCEPT !.pc = "judge"].x = x
      /\ [here EXCEPT !.pc = "judge"].snap = disp[d].snap
      /\ Pass.pc = "pass"
  BY <1>2 DEF RunState, Pass, Stopped
<1> HIDE DEF here
<1>7. Charges(Pass, queue, agent.reg, n) /\ Pending(Pass) = 0
  BY <1>6, IdleCharges
<1>8. Charges(done, queue, agent.reg, n) /\ Pending(done) = 0
  <2>1. done.pc \in {"gap", "pass"}
    BY <1>6
  <2> HIDE DEF done
  <2> QED BY <2>1, IdleCharges
<1> HIDE DEF done
<1>9. ASSUME ~Owed PROVE Charges([here EXCEPT !.pc = "put", !.w = cleared], queue, agent.reg, n)
  BY <1>3, <1>5, <1>6, <1>9 DEF Charges, Judging, Within
<1>10. ASSUME Owed PROVE Charges([here EXCEPT !.pc = "judge"], queue, agent.reg, n)
  <2>1. disp[d].snap # agent.reg => n = 0
    BY <1>1, <1>2 DEF Charges, Fresh, At
  <2> QED BY <1>4, <1>6, <1>10, <2>1 DEF Charges, Judging, Fresh, Owed
<1>11. /\ Pending([here EXCEPT !.pc = "put", !.w = cleared]) = 0
       /\ Pending([here EXCEPT !.pc = "judge"]) = 0
  BY <1>6 DEF Pending
<1>12. Charges(next, queue, agent.reg, n) /\ Pending(next) = 0
  <2>1. CASE skipped
    BY <1>7, <2>1
  <2>2. CASE ~skipped /\ ~Owed
    BY <1>8, <1>9, <1>11, <2>2
  <2>3. CASE ~skipped /\ Owed
    BY <1>8, <1>10, <1>11, <2>3
  <2> QED BY <2>1, <2>2, <2>3
<1> HIDE DEF next
<1>13. n + Pending(next) = n
  BY <1>2, <1>12
<1>14. Owed' = Owed
  BY <1>1 DEF Owed
<1> QED BY <1>1, <1>2, <1>3, <1>12, <1>13, <1>14, ChargeStep DEF Holds

\* A verdict, on a record in hand.
LEMMA JudgeCharges ==
    ASSUME Sane, NEW d \in Slots, Holds(d), Judge(d) \/ Recheck(d)
    PROVE  ChargeInv'
<1> DEFINE n == hist.typed
<1>1. UNCHANGED <<queue, agent, lease, wake, hist>> /\ disp[d].pc \in {"judge", "recheck"}
  BY DEF Judge, Recheck, world, At
<1>2. disp[d] \in RunState /\ disp[d].w \in WakeRecord /\ n \in Nat
  BY Numbers DEF Sane
<1>3. Within(wake, queue, agent.reg, n) /\ (~Owed => n <= 1)
  <2>1. Charged = n
    BY <1>1, <1>2, JudgingHolds DEF Pending
  <2> QED BY <2>1, JudgingHolds DEF Sane, ChargeInv
<1>4. \A in : \A pc \in {"recheck", "reserve"} :
        LET next == act(d, Decide(disp[d].x, disp[d].snap, disp[d].w, in), pc)
        IN  Charges(next, queue, agent.reg, n) /\ Pending(next) = 0
  BY <1>1, <1>2, DecideVerdict, DecideResets, ActCharges
<1>5. Charges(EndOfAct(d, disp[d].w), queue, agent.reg, n) /\ Pending(EndOfAct(d, disp[d].w)) = 0
  BY <1>2, EndOfActCharges
<1>6. PICK next : Do(d, next) /\ Charges(next, queue, agent.reg, n) /\ Pending(next) = 0
  <2>1. CASE Judge(d)
    <3>1. PICK in : Do(d, act(d, Decide(disp[d].x, disp[d].snap, disp[d].w, in), "recheck"))
      BY <2>1 DEF Judge
    <3> QED BY <1>4, <3>1
  <2>2. CASE Recheck(d)
    <3>1. CASE Do(d, EndOfAct(d, disp[d].w))
      BY <1>5, <3>1
    <3>2. CASE ~swap.intent
      <4>1. PICK in : Do(d, act(d, Decide(disp[d].x, disp[d].snap, disp[d].w, in), "reserve"))
        BY <2>2, <3>2 DEF Recheck
      <4> QED BY <1>4, <4>1
    <3> QED BY <2>2, <3>1, <3>2 DEF Recheck
  <2> QED BY <2>1, <2>2
<1>7. n + Pending(next) = n
  BY <1>2, <1>6
<1>8. Owed' = Owed
  BY <1>1 DEF Owed
<1> QED BY <1>1, <1>3, <1>6, <1>7, <1>8, ChargeStep DEF Holds

\* A reservation charges its try: what it charges is within the record written.
LEMMA ReserveCharges ==
    ASSUME Sane, NEW d \in Slots, Reserve(d)
    PROVE  ChargeInv'
<1> DEFINE n == hist.typed
           x == disp[d].x
           reset == disp[d].reset
           b == base(d, disp[d].w, reset)
           z == Reserved(d)
<1>1. /\ UNCHANGED <<queue, agent, lease, hist>> /\ disp[d].pc = "reserve" /\ Holds(d)
      /\ disp[d].pc \in Judging /\ disp[d].pc \in Looked
  BY DEF Reserve, world, At, Judging, Looked
<1>2. /\ disp[d] \in RunState /\ disp[d].w \in WakeRecord /\ n \in Nat /\ reset \in BOOLEAN
      /\ x.delivered \in Nat /\ x.acked \in Nat /\ disp[d].w.tries \in Nat /\ queue.acked \in Nat
      /\ queue.published \in Nat
  BY Numbers DEF Sane, RunState
<1>3. /\ Within(wake, queue, agent.reg, n) /\ disp[d].w = wake /\ Charged = n
      /\ Charges(disp[d], queue, agent.reg, n)
  BY <1>1, <1>2, JudgingHolds DEF Pending
<1>4. Resets(disp[d].w, x, disp[d].snap, reset) /\ x.acked < queue.published
      /\ (~Owed => n <= 1)
  BY <1>1, <1>3 DEF Charges, Sane, ChargeInv
<1>5. /\ Within(b, queue, agent.reg, n)
      /\ ~Fresh(disp[d], queue, agent.reg) => n = 0
      /\ reset => n <= 1
  BY <1>1, <1>2, <1>4, BaseWithin
<1>6. Owed' = Owed
  BY <1>1 DEF Owed
<1>7. CASE Do(d, EndOfAct(d, disp[d].w)) /\ UNCHANGED wake
  <2>1. /\ Charges(EndOfAct(d, disp[d].w), queue, agent.reg, n)
        /\ n + Pending(EndOfAct(d, disp[d].w)) = n
    BY <1>2, EndOfActCharges
  <2> QED BY <1>1, <1>3, <1>4, <1>6, <1>7, <2>1, ChargeStep DEF Holds
<1>8. CASE wake' = z /\ Do(d, Keep(d, "confirm", z))
  <2>1. z \in WakeRecord /\ z.state = "prompting"
    BY <1>1, ReservedTrue DEF Sane, At, True
  <2>2. b \in WakeRecord /\ b.escalated = "no"
    <3>1. True(b, hist) /\ (reset => b.escalated = "no")
      BY <1>2, BaseTrue DEF Sane, SoundInv, RunsOK, Sound
    <3>2. ~reset => b = disp[d].w /\ disp[d].w.escalated = "no"
      BY <1>1 DEF base, Sane, SoundInv, RunsOK, Sound
    <3> QED BY <1>2, <3>1, <3>2 DEF True
  <2>3. /\ z.mark = x.delivered + 1 /\ z.pending = x.delivered - x.acked
        /\ z.pid = disp[d].snap /\ z.escalated = "no"
        /\ z.tries = (IF reset THEN 0 ELSE disp[d].w.tries) + 1
    <3> DEFINE m == Marked(b, x)
               k == (IF reset THEN 0 ELSE disp[d].w.tries) + 1
    <3>1. z = [m EXCEPT !.state = "prompting", !.high = x.high, !.pid = disp[d].snap, !.tries = k]
      BY DEF Reserved
    <3> HIDE DEF k
    <3>2. m = [b EXCEPT !.mark = x.delivered + 1, !.pending = x.delivered - x.acked]
      BY DEF Marked
    <3> HIDE DEF m
    <3>3. z.tries = k /\ z.mark = m.mark /\ z.pending = m.pending /\ z.escalated = m.escalated
          /\ z.pid = disp[d].snap
      BY <2>2, <3>1, <3>2 DEF WakeRecord
    <3>4. m.mark = x.delivered + 1 /\ m.pending = x.delivered - x.acked /\ m.escalated = "no"
      BY <2>2, <3>2 DEF WakeRecord
    <3> QED BY <3>3, <3>4 DEF k
  <2> HIDE DEF z
  <2>4. Within(z, queue, agent.reg, n + 1)
    <3>1. CASE n = 0
      BY <2>1, <2>3, <3>1 DEF Within
    <3>2. CASE Fresh(disp[d], queue, agent.reg)
      <4>1. x.delivered = queue.delivered /\ x.acked = queue.acked /\ disp[d].snap = agent.reg
        BY <1>1, <3>2 DEF Fresh
      <4>2. ~Progressed(z, queue)
        BY <1>2, <2>3, <4>1 DEF Progressed
      <4>3. ~Moved(z, queue, agent.reg)
        BY <2>3, <4>1, <4>2 DEF Moved, IdentityChanged
      <4>4. n + 1 <= z.tries + 1
        <5>1. CASE reset
          BY <1>2, <1>5, <2>3, <5>1
        <5>2. CASE ~reset
          <6>1. n <= 1 \/ n <= disp[d].w.tries + 1
            BY <1>3 DEF Within
          <6> QED BY <1>2, <2>3, <5>2, <6>1
        <5> QED BY <5>1, <5>2
      <4> QED BY <2>1, <2>3, <4>3, <4>4 DEF Within
    <3> QED BY <1>5, <3>1, <3>2
  <2>5. /\ Charges(Keep(d, "confirm", z), queue, agent.reg, n)
        /\ Pending(Keep(d, "confirm", z)) = 1
    <3>1. Keep(d, "confirm", z).pc = "confirm" /\ Keep(d, "confirm", z).w = z
      BY KeepKnown
    <3> QED BY <2>1, <2>3, <3>1 DEF Charges, Judging, Pending
  <2>6. ~Owed => n + 1 <= 1
    <3>1. ~Owed => x.acked # queue.acked
      BY <1>2, <1>4 DEF Owed
    <3>2. ~Owed => ~Fresh(disp[d], queue, agent.reg)
      BY <1>1, <3>1 DEF Fresh
    <3> QED BY <1>5, <3>2
  <2> QED BY <1>1, <1>6, <1>8, <2>4, <2>5, <2>6, ChargeStep DEF Holds, z
<1>9. CASE /\ UNCHANGED wake
           /\ Do(d, PutNext(d, [base(d, wake, reset) EXCEPT !.state = "deferred"]))
  <2> DEFINE r == [b EXCEPT !.state = "deferred"]
  <2>1. b \in WakeRecord
    BY <1>2, BaseTrue DEF Sane, SoundInv, RunsOK, Sound, True
  <2>2. Do(d, PutNext(d, r))
    BY <1>3, <1>9
  <2> HIDE DEF b
  <2>3. /\ r.mark = b.mark /\ r.pending = b.pending /\ r.pid = b.pid /\ r.tries = b.tries
        /\ r.escalated = b.escalated /\ r.state # "none"
    BY <2>1 DEF WakeRecord
  <2> HIDE DEF r
  <2>4. Within(r, queue, agent.reg, n)
    BY <1>5, <2>3, WithinSame
  <2>5. Charges(PutNext(d, r), queue, agent.reg, n) /\ n + Pending(PutNext(d, r)) = n
    BY <1>2, <2>4, PutNextCharges
  <2> QED BY <1>1, <1>3, <1>4, <1>6, <1>9, <2>2, <2>5, ChargeStep DEF Holds
<1> QED BY <1>7, <1>8, <1>9 DEF Reserve

\* The steps of the holder from its reservation on, and those of an escalation
\* and of a gap: the prompt typed was charged, the notify starts a new count.
LEMMA WriteCharges ==
    ASSUME Sane, NEW d \in Slots, Holds(d),
           \/ Confirm(d) \/ Type(d) \/ Put(d) \/ EscalatePending(d) \/ EscalateCmd(d)
           \/ EscalateNotify(d) \/ GapNotify(d)
    PROVE  ChargeInv'
<1> DEFINE n == hist.typed
           w == disp[d].w
<1>1. UNCHANGED <<queue, agent, lease>> /\ Owed' = Owed
  BY DEF Confirm, Type, Put, EscalatePending, EscalateCmd, EscalateNotify, GapNotify, world, Owed
<1>2. /\ disp[d] \in RunState /\ w \in WakeRecord /\ n \in Nat /\ w.tries \in Nat
      /\ wake.tries \in Nat
  BY Numbers DEF Sane
<1>3. /\ Within(wake, queue, agent.reg, n) /\ Charges(disp[d], queue, agent.reg, n)
      /\ disp[d].pc \in Looked => w = wake
      /\ Charged = n + Pending(disp[d])
      /\ Within(wake, queue, agent.reg, Charged)
      /\ ~Owed => Charged <= 1
  BY JudgingHolds DEF Sane, ChargeInv
<1>4. Pending(disp[d]) \in {0, 1}
  BY DEF Pending
<1>5. ~Owed => n <= 1
  BY <1>2, <1>3, <1>4
<1>6. CASE Confirm(d)
  <2>1. disp[d].pc = "confirm" /\ Pending(disp[d]) = 1 /\ w = wake /\ UNCHANGED <<wake, hist>>
        /\ w.escalated = "no" /\ w.state # "none"
    BY <1>3, <1>6 DEF Confirm, At, Pending, Looked, Charges
  <2>2. CASE Do(d, Keep(d, "put", [w EXCEPT !.state = "deferred"]))
    <3> DEFINE r == [w EXCEPT !.state = "deferred"]
    <3>1. /\ r.mark = w.mark /\ r.pending = w.pending /\ r.pid = w.pid /\ r.tries = w.tries
          /\ r.escalated = w.escalated /\ r.state # "none"
      BY <1>2 DEF WakeRecord
    <3> HIDE DEF r
    <3>2. Within(r, queue, agent.reg, n)
      BY <1>3, <2>1, <3>1, WithinSame
    <3>3. Charges(Keep(d, "put", r), queue, agent.reg, n) /\ n + Pending(Keep(d, "put", r)) = n
      BY <1>2, <3>2, KeepCharges
    <3> QED BY <1>1, <1>3, <1>5, <2>1, <2>2, <3>3, ChargeStep DEF Holds, r
  <2>3. CASE Do(d, Keep(d, "type", w))
    <3>1. Keep(d, "type", w).pc = "type" /\ Keep(d, "type", w).w = w
      BY KeepKnown
    <3>2. /\ Charges(Keep(d, "type", w), queue, agent.reg, n)
          /\ Pending(Keep(d, "type", w)) = 1
      BY <2>1, <3>1 DEF Charges, Judging, Pending
    <3> QED BY <1>1, <1>3, <2>1, <2>3, <3>2, ChargeStep DEF Holds
  <2> QED BY <1>6, <2>2, <2>3 DEF Confirm
<1>7. CASE Type(d)
  <2> DEFINE r == [w EXCEPT !.state = "prompted"]
             k == IF n < MaxTries + 2 THEN n + 1 ELSE n
  <2>1. disp[d].pc = "type" /\ Pending(disp[d]) = 1 /\ w = wake /\ UNCHANGED wake
        /\ w.escalated = "no" /\ w.state # "none"
    BY <1>3, <1>7 DEF Type, At, Pending, Looked, Charges
  <2>2. hist'.typed = k
    <3>1. hist' = [hist EXCEPT !.typed = k]
      BY <1>7 DEF Type
    <3>2. hist \in History
      BY DEF Sane, SoundInv, RunsOK
    <3> HIDE DEF k
    <3> QED BY <3>1, <3>2 DEF History
  <2>3. k \in Nat /\ k <= Charged /\ Charged \in Nat
    BY <1>2, <1>3, <2>1, LateNat
  <2> HIDE DEF k
  <2>4. Do(d, Keep(d, "put", r))
    BY <1>7 DEF Type
  <2>5. /\ r.mark = w.mark /\ r.pending = w.pending /\ r.pid = w.pid /\ r.tries = w.tries
        /\ r.escalated = w.escalated /\ r.state # "none"
    BY <1>2 DEF WakeRecord
  <2> HIDE DEF r
  <2>6. Within(wake, queue, agent.reg, k)
    BY <1>2, <1>3, <2>3, WithinLess
  <2>7. Within(r, queue, agent.reg, k)
    BY <2>1, <2>5, <2>6, WithinSame
  <2>8. Charges(Keep(d, "put", r), queue, agent.reg, k) /\ k + Pending(Keep(d, "put", r)) = k
    BY <2>3, <2>7, KeepCharges
  <2>9. ~Owed => k <= 1
    BY <1>3, <2>3
  <2> QED BY <1>1, <2>1, <2>2, <2>4, <2>6, <2>8, <2>9, ChargeStep DEF Holds
<1>8. CASE Put(d)
  <2>1. Within(w, queue, agent.reg, n) /\ wake' = w /\ UNCHANGED hist /\ Do(d, EndOfAct(d, w))
    BY <1>3, <1>8 DEF Put, At, Charges
  <2>2. Charges(EndOfAct(d, w), queue, agent.reg, n) /\ n + Pending(EndOfAct(d, w)) = n
    BY <1>2, EndOfActCharges
  <2> QED BY <1>1, <1>5, <2>1, <2>2, ChargeStep DEF Holds
<1>9. CASE EscalatePending(d)
  <2>1. /\ Within(w, queue, agent.reg, n) /\ wake' = w /\ UNCHANGED hist
        /\ Do(d, Keep(d, "cmd", w))
    BY <1>3, <1>9 DEF EscalatePending, At, Charges
  <2>2. Charges(Keep(d, "cmd", w), queue, agent.reg, n) /\ n + Pending(Keep(d, "cmd", w)) = n
    <3>1. Keep(d, "cmd", w).pc = "cmd"
      BY KeepKnown
    <3> QED BY <1>2, <3>1, IdleCharges
  <2> QED BY <1>1, <1>5, <2>1, <2>2, ChargeStep DEF Holds
<1>10. CASE EscalateCmd(d)
  <2>1. UNCHANGED <<wake, hist>> /\ Do(d, Keep(d, "notify", w))
    BY <1>10 DEF EscalateCmd
  <2>2. Charges(Keep(d, "notify", w), queue, agent.reg, n) /\ n + Pending(Keep(d, "notify", w)) = n
    <3>1. Keep(d, "notify", w).pc = "notify"
      BY KeepKnown
    <3> QED BY <1>2, <3>1, IdleCharges
  <2> QED BY <1>1, <1>3, <1>5, <2>1, <2>2, ChargeStep DEF Holds
<1>11. CASE EscalateNotify(d)
  <2> DEFINE r == [w EXCEPT !.escalated = "true"]
  <2>1. UNCHANGED wake /\ Do(d, Keep(d, "put", r))
    BY <1>11 DEF EscalateNotify
  <2>2. hist'.typed = 0
    <3>1. PICK t : hist' = [hist EXCEPT !.typed = 0, !.told = t]
      BY <1>11 DEF EscalateNotify
    <3>2. hist \in History
      BY DEF Sane, SoundInv, RunsOK
    <3> QED BY <3>1, <3>2 DEF History
  <2> HIDE DEF r
  <2>3. Within(r, queue, agent.reg, 0) /\ Within(wake, queue, agent.reg, 0)
    BY DEF Within
  <2>4. Charges(Keep(d, "put", r), queue, agent.reg, 0) /\ Pending(Keep(d, "put", r)) = 0
    BY <2>3, KeepCharges
  <2>5. 0 + Pending(Keep(d, "put", r)) = 0 /\ 0 <= 1
    BY <2>4
  <2> QED BY <1>1, <2>1, <2>2, <2>3, <2>4, <2>5, ChargeStep DEF Holds
<1>12. CASE GapNotify(d)
  <2> DEFINE r == IF w.state = "none" THEN [Marked(w, disp[d].x) EXCEPT !.state = "clear"] ELSE w
             g == [r EXCEPT !.gap = TRUE]
  <2>1. UNCHANGED wake /\ Do(d, Keep(d, "put", g)) /\ w = wake
    BY <1>3, <1>12 DEF GapNotify, At, Looked
  <2>2. hist'.typed = n
    <3>1. hist' = [hist EXCEPT !.gaps = TRUE]
      BY <1>12 DEF GapNotify
    <3>2. hist \in History
      BY DEF Sane, SoundInv, RunsOK
    <3> QED BY <3>1, <3>2 DEF History
  <2>3. g.state # "none" /\ g.escalated = w.escalated
    BY <1>2 DEF Marked, WakeRecord
  <2>4. w.state # "none" => /\ g.mark = w.mark /\ g.pending = w.pending /\ g.pid = w.pid
                            /\ g.tries = w.tries
    BY <1>2 DEF WakeRecord
  <2> HIDE DEF g
  <2>5. Within(g, queue, agent.reg, n)
    <3>1. CASE w.state = "none"
      <4>1. n = 0
        BY <1>3, <2>1, <3>1 DEF Within
      <4> QED BY <4>1 DEF Within
    <3>2. CASE w.state # "none"
      BY <1>3, <2>1, <2>3, <2>4, <3>2, WithinSame
    <3> QED BY <3>1, <3>2
  <2>6. Charges(Keep(d, "put", g), queue, agent.reg, n) /\ n + Pending(Keep(d, "put", g)) = n
    BY <1>2, <2>5, KeepCharges
  <2> QED BY <1>1, <1>3, <1>5, <2>1, <2>2, <2>6, ChargeStep DEF Holds
<1> QED BY <1>6, <1>7, <1>8, <1>9, <1>10, <1>11, <1>12

\* A step that touches neither the lease nor the record, and no run that holds the
\* lease, keeps the count, if the agent moves on or nothing it did changes.
LEMMA OutsideCharges ==
    ASSUME Sane, UNCHANGED <<lease, wake>>, lease \in Slots => disp'[lease] = disp[lease],
           queue'.published \in Nat, queue'.published >= queue.published,
           \/ /\ queue'.delivered = queue.delivered /\ queue'.acked = queue.acked
              /\ agent'.reg = agent.reg /\ hist'.typed = hist.typed
           \/ hist'.typed = 0 /\ queue'.published = queue.published /\ queue'.acked >= queue.acked
    PROVE  ChargeInv'
<1> DEFINE k == IF lease \in Slots THEN Pending(disp[lease]) ELSE 0
           n == hist.typed
<1>1. n \in Nat /\ k \in {0, 1} /\ wake.tries \in Nat /\ queue.acked \in Nat /\ queue.published \in Nat
  BY Numbers DEF Sane, Pending
<1>2. Charged = n + k /\ Charged' = hist'.typed + k
  BY DEF Charged
<1>3. \A d \in Slots : lease = d => Charges(disp[d], queue, agent.reg, n)
  BY DEF Sane, ChargeInv, Holds
<1>4. Within(wake, queue, agent.reg, n + k) /\ (~Owed => n + k <= 1)
  BY <1>2 DEF Sane, ChargeInv
<1>5. CASE /\ queue'.delivered = queue.delivered /\ queue'.acked = queue.acked
           /\ agent'.reg = agent.reg /\ hist'.typed = n
  <2>1. n + k \in Nat /\ n + k <= n + k /\ n <= n
    BY <1>1
  <2>2. Within(wake', queue', agent'.reg, Charged')
    BY <1>1, <1>2, <1>4, <1>5, <2>1, WithinLess
  <2>3. ~Owed' => ~Owed
    BY <1>1, <1>5 DEF Owed
  <2>4. ASSUME NEW d \in Slots, lease = d PROVE Charges(disp'[d], queue', agent'.reg, hist'.typed)
    <3>1. Charges(disp[d], queue, agent.reg, n) /\ disp'[d] = disp[d]
      BY <1>3, <2>4
    <3>2. Fresh(disp[d], queue', agent'.reg) <=> Fresh(disp[d], queue, agent.reg)
      BY <1>5 DEF Fresh
    <3>3. disp[d].x.acked < queue.published => disp[d].x.acked < queue'.published
      BY <1>1, Numbers DEF Sane
    <3>4. disp[d].w.tries \in Nat
      BY Numbers DEF Sane
    <3>5. Within(disp[d].w, queue, agent.reg, n) => Within(disp[d].w, queue', agent'.reg, n)
      BY <1>1, <1>5, <2>1, <3>4, WithinLess
    <3> QED BY <1>5, <3>1, <3>2, <3>3, <3>5 DEF Charges
  <2> QED BY <1>2, <1>4, <1>5, <2>2, <2>3, <2>4 DEF ChargeInv, Holds
<1>6. CASE hist'.typed = 0 /\ queue'.published = queue.published /\ queue'.acked >= queue.acked
  <2>1. Charged' = k
    BY <1>1, <1>2, <1>6
  <2>2. wake.escalated = "true" \/ wake.state = "none" => k = 0
    <3> SUFFICES ASSUME k # 0 PROVE wake.escalated = "no" /\ wake.state # "none"
      OBVIOUS
    <3>1. lease \in Slots /\ disp[lease].pc \in {"confirm", "type"}
      BY DEF Pending
    <3>2. disp[lease].w.escalated = "no" /\ disp[lease].w.state # "none"
      BY <1>3, <3>1 DEF Charges
    <3>3. disp[lease].w = wake
      BY <3>1 DEF Sane, FenceInv, Known, Looked
    <3> QED BY <3>2, <3>3
  <2>3. Within(wake', queue', agent'.reg, Charged')
    BY <1>1, <2>1, <2>2 DEF Within
  <2>4. ASSUME NEW d \in Slots, lease = d PROVE Charges(disp'[d], queue', agent'.reg, hist'.typed)
    <3>1. Charges(disp[d], queue, agent.reg, n) /\ disp'[d] = disp[d]
      BY <1>3, <2>4
    <3>2. Within(disp[d].w, queue', agent'.reg, 0)
      BY DEF Within
    <3> QED BY <1>6, <3>1, <3>2 DEF Charges
  <2> QED BY <1>1, <2>1, <2>3, <2>4 DEF ChargeInv, Holds
<1> QED BY <1>5, <1>6

\* Nothing is typed at first.
LEMMA ChargeInit == Init => ChargeInv
<1> SUFFICES ASSUME Init PROVE ChargeInv
  OBVIOUS
<1>1. hist.typed = 0 /\ lease = None /\ None \notin Slots
  BY DispatchAssumption DEF Init
<1>2. Charged = 0
  BY <1>1 DEF Charged
<1> QED BY <1>1, <1>2 DEF ChargeInv, Within, Holds

\* Every step keeps the count, if a prompt is typed within the lease of its
\* reservation.
LEMMA ChargeKept ==
    ASSUME Sane, [Next]_vars
    PROVE  ChargeInv'
<1>a. /\ None \notin Slots /\ hist \in History /\ hist.typed \in Nat
      /\ queue.published \in Nat /\ queue.acked \in Nat /\ queue.published + 1 >= queue.published
      /\ queue \in [published : Messages, delivered : Messages, acked : Messages, gap : BOOLEAN]
      /\ agent \in [proc : Procs, last : Procs, reg : Procs, armed : BOOLEAN]
      /\ queue.published >= queue.published /\ queue.acked + 1 >= queue.acked
      /\ queue.acked >= queue.acked /\ queue.published + 1 \in Nat
  <2>1. None \notin Slots /\ hist \in History
    BY DispatchAssumption DEF Sane, SoundInv, RunsOK
  <2>2. hist.typed \in Nat /\ queue.published \in Nat /\ queue.acked \in Nat
    BY Numbers DEF Sane
  <2>3. /\ queue.published + 1 >= queue.published /\ queue.published >= queue.published
        /\ queue.acked + 1 >= queue.acked /\ queue.acked >= queue.acked
        /\ queue.published + 1 \in Nat
    BY <2>2
  <2>4. /\ queue \in [published : Messages, delivered : Messages, acked : Messages, gap : BOOLEAN]
        /\ agent \in [proc : Procs, last : Procs, reg : Procs, armed : BOOLEAN]
    BY DEF Sane, SoundInv, WorldOK
  <2> QED BY <2>1, <2>2, <2>3, <2>4
<1>b. MovedOn => hist'.typed = 0
  BY <1>a DEF MovedOn, History
<1>1. ASSUME Publish \/ Resume PROVE ChargeInv'
  <2>1. /\ UNCHANGED <<agent, lease, wake, disp, hist>>
        /\ UNCHANGED queue \/ queue' = [queue EXCEPT !.published = @ + 1]
    BY <1>1 DEF Publish, Resume, EndPause, Published
  <2>2. /\ queue'.delivered = queue.delivered /\ queue'.acked = queue.acked
        /\ queue'.published \in Nat /\ queue'.published >= queue.published
    BY <1>a, <2>1
  <2> QED BY <2>1, <2>2, OutsideCharges
<1>2. ASSUME Take \/ Ack \/ Register PROVE ChargeInv'
  <2>1. UNCHANGED <<lease, wake, disp>> /\ hist'.typed = 0
    BY <1>2, <1>b DEF Take, Ack, Register
  <2>2. \/ queue' = [queue EXCEPT !.delivered = @ + 1, !.gap = FALSE]
        \/ queue' = [queue EXCEPT !.acked = @ + 1]
        \/ UNCHANGED queue
    BY <1>2 DEF Take, Ack, Register
  <2>3. queue'.published = queue.published /\ queue'.acked >= queue.acked
    BY <1>a, <2>2
  <2> QED BY <1>a, <2>1, <2>3, OutsideCharges
<1>3. ASSUME \/ Arm \/ Disarm \/ Die \/ Relaunch \/ Trim \/ Tick
             \/ SetPause \/ PauseDue \/ BeginSwap \/ SwapStep \/ IntentExpires \/ UNCHANGED vars
      PROVE  ChargeInv'
  <2>1. UNCHANGED <<lease, wake, disp, hist>>
    BY <1>3 DEF Arm, Disarm, Die, Relaunch, Trim, Tick, SetPause, PauseDue, BeginSwap, SwapStep,
                SwapCheck, ClosePane, Spawn, EndSwap, SwapDies, IntentExpires, vars
  <2>2. queue' = queue \/ queue' = [queue EXCEPT !.gap = TRUE]
    BY <1>3 DEF Arm, Disarm, Die, Relaunch, Trim, Tick, SetPause, PauseDue, BeginSwap, SwapStep,
                SwapCheck, ClosePane, Spawn, EndSwap, SwapDies, IntentExpires, vars
  <2>3. agent'.reg = agent.reg
    <3>1. \/ agent' = agent \/ agent' = [agent EXCEPT !.armed = TRUE]
          \/ agent' = [agent EXCEPT !.armed = FALSE]
          \/ agent' = [agent EXCEPT !.proc = 0, !.armed = FALSE]
          \/ agent' = [agent EXCEPT !.proc = agent.last + 1, !.last = @ + 1]
      BY <1>3 DEF Arm, Disarm, Die, Relaunch, Trim, Tick, SetPause, PauseDue, BeginSwap, SwapStep,
                  SwapCheck, ClosePane, Spawn, EndSwap, SwapDies, IntentExpires, vars, Launched
    <3> QED BY <1>a, <3>1
  <2>4. /\ queue'.delivered = queue.delivered /\ queue'.acked = queue.acked
        /\ queue'.published = queue.published
    BY <1>a, <2>2
  <2> QED BY <1>a, <2>1, <2>3, <2>4, OutsideCharges
<1>4. ASSUME Ebb \/ Expire \/ \E d \in Slots : Renew(d) PROVE ChargeInv'
  <2>0. CASE Ebb \/ \E d \in Slots : Renew(d)
    <3>1. UNCHANGED <<queue, agent, lease, wake, disp, hist>>
      BY <2>0 DEF Ebb, Renew, world
    <3> QED BY <1>a, <3>1, OutsideCharges
  <2> SUFFICES ASSUME Expire PROVE ChargeInv'
    BY <1>4, <2>0
  <2>1. lease' = None /\ UNCHANGED <<queue, agent, wake, disp, hist>>
    BY DEF Expire, world
  <2>2. Charged' = hist.typed /\ hist.typed <= Charged /\ Charged \in Nat
    <3>1. Charged \in {hist.typed, hist.typed + 1} /\ Charged' = hist.typed + 0
      BY <1>a, <2>1 DEF Charged, Pending
    <3> QED BY <1>a, <3>1
  <2>3. Within(wake, queue, agent.reg, hist.typed)
    BY <1>a, <2>2, Numbers, WithinLess DEF Sane, ChargeInv
  <2>4. ~Owed => hist.typed <= 1
    BY <1>a, <2>2 DEF Sane, ChargeInv
  <2> QED BY <1>a, <2>1, <2>2, <2>3, <2>4 DEF ChargeInv, Holds, Owed
<1>5. ASSUME NEW d \in Slots, DispStep(d) \/ Error(d) \/ Stop(d) PROVE ChargeInv'
  <2>1. CASE Acquire(d)
    <3>1. /\ lease = None /\ lease' = d /\ Do(d, Pass) /\ UNCHANGED <<queue, agent, wake, hist>>
      BY <2>1 DEF Acquire, world
    <3>2. Charges(Pass, queue, agent.reg, hist.typed) /\ Pending(Pass) = 0
      BY IdleCharges DEF Pass, Stopped
    <3>3. Charged = hist.typed + 0 /\ hist.typed + 0 = hist.typed
      BY <1>a, <3>1 DEF Charged
    <3>4. /\ Within(wake, queue, agent.reg, hist.typed + Pending(Pass))
          /\ ~Owed => hist.typed + Pending(Pass) <= 1
      BY <3>2, <3>3 DEF Sane, ChargeInv
    <3> QED BY <3>1, <3>2, <3>4, ChargeStep DEF Owed
  <2>2. CASE Holds(d) /\ ~Acquire(d)
    <3>1. ~Lost(d)
      BY <2>2 DEF Lost
    <3> QED BY <1>5, <2>2, <3>1, PassCharges, LookCharges, JudgeCharges, ReserveCharges, WriteCharges
            DEF DispStep
  <2>3. CASE ~Holds(d) /\ ~Acquire(d)
    <3>1. ~(Reserve(d) \/ Confirm(d) \/ Put(d) \/ EscalatePending(d) \/ EscalateNotify(d) \/ GapNotify(d))
      BY <2>3 DEF Reserve, Confirm, Put, EscalatePending, EscalateNotify, GapNotify
    <3>2. ~Type(d)
      BY <2>3 DEF Type, Sane, FenceInv, TypesHeld
    <3>3. /\ UNCHANGED <<agent, wake, hist, lease>> /\ UNCHANGED queue
      BY <1>5, <2>3, <3>1, <3>2
         DEF DispStep, Paused, Look, Judge, Recheck, EscalateCmd, Lost, Error, Stop, Holds, world
    <3>4. PICK next : Do(d, next)
      BY <1>5, <2>3, <3>1, <3>2
         DEF DispStep, Paused, Look, Judge, Recheck, EscalateCmd, Lost, Error, Stop
    <3>5. lease \in Slots => disp'[lease] = disp[lease]
      BY <2>3, <3>4, Numbers DEF Do, Holds, Sane
    <3> QED BY <1>a, <3>3, <3>5, OutsideCharges
  <2> QED BY <2>1, <2>2, <2>3
<1> QED BY <1>1, <1>2, <1>3, <1>4, <1>5 DEF Next

\* If a prompt is typed within the lease time left at its reservation, an agent
\* that does nothing is prompted at most MaxTries times, and once more by a pass
\* that looked before it last moved, until somebody is told: whatever crashes,
\* calls fail and dispatchers follow each other, and however often it moves,
\* escalations are repeated and records cleared (decide.go rules 3 to 5,
\* loop.go:674-700).
THEOREM PromptsBoundedCorrect == ASSUME ~MayStall PROVE Spec => []PromptsBounded
<1>1. SoundInv /\ FenceInv /\ ChargeInv => PromptsBounded
  <2> SUFFICES ASSUME SoundInv, FenceInv, ChargeInv PROVE PromptsBounded
    OBVIOUS
  <2>1. hist.typed \in Nat /\ wake.tries \in Nat /\ wake.tries <= MaxTries
    BY Numbers, LateNat DEF SoundInv, RunsOK, True, WakeRecord
  <2>2. Charged \in Nat /\ hist.typed <= Charged
    BY <2>1 DEF Charged, Pending
  <2>3. Charged <= 1 \/ Charged <= wake.tries + 1
    BY DEF ChargeInv, Within
  <2> QED BY <2>1, <2>2, <2>3, LateNat DEF PromptsBounded
<1>2. SoundInv /\ FenceInv /\ ChargeInv /\ [Next]_vars => ChargeInv'
  BY ChargeKept DEF Sane
<1> QED BY <1>1, <1>2, ChargeInit, FenceInit, FenceStep, SoundInit, SoundStep, PTL DEF Spec

=============================================================================
