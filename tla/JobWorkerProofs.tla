-------------------------- MODULE JobWorkerProofs --------------------------
(***************************************************************************)
(* JobWorker, for every set of jobs and workers, any batch and concurrency, *)
(* any faults: it implements JobQueue, and its safety properties hold.      *)
(*                                                                         *)
(* The invariant says where each claim is: in the batch of one worker or in *)
(* one dispatch task, and nowhere else; which claims may still be started;   *)
(* and what the history of a job's ends implies for its claims.             *)
(***************************************************************************)
EXTENDS JobWorker, JobQueueProofs, FiniteSetTheorems

\* Worker w has the claim of job j under token t, in its batch or in a task.
Holds(w, j, t) ==
    \/ \E c \in batch[w] : c.job = j /\ c.token = t
    \/ \E k \in tasks[w] : k.job = j /\ k.token = t

\* Everything held or started was claimed; a batch is there only while it is handed
\* out and its claims have not been started; a loop that is over has no tasks.
HeldInv ==
    \A w \in Workers :
        /\ \A c \in batch[w] : ClaimOf(c) \in claims /\ ClaimOf(c) \notin started
        /\ \A k \in tasks[w] : ClaimOf(k) \in claims
        /\ loop[w] \notin {"handing", "permit"} => batch[w] = {}
        /\ loop[w] \in {"returned", "failed", "down"} => tasks[w] = {}

\* No claim is in two batches, or twice in one.
BatchesApart ==
    \A v, w \in Workers : \A c \in batch[v], d \in batch[w] :
        ClaimOf(c) = ClaimOf(d) => v = w /\ c = d

\* What runs was started, and what was started was claimed.
StartedInv ==
    /\ started \subseteq claims
    /\ \A b \in bodies : [job |-> b.job, token |-> b.token] \in started

\* A task that is ending knows how; it ends with Ok only after its body did.
EndingInv ==
    \A w \in Workers : \A k \in tasks[w] :
        k.phase = "ending" => /\ k.result # "none"
                              /\ k.result = "ok" => ClaimOf(k) \in ranOk

\* The attempt a worker counts with is the row's, as long as the claim is good.
AttemptInv ==
    \A w \in Workers : \A c \in batch[w] \cup tasks[w] :
        Fenced(c.job, c.token) => row[c.job].attempts = c.attempt

\* A released claim was never started, and nobody is left to start it.
ReleasedInv ==
    \A e \in ends : e.how = "released" =>
        /\ [job |-> e.job, token |-> e.token] \notin started
        /\ \A w \in Workers : ~Holds(w, e.job, e.token)

\* A running row is under the newest claim of its job.
NewestRuns ==
    \A c \in claims : row[c.job].status = "running" => c.token <= row[c.job].token

\* Success and cancellation are final: no claim of the job came later.
FinalEnds ==
    \A e \in ends : e.how \in {"succeeded", "cancelled"} =>
        /\ row[e.job].status \in {"succeeded", "cancelled"}
        /\ \A c \in claims : c.job = e.job => c.token <= e.token

\* The claims of a job that count against its attempts: all but the released ones.
Counted(j) ==
    {c \in claims : c.job = j /\ ~ \E e \in ends :
        e.job = j /\ e.token = c.token /\ e.how = "released"}

\* A row that can be claimed has an attempt left among those that count, although
\* the attempts column may be past max_attempts.
BudgetInv ==
    "requeue" \notin Faults =>
        \A j \in Jobs :
            /\ IsFiniteSet(Counted(j))
            /\ Cardinality(Counted(j)) <= row[j].attempts
            /\ Cardinality(Counted(j)) <= MaxAttempts[j]
            /\ row[j].status \in {"absent", "pending"} => Cardinality(Counted(j)) < MaxAttempts[j]
            /\ row[j].status = "absent" => row[j].attempts = 0

\* A locked row is locked by somebody who has its claim, or whose loop failed.
OwnedInv ==
    {"crash", "mark_error"} \cap Faults = {} =>
        \A j \in Jobs, w \in Workers :
            row[j].owner = w => Holds(w, j, row[j].token) \/ loop[w] = "failed"

TableInv == QueueInv /\ NewestRuns /\ FinalEnds

WorkerInv ==
    /\ TypeOK /\ TableInv
    /\ HeldInv /\ ClaimHeldOnce /\ BatchesApart
    /\ StartedInv /\ EndingInv /\ AttemptInv /\ ReleasedInv
    /\ SuccessMeansRan /\ EventsMatchTable /\ BudgetInv /\ OwnedInv
-----------------------------------------------------------------------------
LEMMA HeldTokens ==
    ASSUME QueueInv, NEW c, ClaimOf(c) \in claims
    PROVE  c.job \in Jobs /\ c.token \in 1..lastToken
  BY DEF QueueInv, QueueTypeOK, HistoryInv, Claims, ClaimOf

LEMMA EndedFields ==
    \A j, t, how : Ended(j, t, how).job = j /\ Ended(j, t, how).token = t /\ Ended(j, t, how).how = how
  BY DEF Ended

\* What an outcome turns into.
LEMMA DecideFacts ==
    ASSUME NEW result \in Results, NEW a \in Nat, NEW m \in Nat
    PROVE  LET d == Decide(result, a, m) IN
           /\ d.to \in {"succeeded", "retry", "dead"}
           /\ d.kind \in ErrorKind
           /\ d.to = "succeeded" => result = "ok"
           /\ d.to = "retry" /\ result # "none" => a < m
  BY DEF Decide, Results, ErrorKind

\* A mark is a statement of the table.
LEMMA MarkPresents ==
    ASSUME NEW k, NEW d, Mark(k, d), d.to \in {"succeeded", "retry", "dead"}, d.kind \in ErrorKind
    PROVE  Present(k.job, k.token)
  BY DEF Mark, Present

\* Every step of the workers is a step of the table, or leaves it alone.
LEMMA StepRefines ==
    ASSUME TypeOK, QueueInv, HeldInv, [Next]_vars
    PROVE  [QueueNext]_queueVars
<1> DEFINE Same == UNCHANGED queueVars
<1>1. ASSUME NEW w \in Workers, LoopStep(w) PROVE QueueNext \/ Same
  <2>1. CASE LoopTop(w) \/ IdleWakes(w) \/ AwaitPermit(w) \/ BatchDone(w) \/ Drained(w)
    BY <2>1 DEF LoopTop, IdleWakes, AwaitPermit, BatchDone, Drained
  <2>2. CASE SweepDeadStep(w)
    BY <2>2 DEF SweepDeadStep, NoRow, QueueNext
  <2>3. CASE SweepRequeueStep(w)
    BY <2>3 DEF SweepRequeueStep, NoRow, QueueNext
  <2>4. CASE ClaimStep(w)
    BY <2>4 DEF ClaimStep, NoRow, QueueNext
  <2>5. ASSUME NEW c \in batch[w], Spawn(w, c) PROVE Same
    BY <2>5 DEF Spawn
  <2>6. ASSUME NEW c \in batch[w], Release(w, c) PROVE QueueNext \/ Same
    <3>1. c.job \in Jobs /\ c.token \in 1..lastToken
      BY HeldTokens DEF HeldInv
    <3>2. ReleaseClaim(c.job, c.token) => QueueNext
      BY <3>1 DEF QueueNext, Present
    <3> QED BY <2>6, <3>2 DEF Release, NoRow
  <2> QED BY <1>1, <2>1, <2>2, <2>3, <2>4, <2>5, <2>6 DEF LoopStep
<1>2. ASSUME NEW w \in Workers, TaskStep(w) PROVE QueueNext \/ Same
  <2> SUFFICES ASSUME NEW k \in tasks[w],
                      \/ StartBody(w, k) \/ BodyTimesOut(w, k) \/ Finish(w, k)
                      \/ \E result \in BodyResults : BodyReturns(w, k, result)
               PROVE  QueueNext \/ Same
    BY <1>2 DEF TaskStep
  <2>1. CASE Finish(w, k)
    <3> DEFINE d == Decide(k.result, k.attempt, MaxAttempts[k.job])
    <3>1. k \in Task
      BY DEF TypeOK
    <3>2. k.job \in Jobs /\ k.token \in 1..lastToken
      BY HeldTokens DEF HeldInv
    <3>3. d.to \in {"succeeded", "retry", "dead"} /\ d.kind \in ErrorKind
      BY <3>1, DecideFacts, QueueConstants DEF Task
    <3>4. Mark(k, d) \/ Same
      BY <2>1 DEF Finish, NoRow
    <3> HIDE DEF d
    <3>5. Mark(k, d) => QueueNext
      BY <3>2, <3>3, MarkPresents DEF QueueNext
    <3> QED BY <3>4, <3>5
  <2>2. CASE StartBody(w, k) \/ BodyTimesOut(w, k)
    BY <2>2 DEF StartBody, BodyTimesOut
  <2>3. ASSUME NEW result, BodyReturns(w, k, result) PROVE Same
    BY <2>3 DEF BodyReturns
  <2> QED BY <2>1, <2>2, <2>3
<1>3. ASSUME NEW w \in Workers, NEW k \in tasks[w], HeartbeatStep(w, k) PROVE QueueNext
  <2>1. k.job \in Jobs /\ k.token \in 1..lastToken
    BY HeldTokens DEF HeldInv
  <2> QED BY <1>3, <2>1 DEF HeartbeatStep, QueueNext, Present
<1>4. ASSUME NEW b \in bodies, StrayBodyStops(b) PROVE Same
  BY <1>4 DEF StrayBodyStops
<1>5. ASSUME NEW w \in Workers, Stop(w) \/ Crash(w) \/ Restart(w) PROVE Same
  BY <1>5 DEF Stop, Crash, Restart
<1>6. CASE Environment
  BY <1>6 DEF Environment, QueueNext
<1>7. CASE UNCHANGED vars
  BY <1>7 DEF vars, queueVars
<1> QED BY <1>1, <1>2, <1>3, <1>4, <1>5, <1>6, <1>7 DEF Next
-----------------------------------------------------------------------------
\* The newest claim of a job runs, and final means final, whatever statement runs.
LEMMA TableStep == TableInv /\ [QueueNext]_queueVars => TableInv'
<1> SUFFICES ASSUME TableInv, [QueueNext]_queueVars PROVE TableInv'
  OBVIOUS
<1>1. QueueInv /\ QueueInv'
  BY QueueInvStep DEF TableInv
<1>2. /\ row \in [Jobs -> Row] /\ lastToken \in Nat /\ claims \subseteq Claims /\ ends \subseteq Ends
      /\ row' \in [Jobs -> Row] /\ claims' \subseteq Claims /\ ends' \subseteq Ends
  BY <1>1 DEF QueueInv, QueueTypeOK
<1>3. \A c \in claims : c.job \in Jobs /\ c.token \in Nat /\ c.token <= lastToken
  BY <1>1, <1>2 DEF QueueInv, HistoryInv, Claims
<1>4. NewestRuns'
  <2>1. CASE Keeps
    BY <2>1, <1>3 DEF Keeps, NewestRuns, TableInv
  <2>2. ASSUME NEW S, NEW how, Closes(S, how) PROVE NewestRuns'
    BY <2>2, <1>3 DEF Closes, NewestRuns, TableInv
  <2>3. ASSUME NEW w, NEW S, Claiming(w, S) PROVE NewestRuns'
    BY <2>3, <1>2, <1>3 DEF Claiming, NewestRuns, TableInv
  <2> QED BY <1>1, <2>1, <2>2, <2>3, StepShapes DEF QueueInv
<1>5. \A e \in ends : e.how \in {"succeeded", "cancelled"} => row'[e.job] = row[e.job]
  <2> SUFFICES ASSUME NEW e \in ends, e.how \in {"succeeded", "cancelled"}
               PROVE  row'[e.job] = row[e.job]
    OBVIOUS
  <2> DEFINE i == e.job
  <2>0. i \in Jobs /\ row[i].status \in {"succeeded", "cancelled"}
    BY <1>2 DEF Ends, FinalEnds, TableInv
  <2> HIDE DEF i
  <2>1. ASSUME NEW j \in Jobs, NEW due \in BOOLEAN, Enqueue(j, due) PROVE row'[i] = row[i]
    BY <1>2, <2>0, <2>1 DEF Enqueue
  <2>2. ASSUME NEW w \in Workers, NEW S \in SUBSET Jobs, Claim(w, S) PROVE row'[i] = row[i]
    BY <1>2, <2>0, <2>2 DEF Claim, Claimable
  <2>3. ASSUME NEW j \in Jobs, NEW t \in 1..lastToken, Present(j, t) PROVE row'[i] = row[i]
    BY <1>2, <2>0, <2>3 DEF Present, MarkSucceeded, MarkRetry, MarkDead, Heartbeat, ReleaseClaim, Fenced
  <2>4. ASSUME NEW S \in SUBSET Jobs, SweepDead(S) \/ SweepRequeue(S) PROVE row'[i] = row[i]
    BY <1>2, <2>0, <2>4 DEF SweepDead, SweepRequeue, Expired
  <2>5. ASSUME NEW j \in Jobs, Cancel(j) \/ RequeueDead(j) PROVE row'[i] = row[i]
    BY <1>2, <2>0, <2>5 DEF Cancel, RequeueDead
  <2>6. ASSUME NEW j \in Jobs, ComesDue(j) \/ LeaseLapses(j) PROVE row'[i] = row[i]
    BY <1>2, <2>0, <2>6 DEF ComesDue, LeaseLapses
  <2>7. CASE UNCHANGED queueVars
    BY <2>7 DEF queueVars
  <2> HIDE <2>0
  <2> QED BY <2>1, <2>2, <2>3, <2>4, <2>5, <2>6, <2>7 DEF QueueNext, i
<1>6. ASSUME NEW e \in ends', e \notin ends, e.how \in {"succeeded", "cancelled"}
      PROVE  /\ row'[e.job].status \in {"succeeded", "cancelled"}
             /\ row[e.job].status = "running" /\ row[e.job].token = e.token
             /\ claims' = claims
  <2> DEFINE Goal == /\ row'[e.job].status \in {"succeeded", "cancelled"}
                     /\ row[e.job].status = "running" /\ row[e.job].token = e.token
                     /\ claims' = claims
  <2>1. ASSUME NEW j \in Jobs, NEW due \in BOOLEAN, Enqueue(j, due) PROVE FALSE
    BY <1>6, <2>1 DEF Enqueue
  <2>2. ASSUME NEW w \in Workers, NEW S \in SUBSET Jobs, Claim(w, S) PROVE FALSE
    BY <1>6, <2>2 DEF Claim
  <2>3. ASSUME NEW j \in Jobs, NEW t \in 1..lastToken, Present(j, t) PROVE Goal
    <3>1. MarkSucceeded(j, t)
      <4>1. ~MarkRetry(j, t) /\ ~Heartbeat(j, t) /\ ~ReleaseClaim(j, t)
        BY <1>6, EndedFields DEF MarkRetry, Heartbeat, ReleaseClaim
      <4>2. ASSUME NEW kind, MarkDead(j, t, kind) PROVE FALSE
        BY <1>6, <4>2, EndedFields DEF MarkDead
      <4> QED BY <2>3, <4>1, <4>2 DEF Present
    <3> QED BY <1>2, <1>6, <3>1 DEF MarkSucceeded, Fenced, Ended, Unlocked, Row
  <2>4. ASSUME NEW S \in SUBSET Jobs, SweepDead(S) \/ SweepRequeue(S) PROVE FALSE
    <3>1. e \in {Ended(j, row[j].token, "swept") : j \in S}
      BY <1>6, <2>4 DEF SweepDead, SweepRequeue
    <3> QED BY <1>6, <3>1, EndedFields
  <2>5. ASSUME NEW j \in Jobs, Cancel(j) PROVE Goal
    <3>1. /\ e = Ended(j, row[j].token, "cancelled") /\ row[j].status = "running"
          /\ claims' = claims
          /\ row' = [row EXCEPT ![j] = [Unlocked(row[j]) EXCEPT !.status = "cancelled"]]
      BY <1>6, <2>5 DEF Cancel
    <3>2. row'[j].status = "cancelled"
      BY <1>2, <3>1 DEF Unlocked, Row
    <3> QED BY <3>1, <3>2 DEF Ended
  <2>6. ASSUME NEW j \in Jobs, RequeueDead(j) \/ ComesDue(j) \/ LeaseLapses(j) PROVE FALSE
    BY <1>6, <2>6 DEF RequeueDead, ComesDue, LeaseLapses
  <2>7. CASE UNCHANGED queueVars
    BY <1>6, <2>7 DEF queueVars
  <2> QED BY <2>1, <2>2, <2>3, <2>4, <2>5, <2>6, <2>7 DEF QueueNext
<1>7. \A c \in claims' \ claims : row[c.job].status = "pending"
  <2>1. CASE Keeps
    BY <2>1 DEF Keeps
  <2>2. ASSUME NEW S, NEW how, Closes(S, how) PROVE claims' = claims
    BY <2>2 DEF Closes
  <2>3. ASSUME NEW w, NEW S, Claiming(w, S) PROVE <1>7
    BY <2>3 DEF Claiming
  <2> QED BY <1>1, <2>1, <2>2, <2>3, StepShapes DEF QueueInv
<1>8. FinalEnds'
  <2> SUFFICES ASSUME NEW e \in ends', e.how \in {"succeeded", "cancelled"}
               PROVE  /\ row'[e.job].status \in {"succeeded", "cancelled"}
                      /\ \A c \in claims' : c.job = e.job => c.token <= e.token
    BY DEF FinalEnds
  <2>1. CASE e \in ends
    BY <2>1, <1>5, <1>7 DEF FinalEnds, TableInv
  <2>2. CASE e \notin ends
    BY <2>2, <1>6 DEF NewestRuns, TableInv
  <2> QED BY <2>1, <2>2
<1> QED BY <1>1, <1>4, <1>8 DEF TableInv
-----------------------------------------------------------------------------
\* Types of what the workers keep.
LEMMA TypeStep ==
    ASSUME TypeOK, QueueTypeOK', [Next]_vars
    PROVE  TypeOK'
<1> USE DEF TypeOK
<1>0. ASSUME NEW w \in Workers, NEW to \in LoopState, Goto(w, to)
      PROVE  loop' \in [Workers -> LoopState]
  BY <1>0 DEF Goto
<1>1. ASSUME NEW w \in Workers, ReturnErr(w)
      PROVE  /\ loop' \in [Workers -> LoopState]
             /\ batch' \in [Workers -> SUBSET Claimed]
             /\ tasks' \in [Workers -> SUBSET Task]
             /\ aborted' \subseteq Claims
  BY <1>1 DEF ReturnErr, Goto, LoopState, Task, Claims
<1>2. ASSUME NEW w \in Workers, LoopStep(w) PROVE TypeOK'
  <2>1. CASE LoopTop(w) \/ IdleWakes(w) \/ AwaitPermit(w) \/ BatchDone(w) \/ Drained(w)
    BY <2>1 DEF LoopTop, IdleWakes, AwaitPermit, BatchDone, Drained, Goto, LoopState
  <2>2. CASE SweepDeadStep(w) \/ SweepRequeueStep(w)
    BY <2>2 DEF SweepDeadStep, SweepRequeueStep, Goto, LoopState
  <2>3. CASE ClaimStep(w)
    <3>1. /\ loop' \in [Workers -> LoopState] /\ batch' \in [Workers -> SUBSET Claimed]
          /\ tasks' \in [Workers -> SUBSET Task] /\ aborted' \subseteq Claims
      <4>1. ASSUME NEW S \in SUBSET Jobs,
                   batch' = [batch EXCEPT ![w] =
                     {[job |-> j, token |-> lastToken + 1, attempt |-> row[j].attempts + 1] : j \in S}]
            PROVE  batch' \in [Workers -> SUBSET Claimed]
        <5>1. \A j \in S : [job |-> j, token |-> lastToken + 1, attempt |-> row[j].attempts + 1] \in Claimed
          BY DEF Claimed, QueueTypeOK, Row
        <5> QED BY <4>1, <5>1
      <4>2. ASSUME Goto(w, "handing") \/ Goto(w, "idle") PROVE loop' \in [Workers -> LoopState]
        BY <4>2 DEF Goto, LoopState
      <4> QED BY <1>1, <2>3, <4>1, <4>2 DEF ClaimStep
    <3> QED BY <2>3, <3>1 DEF ClaimStep
  <2>4. ASSUME NEW c \in batch[w], Spawn(w, c) PROVE TypeOK'
    BY <2>4 DEF Spawn, Goto, LoopState, Claimed, Task, Results
  <2>5. ASSUME NEW c \in batch[w], Release(w, c) PROVE TypeOK'
    <3>1. /\ loop' \in [Workers -> LoopState] /\ batch' \in [Workers -> SUBSET Claimed]
          /\ tasks' \in [Workers -> SUBSET Task] /\ aborted' \subseteq Claims
      BY <1>1, <2>5 DEF Release, Goto, LoopState
    <3> QED BY <2>5, <3>1 DEF Release
  <2> QED BY <1>2, <2>1, <2>2, <2>3, <2>4, <2>5 DEF LoopStep
<1>3. ASSUME NEW w \in Workers, NEW k \in tasks[w], NEW phase \in {"running", "ending"},
             NEW result \in Results, Move(w, k, phase, result)
      PROVE  tasks' \in [Workers -> SUBSET Task]
  <2>0. k \in Task
    OBVIOUS
  <2>1. [k EXCEPT !.phase = phase, !.result = result] \in Task
    BY <2>0 DEF Task
  <2> QED BY <1>3, <2>1 DEF Move
<1>4. ASSUME NEW w \in Workers, NEW k \in tasks[w]
      PROVE  ClaimOf(k) \in Claims /\ BodyOf(w, k) \in Body
  BY DEF ClaimOf, BodyOf, Claims, Body, Task
<1>5. ASSUME NEW w \in Workers, TaskStep(w) PROVE TypeOK'
  <2>1. ASSUME NEW k \in tasks[w], StartBody(w, k) PROVE TypeOK'
    <3>1. tasks' \in [Workers -> SUBSET Task]
      BY <2>1, <1>3 DEF StartBody, Results
    <3> QED BY <2>1, <3>1, <1>4 DEF StartBody
  <2>2. ASSUME NEW k \in tasks[w], NEW result \in BodyResults, BodyReturns(w, k, result) PROVE TypeOK'
    <3>1. tasks' \in [Workers -> SUBSET Task]
      BY <2>2, <1>3 DEF BodyReturns, Results, BodyResults
    <3> QED BY <2>2, <3>1, <1>4 DEF BodyReturns
  <2>3. ASSUME NEW k \in tasks[w], BodyTimesOut(w, k) PROVE TypeOK'
    <3>1. tasks' \in [Workers -> SUBSET Task]
      BY <2>3, <1>3 DEF BodyTimesOut, Results
    <3> QED BY <2>3, <3>1 DEF BodyTimesOut
  <2>4. ASSUME NEW k \in tasks[w], Finish(w, k) PROVE TypeOK'
    <3> DEFINE d == Decide(k.result, k.attempt, MaxAttempts[k.job])
               ev == [job |-> k.job, token |-> k.token, kind |-> EventOf(d.to)]
    <3>1. k \in Task
      OBVIOUS
    <3>2. d.to \in {"succeeded", "retry", "dead"}
      BY <3>1, DecideFacts, QueueConstants DEF Task
    <3>3. EventOf(d.to) \in EventKind
      BY <3>2 DEF EventOf, EventKind
    <3>4. ev \in [job : Jobs, token : Nat \ {0}, kind : EventKind]
      BY <3>1, <3>3 DEF Task
    <3>5. events' \in {events, events \cup {ev}}
      BY <2>4 DEF Finish
    <3>6. events' \subseteq [job : Jobs, token : Nat \ {0}, kind : EventKind]
      BY <3>4, <3>5
    <3>7. /\ tasks' = [tasks EXCEPT ![w] = @ \ {k}]
          /\ UNCHANGED <<loop, stopping, batch, bodies, started, ranOk, aborted, restarts>>
      BY <2>4 DEF Finish
    <3> QED BY <3>6, <3>7
  <2> QED BY <1>5, <2>1, <2>2, <2>3, <2>4 DEF TaskStep
<1>6. ASSUME NEW w \in Workers, NEW k \in tasks[w], HeartbeatStep(w, k) PROVE TypeOK'
  BY <1>6 DEF HeartbeatStep, workerVars
<1>7. ASSUME NEW b \in bodies, StrayBodyStops(b) PROVE TypeOK'
  BY <1>7 DEF StrayBodyStops
<1>8. ASSUME NEW w \in Workers, Stop(w) \/ Crash(w) \/ Restart(w) PROVE TypeOK'
  <2>1. CASE Stop(w)
    BY <2>1 DEF Stop
  <2>2. CASE Crash(w)
    BY <2>2 DEF Crash, Goto, LoopState
  <2>3. CASE Restart(w)
    <3>1. restarts' \in 0..MaxRestarts
      BY <2>3, WorkerConstants DEF Restart
    <3> QED BY <2>3, <3>1 DEF Restart, Goto, LoopState
  <2> QED BY <1>8, <2>1, <2>2, <2>3
<1>9. CASE UNCHANGED workerVars
  BY <1>9 DEF workerVars
<1> QED BY <1>2, <1>5, <1>6, <1>7, <1>8, <1>9 DEF Next, vars, workerVars
-----------------------------------------------------------------------------
\* Nobody comes to hold anything, nothing is started.
Shrinks ==
    /\ \A w \in Workers : batch'[w] \subseteq batch[w] /\ tasks'[w] \subseteq tasks[w]
    /\ bodies' \subseteq bodies /\ started' = started /\ ranOk' = ranOk

\* The loops that move agree with what they hold.
LoopsAgree ==
    \A w \in Workers :
        /\ loop'[w] \notin {"handing", "permit"} => batch'[w] = {}
        /\ loop'[w] \in {"returned", "failed", "down"} => tasks'[w] = {}

\* The table keeps its locks or closes claims.
KeepsOrCloses == Keeps \/ \E S, how : Closes(S, how)

\* Under such a step the facts about single claims stand.
LEMMA ShrinkKeeps ==
    ASSUME WorkerInv, TypeOK', Shrinks, LoopsAgree, KeepsOrCloses
    PROVE  /\ HeldInv' /\ ClaimHeldOnce' /\ BatchesApart'
           /\ StartedInv' /\ EndingInv' /\ AttemptInv'
<1> USE DEF WorkerInv
<1>1. claims' = claims
  BY DEF KeepsOrCloses, Keeps, Closes
<1>2. HeldInv'
  BY <1>1 DEF HeldInv, Shrinks, LoopsAgree
<1>3. ClaimHeldOnce' /\ BatchesApart'
  BY DEF ClaimHeldOnce, BatchesApart, Shrinks
<1>4. StartedInv'
  BY <1>1 DEF StartedInv, Shrinks
<1>5. EndingInv'
  BY DEF EndingInv, Shrinks
<1>6. AttemptInv'
  <2> SUFFICES ASSUME NEW w \in Workers, NEW c \in batch'[w] \cup tasks'[w],
                      Fenced(c.job, c.token)'
               PROVE  row'[c.job].attempts = c.attempt
    BY DEF AttemptInv
  <2>1. c \in batch[w] \cup tasks[w] /\ c.job \in Jobs
    BY DEF Shrinks, TypeOK, Claimed, Task
  <2>2. Fenced(c.job, c.token) /\ row'[c.job].attempts = row[c.job].attempts
    BY <2>1 DEF KeepsOrCloses, Keeps, Closes, Fenced
  <2> QED BY <2>1, <2>2 DEF AttemptInv
<1> QED BY <1>2, <1>3, <1>4, <1>5, <1>6

\* Nothing is released: released claims stay where they are, and all others count.
LEMMA ReleasedKept ==
    ASSUME ReleasedInv, Shrinks, \A e \in ends' \ ends : e.how # "released"
    PROVE  ReleasedInv'
  BY DEF ReleasedInv, Shrinks, Holds

LEMMA CountedKept ==
    ASSUME NEW j \in Jobs, claims' = claims, ends \subseteq ends',
           \A e \in ends' \ ends : e.job = j => e.how # "released"
    PROVE  Counted(j)' = Counted(j)
  BY DEF Counted

\* A row comes back to pending only with an attempt left.
BudgetOk ==
    "requeue" \notin Faults =>
        \A j \in Jobs :
            /\ row'[j].attempts = IF row[j].status = "absent" THEN 0 ELSE row[j].attempts
            /\ row'[j].status = "absent" => row[j].status = "absent"
            /\ row'[j].status = "pending" =>
                  row[j].status \in {"absent", "pending"} \/ row[j].attempts < MaxAttempts[j]

LEMMA BudgetKept ==
    ASSUME TypeOK, BudgetInv, BudgetOk, claims' = claims, ends \subseteq ends',
           \A e \in ends' \ ends : e.how # "released"
    PROVE  BudgetInv'
<1> SUFFICES ASSUME "requeue" \notin Faults, NEW j \in Jobs
             PROVE  /\ IsFiniteSet(Counted(j)')
                    /\ Cardinality(Counted(j)') <= row'[j].attempts
                    /\ Cardinality(Counted(j)') <= MaxAttempts[j]
                    /\ row'[j].status \in {"absent", "pending"} => Cardinality(Counted(j)') < MaxAttempts[j]
                    /\ row'[j].status = "absent" => row'[j].attempts = 0
  BY DEF BudgetInv
<1>1. Counted(j)' = Counted(j)
  BY CountedKept
<1>2. IsFiniteSet(Counted(j)) /\ Cardinality(Counted(j)) \in Nat
  BY FS_CardinalityType DEF BudgetInv
<1>3. row[j].attempts \in Nat /\ MaxAttempts[j] \in Nat
  BY QueueConstants DEF TypeOK, QueueTypeOK, Row
<1> DEFINE n == Cardinality(Counted(j))
<1>4. /\ n <= row[j].attempts /\ n <= MaxAttempts[j] /\ n \in Nat
      /\ row[j].status \in {"absent", "pending"} => n < MaxAttempts[j]
      /\ row[j].status = "absent" => row[j].attempts = 0
  BY <1>2 DEF BudgetInv
<1> HIDE DEF n
<1>5. /\ n <= row'[j].attempts
      /\ row'[j].status \in {"absent", "pending"} => n < MaxAttempts[j]
      /\ row'[j].status = "absent" => row'[j].attempts = 0
  BY <1>3, <1>4 DEF BudgetOk
<1> QED BY <1>1, <1>2, <1>4, <1>5 DEF n

\* A lock stays with who has the claim, as long as nobody lets go of one.
LEMMA OwnedKept ==
    ASSUME WorkerInv, KeepsOrCloses, UNCHANGED <<batch, tasks>>,
           \A w \in Workers : loop[w] = "failed" => loop'[w] = "failed"
    PROVE  OwnedInv'
<1> SUFFICES ASSUME {"crash", "mark_error"} \cap Faults = {}, NEW j \in Jobs, NEW w \in Workers,
                    row'[j].owner = w
             PROVE  Holds(w, j, row[j].token)' \/ loop'[w] = "failed"
  BY DEF OwnedInv
<1>1. row[j].owner = w /\ row'[j].token = row[j].token
  BY QueueConstants DEF KeepsOrCloses, Keeps, Closes
<1> QED BY <1>1 DEF WorkerInv, OwnedInv, Holds

\* The steps that only change the table, end bodies or drop claims.
LEMMA TableMoves ==
    ASSUME WorkerInv, TypeOK', TableInv', Shrinks, LoopsAgree, events' = events,
           Keeps \/ \E S, how : Closes(S, how) /\ how \in {"swept", "cancelled"},
           BudgetOk, OwnedInv'
    PROVE  WorkerInv'
<1>1. KeepsOrCloses
  BY DEF KeepsOrCloses
<1>2. /\ claims' = claims /\ ends \subseteq ends'
      /\ \A e \in ends' \ ends : e.how \in {"swept", "cancelled"}
  <2>1. CASE Keeps
    BY <2>1 DEF Keeps
  <2>2. ASSUME NEW S, NEW how, Closes(S, how), how \in {"swept", "cancelled"}
        PROVE  /\ claims' = claims /\ ends \subseteq ends'
               /\ \A e \in ends' \ ends : e.how \in {"swept", "cancelled"}
    BY <2>2, EndedFields DEF Closes
  <2> QED BY <2>1, <2>2
<1>3. ReleasedInv' /\ BudgetInv'
  <2>1. \A e \in ends' \ ends : e.how # "released"
    BY <1>2
  <2>2. ReleasedInv'
    BY <2>1, ReleasedKept DEF WorkerInv
  <2>3. BudgetInv'
    BY <1>2, <2>1, BudgetKept DEF WorkerInv
  <2> QED BY <2>2, <2>3
<1>4. SuccessMeansRan'
  BY <1>2 DEF WorkerInv, SuccessMeansRan, Shrinks
<1>5. EventsMatchTable'
  BY <1>2 DEF WorkerInv, EventsMatchTable
<1> QED BY <1>1, <1>3, <1>4, <1>5, ShrinkKeeps DEF WorkerInv
LEMMA SameTable ==
    ASSUME WorkerInv, UNCHANGED queueVars
    PROVE  Keeps /\ BudgetOk
<1> USE DEF queueVars, WorkerInv, TypeOK, QueueTypeOK
<1>1. Keeps
  BY DEF Keeps
<1>2. BudgetOk
  BY DEF BudgetOk, BudgetInv
<1> QED BY <1>1, <1>2

\* The steps of the loop that only move it, and the shutdown token.
LEMMA QuietSteps ==
    ASSUME WorkerInv, TypeOK', TableInv', NEW w \in Workers,
           LoopTop(w) \/ IdleWakes(w) \/ AwaitPermit(w) \/ BatchDone(w) \/ Drained(w) \/ Stop(w)
    PROVE  WorkerInv'
<1> USE DEF LoopTop, IdleWakes, AwaitPermit, BatchDone, Drained, Stop, Goto
<1>1. UNCHANGED queueVars /\ UNCHANGED <<batch, tasks, bodies, started, ranOk, events>>
  OBVIOUS
<1>2. Shrinks
  BY <1>1 DEF Shrinks
<1>3. LoopsAgree /\ \A v \in Workers : loop[v] = "failed" => loop'[v] = "failed"
  BY <1>1 DEF LoopsAgree, WorkerInv, HeldInv, TypeOK, LoopState
<1>4. OwnedInv'
  BY <1>1, <1>3, SameTable, OwnedKept DEF KeepsOrCloses
<1> QED BY <1>1, <1>2, <1>3, <1>4, SameTable, TableMoves

\* Both statements of the sweep: what comes back to pending has an attempt left.
LEMMA SweepSteps ==
    ASSUME WorkerInv, TypeOK', TableInv', NEW w \in Workers,
           SweepDeadStep(w) \/ SweepRequeueStep(w)
    PROVE  WorkerInv'
<1>1. UNCHANGED <<batch, tasks, bodies, started, ranOk, events>>
  BY DEF SweepDeadStep, SweepRequeueStep
<1>2. Shrinks
  BY <1>1 DEF Shrinks
<1>3. LoopsAgree /\ \A v \in Workers : loop[v] = "failed" => loop'[v] = "failed"
  BY <1>1 DEF LoopsAgree, WorkerInv, HeldInv, TypeOK, LoopState, SweepDeadStep, SweepRequeueStep, Goto
<1>4. ASSUME NEW S \in SUBSET Jobs, SweepDead(S) \/ SweepRequeue(S)
      PROVE  Closes(S, "swept") /\ BudgetOk
  <2>1. Closes(S, "swept")
    BY <1>4, SweepShape DEF WorkerInv, TypeOK
  <2>2. row \in [Jobs -> Row]
    BY DEF WorkerInv, TypeOK, QueueTypeOK
  <2>3. ASSUME SweepDead(S), NEW j \in S
        PROVE  row'[j].status = "dead" /\ row'[j].attempts = row[j].attempts
    BY <2>2, <2>3 DEF SweepDead, Unlocked, Row
  <2>4. ASSUME SweepRequeue(S), NEW j \in S
        PROVE  row'[j].status = "pending" /\ row'[j].attempts = row[j].attempts
    BY <2>2, <2>4 DEF SweepRequeue, Unlocked, Row
  <2>5. ASSUME SweepRequeue(S), NEW j \in S PROVE row[j].attempts < MaxAttempts[j]
    <3>1. row[j].attempts \in Nat /\ MaxAttempts[j] \in Nat
      BY <2>2, QueueConstants DEF Row
    <3>2. ~Exhausted(j)
      BY <2>5 DEF SweepRequeue
    <3> QED BY <3>1, <3>2 DEF Exhausted
  <2>6. \A j \in S : row[j].status = "running"
    BY <2>1 DEF Closes
  <2>7. BudgetOk
    <3> SUFFICES ASSUME "requeue" \notin Faults, NEW j \in Jobs
                 PROVE  /\ row'[j].attempts = IF row[j].status = "absent" THEN 0 ELSE row[j].attempts
                        /\ row'[j].status = "absent" => row[j].status = "absent"
                        /\ row'[j].status = "pending" =>
                              row[j].status \in {"absent", "pending"} \/ row[j].attempts < MaxAttempts[j]
      BY DEF BudgetOk
    <3>1. CASE j \in S
      BY <1>4, <2>3, <2>4, <2>5, <2>6, <3>1
    <3>2. CASE j \notin S
      BY <2>1, <3>2 DEF Closes, WorkerInv, BudgetInv
    <3> QED BY <3>1, <3>2
  <2> QED BY <2>1, <2>7
<1>5. ((\E S : Closes(S, "swept")) /\ BudgetOk) \/ (Keeps /\ BudgetOk)
  BY <1>4, SameTable DEF SweepDeadStep, SweepRequeueStep, NoRow
<1>6. KeepsOrCloses /\ (Keeps \/ \E S, how : Closes(S, how) /\ how \in {"swept", "cancelled"}) /\ BudgetOk
  BY <1>5 DEF KeepsOrCloses
<1>7. OwnedInv'
  BY <1>1, <1>3, <1>6, OwnedKept
<1> QED BY <1>1, <1>2, <1>3, <1>6, <1>7, TableMoves

\* Producers, operators, time and heartbeats.
LEMMA WorldSteps ==
    ASSUME WorkerInv, TypeOK', TableInv', UNCHANGED workerVars,
           Environment \/ \E w \in Workers : \E k \in tasks[w] : Heartbeat(k.job, k.token)
    PROVE  WorkerInv'
<1>1. UNCHANGED <<loop, batch, tasks, bodies, started, ranOk, events>>
  BY DEF workerVars
<1>2. Shrinks /\ LoopsAgree /\ \A v \in Workers : loop[v] = "failed" => loop'[v] = "failed"
  BY <1>1 DEF Shrinks, LoopsAgree, WorkerInv, HeldInv
<1>3. row \in [Jobs -> Row] /\ QueueTypeOK /\ LockedIffRunning
  BY DEF WorkerInv, TableInv, QueueInv, TypeOK, QueueTypeOK
<1> DEFINE Ok == BudgetOk /\ (Keeps \/ \E S, how : Closes(S, how) /\ how \in {"swept", "cancelled"})
<1>4. ASSUME NEW j \in Jobs, NEW due \in BOOLEAN, Enqueue(j, due) PROVE Ok
  <2>1. BudgetOk
    BY <1>3, <1>4 DEF BudgetOk, Enqueue, EmptyRow, WorkerInv, BudgetInv, Row
  <2> QED BY <1>3, <1>4, <2>1, OtherShapes
<1>5. ASSUME NEW j \in Jobs, Cancel(j) PROVE Ok
  <2>1. BudgetOk
    BY <1>3, <1>5 DEF BudgetOk, Cancel, Unlocked, WorkerInv, BudgetInv, Row
  <2> QED BY <1>3, <1>5, <2>1, CancelShape
<1>6. ASSUME NEW j \in Jobs, "requeue" \in Faults, RequeueDead(j) PROVE Ok
  BY <1>3, <1>6, OtherShapes DEF BudgetOk
<1>7. ASSUME NEW j \in Jobs, ComesDue(j) \/ LeaseLapses(j) \/ \E t : Heartbeat(j, t) PROVE Ok
  <2>1. BudgetOk
    BY <1>3, <1>7 DEF BudgetOk, ComesDue, LeaseLapses, Heartbeat, Fenced, WorkerInv, BudgetInv, Row
  <2> QED BY <1>3, <1>7, <2>1, OtherShapes
<1>8. ASSUME NEW w \in Workers, NEW k \in tasks[w] PROVE k.job \in Jobs
  BY DEF WorkerInv, TypeOK, Task
<1>9. Ok
  BY <1>4, <1>5, <1>6, <1>7, <1>8 DEF Environment
<1>10. OwnedInv'
  BY <1>1, <1>2, <1>9, OwnedKept DEF KeepsOrCloses
<1> QED BY <1>1, <1>2, <1>9, <1>10, TableMoves

\* A body nobody waits for ends, a process dies or is started again.
LEMMA ProcessSteps ==
    ASSUME WorkerInv, TypeOK', TableInv',
           \/ \E b \in bodies : StrayBodyStops(b)
           \/ \E w \in Workers : Crash(w) \/ Restart(w)
    PROVE  WorkerInv'
<1> USE DEF StrayBodyStops, Crash, Restart, Goto
<1>1. UNCHANGED queueVars /\ events' = events
  OBVIOUS
<1>2. Shrinks
  BY DEF Shrinks, WorkerInv, TypeOK
<1>3. LoopsAgree
  BY DEF LoopsAgree, WorkerInv, HeldInv, TypeOK
<1>4. OwnedInv'
  <2>1. ASSUME NEW w \in Workers, Crash(w) PROVE OwnedInv'
    BY <2>1 DEF OwnedInv
  <2>2. ASSUME NEW w \in Workers, Restart(w) PROVE OwnedInv'
    <3>1. UNCHANGED <<batch, tasks>> /\ \A v \in Workers : loop[v] = "failed" => loop'[v] = "failed"
      BY <2>2 DEF WorkerInv, TypeOK
    <3> QED BY <1>1, <3>1, SameTable, OwnedKept DEF KeepsOrCloses
  <2>3. ASSUME NEW b \in bodies, StrayBodyStops(b) PROVE OwnedInv'
    BY <1>1, <2>3, SameTable, OwnedKept DEF KeepsOrCloses
  <2> QED BY <2>1, <2>2, <2>3
<1> QED BY <1>1, <1>2, <1>3, <1>4, SameTable, TableMoves
\* A claim that fails ends the loop, and with it every task of the worker.
LEMMA ErrorStep ==
    ASSUME WorkerInv, TypeOK', TableInv', NEW w \in Workers, ReturnErr(w), UNCHANGED queueVars,
           UNCHANGED <<bodies, started, ranOk, events>>
    PROVE  WorkerInv'
<1>1. Shrinks
  BY DEF Shrinks, ReturnErr, WorkerInv, TypeOK
<1>2. LoopsAgree
  BY DEF LoopsAgree, ReturnErr, Goto, WorkerInv, HeldInv, TypeOK
<1>3. OwnedInv'
  BY DEF OwnedInv, ReturnErr, Goto, WorkerInv, TypeOK, Holds, queueVars
<1> QED BY <1>1, <1>2, <1>3, SameTable, TableMoves

\* A fresh token is in no claim, batch, task, end or start.
LEMMA FreshToken ==
    ASSUME WorkerInv
    PROVE  /\ lastToken \in Nat
           /\ \A c \in claims : c.token # lastToken + 1
           /\ \A c \in started : c.token # lastToken + 1
           /\ \A e \in ends : e.token # lastToken + 1
           /\ \A v \in Workers : \A c \in batch[v] \cup tasks[v] : c.token # lastToken + 1
<1>1. lastToken \in Nat /\ claims \subseteq Claims /\ \A c \in claims : c.token <= lastToken
  BY DEF WorkerInv, TypeOK, QueueTypeOK, TableInv, QueueInv, HistoryInv
<1>2. \A c \in claims : c.token # lastToken + 1
  BY <1>1 DEF Claims
<1>3. \A e \in ends : e.token # lastToken + 1
  BY <1>2 DEF WorkerInv, TableInv, QueueInv, HistoryInv
<1>4. \A v \in Workers : \A c \in batch[v] \cup tasks[v] : c.token # lastToken + 1
  <2> SUFFICES ASSUME NEW v \in Workers, NEW c \in batch[v] \cup tasks[v] PROVE c.token # lastToken + 1
    OBVIOUS
  <2>1. ClaimOf(c) \in claims /\ ClaimOf(c).token = c.token
    BY DEF WorkerInv, HeldInv, ClaimOf
  <2> QED BY <1>2, <2>1
<1> QED BY <1>1, <1>2, <1>3, <1>4 DEF WorkerInv, StartedInv

\* A claim takes an attempt of the rows it locks.
LEMMA ClaimBudget ==
    ASSUME WorkerInv, NEW w \in Workers, NEW S \in SUBSET Jobs, Claiming(w, S)
    PROVE  BudgetInv'
<1> SUFFICES ASSUME "requeue" \notin Faults, NEW j \in Jobs
             PROVE  /\ IsFiniteSet(Counted(j)')
                    /\ Cardinality(Counted(j)') <= row'[j].attempts
                    /\ Cardinality(Counted(j)') <= MaxAttempts[j]
                    /\ row'[j].status \in {"absent", "pending"} => Cardinality(Counted(j)') < MaxAttempts[j]
                    /\ row'[j].status = "absent" => row'[j].attempts = 0
  BY DEF BudgetInv
<1> DEFINE n == Cardinality(Counted(j))
<1>1. /\ IsFiniteSet(Counted(j)) /\ n \in Nat
      /\ n <= row[j].attempts /\ n <= MaxAttempts[j]
      /\ row[j].status \in {"absent", "pending"} => n < MaxAttempts[j]
      /\ row[j].status = "absent" => row[j].attempts = 0
  BY FS_CardinalityType DEF WorkerInv, BudgetInv
<1>2. row[j].attempts \in Nat /\ MaxAttempts[j] \in Nat
  BY QueueConstants DEF WorkerInv, TypeOK, QueueTypeOK, Row
<1>3. CASE j \notin S
  <2>1. Counted(j)' = Counted(j) /\ row'[j] = row[j]
    BY <1>3 DEF Claiming, Counted
  <2> QED BY <1>1, <2>1
<1>4. CASE j \in S
  <2> DEFINE c == [job |-> j, token |-> lastToken + 1]
  <2>1. Counted(j)' = Counted(j) \cup {c} /\ c \notin Counted(j)
    BY <1>4, FreshToken DEF Claiming, Counted
  <2>2. IsFiniteSet(Counted(j)') /\ Cardinality(Counted(j)') = n + 1
    BY <1>1, <2>1, FS_AddElement
  <2>3. /\ row[j].status = "pending" /\ row'[j].status = "running"
        /\ row'[j].attempts = row[j].attempts + 1
    BY <1>4 DEF Claiming
  <2> HIDE DEF n
  <2> QED BY <1>1, <1>2, <2>2, <2>3
<1> QED BY <1>3, <1>4

\* claim_jobs returned rows.
LEMMA ClaimSucceeds ==
    ASSUME WorkerInv, TypeOK', TableInv', NEW w \in Workers, NEW S \in SUBSET Jobs,
           loop[w] = "claiming", Claim(w, S), Goto(w, "handing"),
           batch' = [batch EXCEPT ![w] =
               {[job |-> j, token |-> lastToken + 1, attempt |-> row[j].attempts + 1] : j \in S}],
           UNCHANGED <<tasks, bodies, started, ranOk, events>>
    PROVE  WorkerInv'
<1> DEFINE new(j) == [job |-> j, token |-> lastToken + 1, attempt |-> row[j].attempts + 1]
<1>1. Claiming(w, S)
  BY ClaimShape DEF WorkerInv, TypeOK
<1>2. /\ batch \in [Workers -> SUBSET Claimed] /\ tasks \in [Workers -> SUBSET Task]
      /\ loop \in [Workers -> LoopState] /\ batch[w] = {}
  BY DEF WorkerInv, TypeOK, HeldInv
<1>3. /\ batch'[w] = {new(j) : j \in S}
      /\ \A v \in Workers : v # w => batch'[v] = batch[v]
      /\ loop'[w] = "handing" /\ \A v \in Workers : v # w => loop'[v] = loop[v]
  BY <1>2 DEF Goto
<1>4. /\ claims \subseteq claims' /\ ends' = ends
      /\ \A j \in S : [job |-> j, token |-> lastToken + 1] \in claims'
  BY <1>1 DEF Claiming
<1>5. \A j \in S : /\ ClaimOf(new(j)) = [job |-> j, token |-> lastToken + 1]
                   /\ new(j).job = j /\ new(j).token = lastToken + 1
                   /\ new(j).attempt = row[j].attempts + 1
  BY DEF ClaimOf
<1>6. \A c : ClaimOf(c).token = c.token /\ ClaimOf(c).job = c.job
  BY DEF ClaimOf
<1> HIDE DEF new
<1>7. HeldInv'
  <2> SUFFICES ASSUME NEW v \in Workers
               PROVE  /\ \A c \in batch'[v] : ClaimOf(c) \in claims' /\ ClaimOf(c) \notin started
                      /\ \A k \in tasks[v] : ClaimOf(k) \in claims'
                      /\ loop'[v] \notin {"handing", "permit"} => batch'[v] = {}
                      /\ loop'[v] \in {"returned", "failed", "down"} => tasks[v] = {}
    BY DEF HeldInv
  <2>1. CASE v = w
    BY <1>3, <1>4, <1>5, <1>6, <2>1, FreshToken DEF WorkerInv, HeldInv
  <2>2. CASE v # w
    BY <1>3, <1>4, <2>2 DEF WorkerInv, HeldInv
  <2> QED BY <2>1, <2>2
<1>8. ClaimHeldOnce'
  BY <1>3, <1>5, <1>6, FreshToken DEF WorkerInv, ClaimHeldOnce
<1>9. BatchesApart'
  BY <1>3, <1>5, <1>6, FreshToken DEF WorkerInv, BatchesApart
<1>10. StartedInv' /\ EndingInv' /\ SuccessMeansRan' /\ EventsMatchTable'
  BY <1>4 DEF WorkerInv, StartedInv, EndingInv, SuccessMeansRan, EventsMatchTable
<1>11. AttemptInv'
  <2> SUFFICES ASSUME NEW v \in Workers, NEW c \in batch'[v] \cup tasks[v], Fenced(c.job, c.token)'
               PROVE  row'[c.job].attempts = c.attempt
    BY DEF AttemptInv
  <2>1. CASE c \in batch[v] \cup tasks[v]
    <3>1. c.token # lastToken + 1 /\ c.job \in Jobs
      BY <1>2, <2>1, FreshToken DEF Claimed, Task
    <3>2. row'[c.job] = row[c.job]
      BY <1>1, <3>1 DEF Claiming, Fenced
    <3> QED BY <2>1, <3>2 DEF Fenced, WorkerInv, AttemptInv
  <2>2. CASE c \notin batch[v] \cup tasks[v]
    <3>1. PICK j \in S : c = new(j)
      BY <1>3, <2>2
    <3> QED BY <1>1, <1>5, <3>1 DEF Claiming
  <2> QED BY <2>1, <2>2
<1>12. ReleasedInv'
  <2> SUFFICES ASSUME NEW e \in ends, e.how = "released", NEW v \in Workers
               PROVE  ~Holds(v, e.job, e.token)' /\ [job |-> e.job, token |-> e.token] \notin started
    BY <1>4 DEF ReleasedInv
  <2>1. e.token # lastToken + 1
    BY FreshToken
  <2> QED BY <1>3, <1>5, <2>1 DEF WorkerInv, ReleasedInv, Holds
<1>13. BudgetInv'
  BY <1>1, ClaimBudget
<1>14. OwnedInv'
  <2> SUFFICES ASSUME {"crash", "mark_error"} \cap Faults = {}, NEW j \in Jobs, NEW v \in Workers,
                      row'[j].owner = v
               PROVE  Holds(v, j, row[j].token)' \/ loop'[v] = "failed"
    BY DEF OwnedInv
  <2>1. CASE j \in S
    <3>1. v = w /\ row'[j].token = lastToken + 1 /\ new(j) \in batch'[w]
      BY <1>1, <1>3, <2>1 DEF Claiming
    <3> QED BY <1>5, <2>1, <3>1 DEF Holds
  <2>2. CASE j \notin S
    <3>1. row'[j] = row[j]
      BY <1>1, <2>2 DEF Claiming
    <3>2. Holds(v, j, row[j].token) \/ loop[v] = "failed"
      BY <3>1 DEF WorkerInv, OwnedInv
    <3>3. CASE v = w
      BY <1>2, <3>1, <3>2, <3>3 DEF Holds
    <3>4. CASE v # w
      BY <1>3, <3>1, <3>2, <3>4 DEF Holds
    <3> QED BY <3>3, <3>4
  <2> QED BY <2>1, <2>2
<1> QED BY <1>7, <1>8, <1>9, <1>10, <1>11, <1>12, <1>13, <1>14 DEF WorkerInv

\* The claim took effect and its answer was lost: the rows are locked by a loop
\* that failed, until the sweep takes them back.
LEMMA ClaimLost ==
    ASSUME WorkerInv, TypeOK', TableInv', NEW w \in Workers, NEW S \in SUBSET Jobs,
           Claim(w, S), ReturnErr(w), UNCHANGED <<bodies, started, ranOk, events>>
    PROVE  WorkerInv'
<1>1. Claiming(w, S)
  BY ClaimShape DEF WorkerInv, TypeOK
<1>2. /\ loop'[w] = "failed" /\ batch'[w] = {} /\ tasks'[w] = {}
      /\ \A v \in Workers : v # w => /\ loop'[v] = loop[v]
                                     /\ batch'[v] = batch[v] /\ tasks'[v] = tasks[v]
  BY DEF ReturnErr, Goto, WorkerInv, TypeOK
<1>3. claims \subseteq claims' /\ ends' = ends
  BY <1>1 DEF Claiming
<1>4. HeldInv'
  BY <1>2, <1>3 DEF WorkerInv, HeldInv
<1>5. ClaimHeldOnce' /\ BatchesApart'
  BY <1>2 DEF WorkerInv, ClaimHeldOnce, BatchesApart
<1>6. StartedInv' /\ EndingInv' /\ SuccessMeansRan' /\ EventsMatchTable'
  BY <1>2, <1>3 DEF WorkerInv, StartedInv, EndingInv, SuccessMeansRan, EventsMatchTable
<1>7. AttemptInv'
  <2> SUFFICES ASSUME NEW v \in Workers, NEW c \in batch'[v] \cup tasks'[v], Fenced(c.job, c.token)'
               PROVE  row'[c.job].attempts = c.attempt
    BY DEF AttemptInv
  <2>1. c \in batch[v] \cup tasks[v]
    BY <1>2
  <2>2. c.token # lastToken + 1 /\ c.job \in Jobs
    BY <2>1, FreshToken DEF WorkerInv, TypeOK, Claimed, Task
  <2>3. row'[c.job] = row[c.job]
    BY <1>1, <2>2 DEF Claiming, Fenced
  <2> QED BY <2>1, <2>3 DEF Fenced, WorkerInv, AttemptInv
<1>8. ReleasedInv'
  BY <1>2, <1>3 DEF WorkerInv, ReleasedInv, Holds
<1>9. OwnedInv'
  <2> SUFFICES ASSUME {"crash", "mark_error"} \cap Faults = {}, NEW j \in Jobs, NEW v \in Workers,
                      row'[j].owner = v
               PROVE  Holds(v, j, row[j].token)' \/ loop'[v] = "failed"
    BY DEF OwnedInv
  <2>1. CASE v = w
    BY <1>2, <2>1
  <2>2. CASE v # w
    <3>1. row'[j] = row[j]
      BY <1>1, <2>2 DEF Claiming
    <3> QED BY <1>2, <2>2, <3>1 DEF WorkerInv, OwnedInv, Holds
  <2> QED BY <2>1, <2>2
<1> QED BY <1>1, <1>4, <1>5, <1>6, <1>7, <1>8, <1>9, ClaimBudget DEF WorkerInv

\* Shutdown before the permit: the claim goes back, or somebody has taken it.
LEMMA ReleaseSteps ==
    ASSUME WorkerInv, TypeOK', TableInv', NEW w \in Workers, NEW c \in batch[w], Release(w, c)
    PROVE  WorkerInv'
<1> DEFINE Handed == /\ batch' = [batch EXCEPT ![w] = @ \ {c}]
                     /\ Goto(w, "handing") /\ UNCHANGED <<tasks, aborted>>
<1>1. /\ UNCHANGED <<bodies, started, ranOk, events>>
      /\ Handed \/ ReturnErr(w)
  BY DEF Release
<1>2. /\ batch \in [Workers -> SUBSET Claimed] /\ tasks \in [Workers -> SUBSET Task]
      /\ loop \in [Workers -> LoopState] /\ c \in Claimed
      /\ row \in [Jobs -> Row] /\ QueueTypeOK /\ LockedIffRunning
  BY DEF WorkerInv, TypeOK, QueueTypeOK, TableInv, QueueInv
<1>3. /\ c \notin batch'[w] /\ batch'[w] \subseteq batch[w] /\ tasks'[w] \subseteq tasks[w]
      /\ \A v \in Workers : v # w => /\ batch'[v] = batch[v] /\ tasks'[v] = tasks[v]
                                     /\ loop'[v] = loop[v]
      /\ \/ loop'[w] = "failed" /\ batch'[w] = {} /\ tasks'[w] = {}
         \/ loop'[w] = "handing" /\ Handed /\ batch'[w] = batch[w] \ {c} /\ tasks'[w] = tasks[w]
  <2>1. CASE Handed
    BY <1>2, <2>1 DEF Goto
  <2>2. CASE ReturnErr(w)
    BY <1>2, <2>2 DEF ReturnErr, Goto
  <2> QED BY <1>1, <2>1, <2>2
<1>4. Shrinks
  BY <1>1, <1>3 DEF Shrinks
<1>5. LoopsAgree
  BY <1>3 DEF LoopsAgree, WorkerInv, HeldInv
<1> HIDE DEF Handed
<1>6. CASE UNCHANGED queueVars
  <2>1. CASE ReturnErr(w)
    BY <1>1, <1>6, <2>1, ErrorStep
  <2>2. CASE ~Fenced(c.job, c.token) /\ loop'[w] = "handing"
    <3>1. OwnedInv'
      <4> SUFFICES ASSUME {"crash", "mark_error"} \cap Faults = {}, NEW j \in Jobs, NEW v \in Workers,
                          row[j].owner = v
                   PROVE  Holds(v, j, row[j].token)' \/ loop'[v] = "failed"
        BY <1>6 DEF OwnedInv, queueVars
      <4>1. Holds(v, j, row[j].token) \/ loop[v] = "failed"
        BY DEF WorkerInv, OwnedInv
      <4>2. row'[j].token = row[j].token /\ row[j].status = "running"
        BY <1>2, <1>6, QueueConstants DEF queueVars, LockedIffRunning
      <4>3. CASE v = w
        <5>1. loop[w] # "failed"
          BY DEF Release
        <5>2. ~(c.job = j /\ c.token = row[j].token)
          BY <2>2, <4>2 DEF Fenced
        <5>3. batch'[w] = batch[w] \ {c} /\ tasks'[w] = tasks[w]
          BY <1>3, <2>2
        <5> QED BY <4>1, <4>2, <4>3, <5>1, <5>2, <5>3 DEF Holds
      <4>4. CASE v # w
        BY <1>3, <4>1, <4>2, <4>4 DEF Holds
      <4> QED BY <4>3, <4>4
    <3> QED BY <1>1, <1>4, <1>5, <1>6, <3>1, SameTable, TableMoves
  <2>3. ~ReleaseClaim(c.job, c.token)
    <3>1. c.job \in Jobs
      BY <1>2 DEF Claimed
    <3>2. ReleaseClaim(c.job, c.token) => row[c.job].status = "running" /\ row'[c.job].status = "pending"
      BY <1>2, <3>1 DEF ReleaseClaim, Fenced, Unlocked, Row
    <3> QED BY <1>6, <3>2 DEF queueVars
  <2>4. (~Fenced(c.job, c.token) /\ Goto(w, "handing")) \/ ReturnErr(w)
    BY <2>3 DEF Release
  <2>5. Goto(w, "handing") => loop'[w] = "handing"
    BY <1>2 DEF Goto
  <2> QED BY <2>1, <2>2, <2>4, <2>5
<1>7. CASE ReleaseClaim(c.job, c.token)
  <2> DEFINE i == c.job
             e0 == Ended(c.job, c.token, "released")
  <2>1. /\ i \in Jobs /\ Closes({i}, "released") /\ Fenced(i, c.token)
        /\ row'[i].status = "pending" /\ row'[i].attempts = row[i].attempts
        /\ ends' = ends \cup {e0} /\ claims' = claims
    <3>1. i \in Jobs
      BY <1>2 DEF Claimed
    <3>2. Closes({i}, "released")
      BY <1>2, <1>7, <3>1, CompletionShape
    <3> QED BY <1>2, <1>7, <3>1, <3>2 DEF ReleaseClaim, Unlocked, Row
  <2>2. e0.job = i /\ e0.token = c.token /\ e0.how = "released"
    BY EndedFields
  <2> HIDE DEF e0
  <2>3. KeepsOrCloses
    BY <2>1 DEF KeepsOrCloses
  <2>4. ReleasedInv'
    <3> SUFFICES ASSUME NEW e \in ends', e.how = "released", NEW v \in Workers
                 PROVE  [job |-> e.job, token |-> e.token] \notin started' /\ ~Holds(v, e.job, e.token)'
      BY DEF ReleasedInv
    <3>1. CASE e \in ends
      BY <1>4, <3>1 DEF WorkerInv, ReleasedInv, Shrinks, Holds
    <3>2. CASE e = e0
      <4>1. [job |-> e.job, token |-> e.token] = ClaimOf(c)
        BY <2>2, <3>2 DEF ClaimOf
      <4>2. ClaimOf(c) \notin started
        BY DEF WorkerInv, HeldInv
      <4>3. ASSUME NEW d \in batch'[v] PROVE ~(d.job = e.job /\ d.token = e.token)
        <5>1. d \in batch[v] /\ ~(v = w /\ d = c)
          BY <1>3, <4>3 DEF Shrinks
        <5>2. ClaimOf(d) # ClaimOf(c)
          BY <5>1 DEF WorkerInv, BatchesApart
        <5> QED BY <2>2, <3>2, <5>2 DEF ClaimOf
      <4>4. ASSUME NEW k \in tasks'[v] PROVE ~(k.job = e.job /\ k.token = e.token)
        <5>1. k \in tasks[v]
          BY <1>4 DEF Shrinks
        <5>2. ClaimOf(k) # ClaimOf(c)
          BY <5>1 DEF WorkerInv, ClaimHeldOnce
        <5> QED BY <2>2, <3>2, <5>2 DEF ClaimOf
      <4> QED BY <1>4, <4>1, <4>2, <4>3, <4>4 DEF Holds, Shrinks
    <3> QED BY <2>1, <3>1, <3>2
  <2>5. SuccessMeansRan' /\ EventsMatchTable'
    BY <1>1, <2>1, <2>2 DEF WorkerInv, SuccessMeansRan, EventsMatchTable
  <2>6. BudgetInv'
    <3> SUFFICES ASSUME "requeue" \notin Faults, NEW j \in Jobs
                 PROVE  /\ IsFiniteSet(Counted(j)')
                        /\ Cardinality(Counted(j)') <= row'[j].attempts
                        /\ Cardinality(Counted(j)') <= MaxAttempts[j]
                        /\ row'[j].status \in {"absent", "pending"} => Cardinality(Counted(j)') < MaxAttempts[j]
                        /\ row'[j].status = "absent" => row'[j].attempts = 0
      BY DEF BudgetInv
    <3> DEFINE n == Cardinality(Counted(j))
    <3>1. /\ IsFiniteSet(Counted(j)) /\ n \in Nat
          /\ n <= row[j].attempts /\ n <= MaxAttempts[j]
          /\ row[j].status \in {"absent", "pending"} => n < MaxAttempts[j]
          /\ row[j].status = "absent" => row[j].attempts = 0
      BY FS_CardinalityType DEF WorkerInv, BudgetInv
    <3>2. row[j].attempts \in Nat /\ MaxAttempts[j] \in Nat \ {0}
      BY QueueConstants DEF WorkerInv, TypeOK, QueueTypeOK, Row
    <3>3. CASE j # i
      <4>1. Counted(j)' = Counted(j)
        BY <2>1, <2>2, <3>3, CountedKept
      <4>2. row'[j] = row[j]
        BY <2>1, <3>3 DEF Closes
      <4> QED BY <3>1, <4>1, <4>2
    <3>4. CASE j = i
      <4>1. ClaimOf(c) \in claims /\ ClaimOf(c).job = i /\ ClaimOf(c).token = c.token
        BY DEF WorkerInv, HeldInv, ClaimOf
      <4>2. ~ \E e \in ends : e.job = i /\ e.token = c.token
        BY <2>1, <4>1 DEF WorkerInv, TableInv, QueueInv, ClaimsAccounted
      <4>3. ClaimOf(c) \in Counted(j)
        BY <3>4, <4>1, <4>2 DEF Counted
      <4>4. Counted(j)' = Counted(j) \ {ClaimOf(c)}
        <5>1. \A d \in claims : d.job = i /\ d.token = c.token => d = ClaimOf(c)
          BY <1>2 DEF Claims, ClaimOf, QueueTypeOK
        <5> QED BY <2>1, <2>2, <3>4, <4>1, <5>1 DEF Counted
      <4>5. IsFiniteSet(Counted(j)') /\ Cardinality(Counted(j)') = n - 1
        BY <3>1, <4>3, <4>4, FS_RemoveElement
      <4> HIDE DEF n
      <4> QED BY <2>1, <3>1, <3>2, <3>4, <4>5
    <3> QED BY <3>3, <3>4
  <2>7. OwnedInv'
    <3> SUFFICES ASSUME {"crash", "mark_error"} \cap Faults = {}, NEW j \in Jobs, NEW v \in Workers,
                        row'[j].owner = v
                 PROVE  Holds(v, j, row[j].token)' \/ loop'[v] = "failed"
      BY DEF OwnedInv
    <3>1. j # i
      BY <2>1, QueueConstants DEF Closes
    <3>2. row'[j] = row[j]
      BY <2>1, <3>1 DEF Closes
    <3>3. Holds(v, j, row[j].token) \/ loop[v] = "failed"
      BY <3>2 DEF WorkerInv, OwnedInv
    <3>4. CASE v = w
      <4>1. loop[w] # "failed"
        BY DEF Release
      <4> QED BY <1>3, <3>1, <3>2, <3>3, <3>4, <4>1 DEF Holds
    <3>5. CASE v # w
      BY <1>3, <3>2, <3>3, <3>5 DEF Holds
    <3> QED BY <3>4, <3>5
  <2> QED BY <1>4, <1>5, <2>3, <2>4, <2>5, <2>6, <2>7, ShrinkKeeps DEF WorkerInv
<1> QED BY <1>6, <1>7 DEF Release, NoRow

\* claim_jobs returned rows, found none, or failed.
LEMMA ClaimSteps ==
    ASSUME WorkerInv, TypeOK', TableInv', NEW w \in Workers, ClaimStep(w)
    PROVE  WorkerInv'
<1>1. loop[w] = "claiming" /\ UNCHANGED <<bodies, started, ranOk, events>>
  BY DEF ClaimStep
<1>2. CASE NoRow /\ Goto(w, "idle") /\ UNCHANGED <<batch, tasks, aborted>>
  <2>1. UNCHANGED queueVars
    BY <1>2 DEF NoRow
  <2>2. Shrinks
    BY <1>1, <1>2 DEF Shrinks
  <2>3. LoopsAgree /\ \A v \in Workers : loop[v] = "failed" => loop'[v] = "failed"
    BY <1>1, <1>2 DEF LoopsAgree, WorkerInv, HeldInv, TypeOK, Goto
  <2>4. OwnedInv'
    BY <1>2, <2>1, <2>3, SameTable, OwnedKept DEF KeepsOrCloses
  <2> QED BY <1>1, <2>1, <2>2, <2>3, <2>4, SameTable, TableMoves
<1>3. CASE NoRow /\ ReturnErr(w)
  BY <1>1, <1>3, ErrorStep DEF NoRow
<1>4. ASSUME NEW S \in SUBSET Jobs, Claim(w, S), ReturnErr(w) PROVE WorkerInv'
  BY <1>1, <1>4, ClaimLost
<1> QED BY <1>1, <1>2, <1>3, <1>4, ClaimSucceeds DEF ClaimStep
-----------------------------------------------------------------------------
\* A claim moves from the batch into a task of its own.
LEMMA SpawnSteps ==
    ASSUME WorkerInv, TypeOK', TableInv', NEW w \in Workers, NEW c \in batch[w], Spawn(w, c)
    PROVE  WorkerInv'
<1> DEFINE k0 == [job |-> c.job, token |-> c.token, attempt |-> c.attempt,
                  phase |-> "spawned", result |-> "none"]
<1>1. /\ batch \in [Workers -> SUBSET Claimed] /\ tasks \in [Workers -> SUBSET Task]
      /\ loop \in [Workers -> LoopState]
  BY DEF WorkerInv, TypeOK
<1>2. /\ batch'[w] = batch[w] \ {c} /\ tasks'[w] = tasks[w] \cup {k0} /\ loop'[w] = "handing"
      /\ \A v \in Workers : v # w => /\ batch'[v] = batch[v] /\ tasks'[v] = tasks[v]
                                     /\ loop'[v] = loop[v]
      /\ loop[w] = "permit"
  BY <1>1 DEF Spawn, Goto
<1>3. UNCHANGED queueVars /\ UNCHANGED <<row, claims, ends>>
      /\ UNCHANGED <<bodies, started, ranOk, events>>
  BY DEF Spawn, queueVars
<1>4. /\ k0.job = c.job /\ k0.token = c.token /\ k0.attempt = c.attempt
      /\ k0.phase = "spawned" /\ ClaimOf(k0) = ClaimOf(c)
  BY DEF ClaimOf
<1> HIDE DEF k0
<1>5. \A v \in Workers : /\ batch'[v] \subseteq batch[v]
                         /\ \A k \in tasks'[v] : k \in tasks[v] \/ (v = w /\ k = k0)
                         /\ \A d \in batch'[v] : ~(v = w /\ d = c)
  BY <1>2
<1>6. HeldInv'
  BY <1>2, <1>3, <1>4, <1>5 DEF WorkerInv, HeldInv
<1>7. ClaimHeldOnce'
  <2>1. ASSUME NEW u \in Workers, NEW v \in Workers, NEW d \in batch'[u], NEW k \in tasks'[v]
        PROVE  ClaimOf(d) # ClaimOf(k)
    <3>1. CASE k \in tasks[v]
      BY <1>5, <3>1 DEF WorkerInv, ClaimHeldOnce
    <3>2. CASE v = w /\ k = k0
      BY <1>4, <1>5, <3>2 DEF WorkerInv, BatchesApart
    <3> QED BY <1>5, <3>1, <3>2
  <2>0. \A v \in Workers : \A m \in tasks[v] : ClaimOf(c) # ClaimOf(m)
    BY DEF WorkerInv, ClaimHeldOnce
  <2>2. ASSUME NEW u \in Workers, NEW v \in Workers, NEW k \in tasks'[u], NEW m \in tasks'[v],
               ClaimOf(k) = ClaimOf(m)
        PROVE  u = v /\ k = m
    <3>1. CASE k \in tasks[u] /\ m \in tasks[v]
      BY <2>2, <3>1 DEF WorkerInv, ClaimHeldOnce
    <3>2. CASE k \in tasks[u] /\ m = k0
      BY <1>4, <2>0, <2>2, <3>2
    <3>3. CASE k = k0 /\ m \in tasks[v]
      BY <1>4, <2>0, <2>2, <3>3
    <3> QED BY <1>5, <3>1, <3>2, <3>3
  <2> QED BY <2>1, <2>2 DEF ClaimHeldOnce
<1>8. BatchesApart'
  BY <1>5 DEF WorkerInv, BatchesApart
<1>9. StartedInv' /\ SuccessMeansRan' /\ EventsMatchTable'
  BY <1>3 DEF WorkerInv, StartedInv, SuccessMeansRan, EventsMatchTable
<1>10. EndingInv'
  BY <1>3, <1>4, <1>5 DEF WorkerInv, EndingInv
<1>11. AttemptInv'
  <2> SUFFICES ASSUME NEW v \in Workers, NEW d \in batch'[v] \cup tasks'[v], Fenced(d.job, d.token)
               PROVE  row[d.job].attempts = d.attempt
    BY <1>3 DEF AttemptInv, Fenced
  <2>1. CASE d \in batch[v] \cup tasks[v]
    BY <2>1 DEF WorkerInv, AttemptInv
  <2>2. CASE d = k0
    BY <1>4, <2>2 DEF WorkerInv, AttemptInv
  <2> QED BY <1>5, <2>1, <2>2
<1>12. \A v \in Workers : \A j, t : Holds(v, j, t)' <=> Holds(v, j, t)
  <2> SUFFICES ASSUME NEW v \in Workers, NEW j, NEW t PROVE Holds(v, j, t)' <=> Holds(v, j, t)
    OBVIOUS
  <2>1. CASE v = w
    BY <1>2, <1>4, <2>1 DEF Holds
  <2>2. CASE v # w
    BY <1>2, <2>2 DEF Holds
  <2> QED BY <2>1, <2>2
<1>13. ReleasedInv'
  BY <1>3, <1>12 DEF WorkerInv, ReleasedInv
<1>14. BudgetInv'
  BY <1>3 DEF WorkerInv, BudgetInv, Counted
<1>15. OwnedInv'
  <2> SUFFICES ASSUME {"crash", "mark_error"} \cap Faults = {}, NEW j \in Jobs, NEW v \in Workers,
                      row'[j].owner = v
               PROVE  Holds(v, j, row[j].token)' \/ loop'[v] = "failed"
    BY DEF OwnedInv
  <2>1. Holds(v, j, row[j].token) \/ loop[v] = "failed"
    BY <1>3 DEF WorkerInv, OwnedInv
  <2>2. loop[v] = "failed" => loop'[v] = "failed"
    BY <1>2
  <2>3. Holds(v, j, row[j].token)' <=> Holds(v, j, row[j].token)
    BY <1>2, <1>3, <1>12 DEF Holds
  <2> QED BY <2>1, <2>2, <2>3
<1> QED BY <1>6, <1>7, <1>8, <1>9, <1>10, <1>11, <1>13, <1>14, <1>15 DEF WorkerInv

\* A task goes on to its next phase, with the claim it has.
LEMMA MoveKeeps ==
    ASSUME WorkerInv, TypeOK', TableInv', NEW w \in Workers, NEW k \in tasks[w], NEW k1,
           k1.job = k.job, k1.token = k.token, k1.attempt = k.attempt,
           tasks' = [tasks EXCEPT ![w] = (@ \ {k}) \cup {k1}],
           UNCHANGED queueVars, UNCHANGED <<loop, batch, events>>,
           started' = started \/ started' = started \cup {ClaimOf(k)},
           ranOk \subseteq ranOk',
           \A b \in bodies' : b \in bodies \/ [job |-> b.job, token |-> b.token] \in started',
           k1.phase = "ending" => k1.result # "none" /\ (k1.result = "ok" => ClaimOf(k) \in ranOk')
    PROVE  WorkerInv'
<1>1. batch \in [Workers -> SUBSET Claimed] /\ tasks \in [Workers -> SUBSET Task]
  BY DEF WorkerInv, TypeOK
<1>2. /\ tasks'[w] = (tasks[w] \ {k}) \cup {k1}
      /\ \A v \in Workers : v # w => tasks'[v] = tasks[v]
  BY <1>1
<1>3. UNCHANGED <<row, claims, ends>>
  BY DEF queueVars
<1>4. ClaimOf(k1) = ClaimOf(k)
  BY DEF ClaimOf
<1>5. \A v \in Workers : \A m \in tasks'[v] :
         \/ m \in tasks[v] /\ ~(v = w /\ m = k)
         \/ v = w /\ m = k1
  BY <1>2
<1>6. \A v \in Workers : \A c \in batch[v] : ClaimOf(c) # ClaimOf(k)
  BY DEF WorkerInv, ClaimHeldOnce
<1>7. \A v \in Workers : \A m \in tasks[v] : ClaimOf(m) = ClaimOf(k) => v = w /\ m = k
  BY DEF WorkerInv, ClaimHeldOnce
<1>8. HeldInv'
  <2> SUFFICES ASSUME NEW v \in Workers
               PROVE  /\ \A c \in batch[v] : ClaimOf(c) \in claims /\ ClaimOf(c) \notin started'
                      /\ \A m \in tasks'[v] : ClaimOf(m) \in claims
                      /\ loop[v] \notin {"handing", "permit"} => batch[v] = {}
                      /\ loop[v] \in {"returned", "failed", "down"} => tasks'[v] = {}
    BY <1>3 DEF HeldInv
  <2>1. /\ \A c \in batch[v] : ClaimOf(c) \in claims /\ ClaimOf(c) \notin started
        /\ \A m \in tasks[v] : ClaimOf(m) \in claims
        /\ loop[v] \notin {"handing", "permit"} => batch[v] = {}
        /\ loop[v] \in {"returned", "failed", "down"} => tasks[v] = {}
    BY DEF WorkerInv, HeldInv
  <2> QED BY <1>2, <1>4, <1>5, <1>6, <2>1
<1>9. ClaimHeldOnce'
  <2>1. ASSUME NEW u \in Workers, NEW v \in Workers, NEW c \in batch[u], NEW m \in tasks'[v]
        PROVE  ClaimOf(c) # ClaimOf(m)
    <3>1. CASE m \in tasks[v]
      BY <3>1 DEF WorkerInv, ClaimHeldOnce
    <3>2. CASE m = k1
      BY <1>4, <1>6, <3>2
    <3> QED BY <1>5, <3>1, <3>2
  <2>2. ASSUME NEW u \in Workers, NEW v \in Workers, NEW l \in tasks'[u], NEW m \in tasks'[v],
               ClaimOf(l) = ClaimOf(m)
        PROVE  u = v /\ l = m
    <3>1. CASE l \in tasks[u] /\ m \in tasks[v]
      BY <2>2, <3>1 DEF WorkerInv, ClaimHeldOnce
    <3>2. CASE l = k1 \/ m = k1
      BY <1>4, <1>5, <1>7, <2>2, <3>2
    <3> QED BY <1>5, <3>1, <3>2
  <2> QED BY <2>1, <2>2 DEF ClaimHeldOnce
<1>10. BatchesApart' /\ SuccessMeansRan' /\ EventsMatchTable'
  BY <1>3 DEF WorkerInv, BatchesApart, SuccessMeansRan, EventsMatchTable
<1>11. StartedInv'
  <2>1. ClaimOf(k) \in claims
    BY DEF WorkerInv, HeldInv
  <2> QED BY <1>3, <2>1 DEF WorkerInv, StartedInv
<1>12. EndingInv'
  BY <1>4, <1>5 DEF WorkerInv, EndingInv
<1>13. AttemptInv'
  <2> SUFFICES ASSUME NEW v \in Workers, NEW d \in batch[v] \cup tasks'[v], Fenced(d.job, d.token)
               PROVE  row[d.job].attempts = d.attempt
    BY <1>3 DEF AttemptInv, Fenced
  <2>1. CASE d \in batch[v] \cup tasks[v]
    BY <2>1 DEF WorkerInv, AttemptInv
  <2>2. CASE d = k1
    BY <2>2 DEF WorkerInv, AttemptInv
  <2> QED BY <1>5, <2>1, <2>2
<1>14. \A v \in Workers : \A j, t : Holds(v, j, t)' <=> Holds(v, j, t)
  <2> SUFFICES ASSUME NEW v \in Workers, NEW j, NEW t PROVE Holds(v, j, t)' <=> Holds(v, j, t)
    OBVIOUS
  <2>1. CASE v = w
    BY <1>2, <2>1 DEF Holds
  <2>2. CASE v # w
    BY <1>2, <2>2 DEF Holds
  <2> QED BY <2>1, <2>2
<1>15. ReleasedInv'
  <2> SUFFICES ASSUME NEW e \in ends, e.how = "released"
               PROVE  /\ [job |-> e.job, token |-> e.token] \notin started'
                      /\ \A v \in Workers : ~Holds(v, e.job, e.token)'
    BY <1>3 DEF ReleasedInv
  <2>1. /\ [job |-> e.job, token |-> e.token] \notin started
        /\ \A v \in Workers : ~Holds(v, e.job, e.token)
    BY DEF WorkerInv, ReleasedInv
  <2>2. [job |-> e.job, token |-> e.token] # ClaimOf(k)
    BY <2>1 DEF Holds, ClaimOf
  <2>3. \A v \in Workers : ~Holds(v, e.job, e.token)'
    BY <1>14, <2>1
  <2> QED BY <2>1, <2>2, <2>3
<1>16. BudgetInv'
  BY <1>3 DEF WorkerInv, BudgetInv, Counted
<1>17. OwnedInv'
  <2> SUFFICES ASSUME {"crash", "mark_error"} \cap Faults = {}, NEW j \in Jobs, NEW v \in Workers,
                      row'[j].owner = v
               PROVE  Holds(v, j, row[j].token)' \/ loop'[v] = "failed"
    BY DEF OwnedInv
  <2>1. Holds(v, j, row[j].token) \/ loop[v] = "failed"
    BY <1>3 DEF WorkerInv, OwnedInv
  <2>3. Holds(v, j, row[j].token)' <=> Holds(v, j, row[j].token)
    <3>1. CASE v = w
      BY <1>2, <1>3, <3>1 DEF Holds
    <3>2. CASE v # w
      BY <1>2, <1>3, <3>2 DEF Holds
    <3> QED BY <3>1, <3>2
  <2> QED BY <2>1, <2>3
<1> QED BY <1>8, <1>9, <1>10, <1>11, <1>12, <1>13, <1>15, <1>16, <1>17 DEF WorkerInv

\* The body starts, returns or times out.
LEMMA BodySteps ==
    ASSUME WorkerInv, TypeOK', TableInv', NEW w \in Workers, NEW k \in tasks[w],
           \/ StartBody(w, k) \/ BodyTimesOut(w, k)
           \/ \E result \in BodyResults : BodyReturns(w, k, result)
    PROVE  WorkerInv'
<1> DEFINE k1(phase, result) == [k EXCEPT !.phase = phase, !.result = result]
<1>1. k \in Task
  BY DEF WorkerInv, TypeOK
<1>2. \A phase, result : /\ k1(phase, result).job = k.job /\ k1(phase, result).token = k.token
                         /\ k1(phase, result).attempt = k.attempt
                         /\ k1(phase, result).phase = phase /\ k1(phase, result).result = result
  BY <1>1 DEF Task
<1>3. \A phase, result : Move(w, k, phase, result) =>
         tasks' = [tasks EXCEPT ![w] = (@ \ {k}) \cup {k1(phase, result)}]
  BY DEF Move
<1> HIDE DEF k1
<1>4. CASE StartBody(w, k)
  <2>1. /\ UNCHANGED queueVars /\ UNCHANGED <<loop, batch, events, ranOk>>
    BY <1>4 DEF StartBody
  <2>2. CASE k.job \in Registered
    <3>1. /\ Move(w, k, "running", "none") /\ started' = started \cup {ClaimOf(k)}
          /\ bodies' = bodies \cup {BodyOf(w, k)}
      BY <1>4, <2>2 DEF StartBody
    <3>2. \A b \in bodies' : b \in bodies \/ [job |-> b.job, token |-> b.token] \in started'
      BY <3>1 DEF BodyOf, ClaimOf
    <3> DEFINE kk == k1("running", "none")
    <3>3. /\ kk.job = k.job /\ kk.token = k.token /\ kk.attempt = k.attempt /\ kk.phase = "running"
          /\ tasks' = [tasks EXCEPT ![w] = (@ \ {k}) \cup {kk}]
      BY <1>2, <1>3, <3>1
    <3> HIDE DEF kk
    <3> QED BY <2>1, <3>1, <3>2, <3>3, MoveKeeps
  <2>3. CASE k.job \notin Registered
    <3>1. Move(w, k, "ending", "unknown") /\ UNCHANGED <<started, bodies>>
      BY <1>4, <2>3 DEF StartBody
    <3> DEFINE kk == k1("ending", "unknown")
    <3>3. /\ kk.job = k.job /\ kk.token = k.token /\ kk.attempt = k.attempt /\ kk.result = "unknown"
          /\ tasks' = [tasks EXCEPT ![w] = (@ \ {k}) \cup {kk}]
      BY <1>2, <1>3, <3>1
    <3> HIDE DEF kk
    <3> QED BY <2>1, <3>1, <3>3, MoveKeeps
  <2> QED BY <2>2, <2>3
<1>5. CASE BodyTimesOut(w, k)
  <2> DEFINE kk == k1("ending", "timeout")
  <2>1. /\ kk.job = k.job /\ kk.token = k.token /\ kk.attempt = k.attempt /\ kk.result = "timeout"
        /\ tasks' = [tasks EXCEPT ![w] = (@ \ {k}) \cup {kk}]
    BY <1>2, <1>3, <1>5 DEF BodyTimesOut
  <2>2. UNCHANGED queueVars /\ UNCHANGED <<loop, batch, events, ranOk, started, bodies>>
    BY <1>5 DEF BodyTimesOut
  <2> HIDE DEF kk
  <2> QED BY <2>1, <2>2, MoveKeeps
<1>6. ASSUME NEW result \in BodyResults, BodyReturns(w, k, result) PROVE WorkerInv'
  <2> DEFINE kk == k1("ending", result)
  <2>1. /\ kk.job = k.job /\ kk.token = k.token /\ kk.attempt = k.attempt /\ kk.result = result
        /\ tasks' = [tasks EXCEPT ![w] = (@ \ {k}) \cup {kk}]
    BY <1>2, <1>3, <1>6 DEF BodyReturns
  <2>2. UNCHANGED queueVars /\ UNCHANGED <<loop, batch, events, started>> /\ bodies' \subseteq bodies
    BY <1>6 DEF BodyReturns
  <2>3. ranOk \subseteq ranOk' /\ (result = "ok" => ClaimOf(k) \in ranOk') /\ result # "none"
    BY <1>6 DEF BodyReturns, BodyResults
  <2> HIDE DEF kk
  <2> QED BY <2>1, <2>2, <2>3, MoveKeeps
<1> QED BY <1>4, <1>5, <1>6

\* The outcome is written, or the claim was lost, or the statement failed.
LEMMA FinishSteps ==
    ASSUME WorkerInv, TypeOK', TableInv', NEW w \in Workers, NEW k \in tasks[w], Finish(w, k)
    PROVE  WorkerInv'
<1> DEFINE i == k.job
           d == Decide(k.result, k.attempt, MaxAttempts[k.job])
           ev == [job |-> k.job, token |-> k.token, kind |-> EventOf(d.to)]
<1>1. /\ tasks' = [tasks EXCEPT ![w] = @ \ {k}] /\ k.phase = "ending"
      /\ UNCHANGED <<loop, batch, bodies, started, ranOk>>
  BY DEF Finish
<1>2. /\ tasks \in [Workers -> SUBSET Task] /\ k \in Task /\ i \in Jobs /\ k.attempt \in Nat
      /\ row \in [Jobs -> Row] /\ QueueTypeOK /\ LockedIffRunning
  BY DEF WorkerInv, TypeOK, QueueTypeOK, TableInv, QueueInv, Task
<1>3. /\ d.to \in {"succeeded", "retry", "dead"} /\ d.kind \in ErrorKind
      /\ d.to = "succeeded" => k.result = "ok"
      /\ d.to = "retry" => k.attempt < MaxAttempts[i]
  <2>1. k.result \in Results /\ MaxAttempts[i] \in Nat /\ k.result # "none"
    BY <1>1, <1>2, QueueConstants DEF Task, WorkerInv, EndingInv
  <2> QED BY <1>2, <2>1, DecideFacts
<1>4. \/ Mark(k, d) /\ (events' = events \/ events' = events \cup {ev})
      \/ /\ UNCHANGED queueVars /\ events' = events
         /\ ~Fenced(k.job, k.token) \/ "mark_error" \in Faults
  BY DEF Finish, NoRow
<1>5. ev.job = i /\ ev.token = k.token /\ ev.kind = EventOf(d.to)
  OBVIOUS
<1> HIDE DEF d, ev
<1>6. /\ tasks'[w] = tasks[w] \ {k} /\ \A v \in Workers : v # w => tasks'[v] = tasks[v]
  BY <1>1, <1>2
<1>7. Shrinks /\ LoopsAgree
  BY <1>1, <1>6 DEF Shrinks, LoopsAgree, WorkerInv, HeldInv
<1>8. ASSUME \/ UNCHANGED row /\ ~Fenced(i, k.token)
             \/ Fenced(i, k.token) /\ \E how : Closes({i}, how)
      PROVE  OwnedInv'
  <2> SUFFICES ASSUME {"crash", "mark_error"} \cap Faults = {}, NEW j \in Jobs, NEW v \in Workers,
                      row'[j].owner = v
               PROVE  Holds(v, j, row[j].token)' \/ loop'[v] = "failed"
    BY DEF OwnedInv
  <2>1. row'[j] = row[j] /\ ~(j = i /\ row[j].token = k.token)
    <3>1. CASE UNCHANGED row /\ ~Fenced(i, k.token)
      BY <1>2, <3>1, QueueConstants DEF LockedIffRunning, Fenced
    <3>2. ASSUME Fenced(i, k.token), NEW how, Closes({i}, how)
          PROVE  row'[j] = row[j] /\ ~(j = i /\ row[j].token = k.token)
      BY <3>2, QueueConstants DEF Closes
    <3> QED BY <1>8, <3>1, <3>2
  <2>2. Holds(v, j, row[j].token) \/ loop[v] = "failed"
    BY <2>1 DEF WorkerInv, OwnedInv
  <2>3. CASE v = w
    BY <1>1, <1>6, <2>1, <2>2, <2>3 DEF Holds
  <2>4. CASE v # w
    BY <1>1, <1>6, <2>1, <2>2, <2>4 DEF Holds
  <2> QED BY <2>3, <2>4
<1>9. CASE UNCHANGED queueVars /\ events' = events /\ (~Fenced(i, k.token) \/ "mark_error" \in Faults)
  <2>1. OwnedInv'
    <3>1. CASE "mark_error" \in Faults
      BY <3>1 DEF OwnedInv
    <3>2. CASE ~Fenced(i, k.token)
      BY <1>8, <1>9, <3>2 DEF queueVars
    <3> QED BY <1>9, <3>1, <3>2
  <2> QED BY <1>7, <1>9, <2>1, SameTable, TableMoves
<1>10. CASE Mark(k, d) /\ (events' = events \/ events' = events \cup {ev})
  <2> DEFINE e0 == Ended(i, k.token, d.to)
  <2>1. Fenced(i, k.token) /\ Closes({i}, d.to)
    <3>1. CASE d.to = "succeeded"
      BY <1>2, <1>10, <3>1, CompletionShape DEF Mark, MarkSucceeded
    <3>2. CASE d.to = "retry"
      BY <1>2, <1>10, <3>2, CompletionShape DEF Mark, MarkRetry
    <3>3. CASE d.to = "dead"
      BY <1>2, <1>3, <1>10, <3>3, CompletionShape DEF Mark, MarkDead
    <3> QED BY <1>3, <3>1, <3>2, <3>3
  <2>2. /\ row'[i].attempts = row[i].attempts
        /\ row'[i].status = "pending" => d.to = "retry"
        /\ row'[i].status # "absent"
    <3>0. row[i] \in Row
      BY <1>2
    <3>1. CASE d.to = "succeeded"
      <4>1. MarkSucceeded(i, k.token)
        BY <1>10, <3>1 DEF Mark
      <4>2. row'[i] = [Unlocked(row[i]) EXCEPT !.status = "succeeded", !.kind = "none"]
        BY <1>2, <4>1 DEF MarkSucceeded
      <4> QED BY <3>0, <3>1, <4>2 DEF Unlocked, Row
    <3>2. CASE d.to = "retry"
      <4>1. MarkRetry(i, k.token)
        BY <1>10, <3>2 DEF Mark
      <4>2. row'[i] = [Unlocked(row[i]) EXCEPT !.status = "pending", !.due = FALSE, !.kind = "retryable"]
        BY <1>2, <4>1 DEF MarkRetry
      <4> QED BY <3>0, <3>2, <4>2 DEF Unlocked, Row
    <3>3. CASE d.to = "dead"
      <4>1. MarkDead(i, k.token, d.kind)
        BY <1>10, <3>3 DEF Mark
      <4>2. row'[i] = [Unlocked(row[i]) EXCEPT !.status = "dead", !.kind = d.kind]
        BY <1>2, <4>1 DEF MarkDead
      <4> QED BY <3>0, <3>3, <4>2 DEF Unlocked, Row
    <3> QED BY <1>3, <3>1, <3>2, <3>3
  <2>3. ends' = ends \cup {e0} /\ claims' = claims /\ row[i].status = "running"
    BY <2>1 DEF Closes, Fenced
  <2>4. e0.job = i /\ e0.token = k.token /\ e0.how = d.to
    BY EndedFields
  <2> HIDE DEF e0
  <2>5. \A e \in ends' \ ends : e.how # "released"
    BY <1>3, <2>3, <2>4
  <2>6. ReleasedInv'
    BY <1>7, <2>5, ReleasedKept DEF WorkerInv
  <2>7. BudgetInv'
    <3>1. BudgetOk
      <4> SUFFICES ASSUME "requeue" \notin Faults, NEW j \in Jobs
                   PROVE  /\ row'[j].attempts = IF row[j].status = "absent" THEN 0 ELSE row[j].attempts
                          /\ row'[j].status = "absent" => row[j].status = "absent"
                          /\ row'[j].status = "pending" =>
                                row[j].status \in {"absent", "pending"} \/ row[j].attempts < MaxAttempts[j]
        BY DEF BudgetOk
      <4>1. CASE j # i
        BY <2>1, <4>1 DEF Closes, WorkerInv, BudgetInv
      <4>2. CASE j = i
        <5>1. row[i].attempts = k.attempt
          BY <2>1 DEF WorkerInv, AttemptInv
        <5> QED BY <1>3, <2>2, <2>3, <4>2, <5>1
      <4> QED BY <4>1, <4>2
    <3> QED BY <2>3, <2>5, <3>1, BudgetKept DEF WorkerInv
  <2>8. SuccessMeansRan'
    <3>1. d.to = "succeeded" => ClaimOf(k) \in ranOk
      BY <1>1, <1>3 DEF WorkerInv, EndingInv
    <3> QED BY <1>1, <2>3, <2>4, <3>1 DEF WorkerInv, SuccessMeansRan, ClaimOf
  <2>9. EventsMatchTable'
    BY <1>3, <1>5, <1>10, <2>3, <2>4 DEF WorkerInv, EventsMatchTable
  <2>10. KeepsOrCloses /\ OwnedInv'
    BY <1>8, <2>1 DEF KeepsOrCloses
  <2> QED BY <1>7, <2>6, <2>7, <2>8, <2>9, <2>10, ShrinkKeeps DEF WorkerInv
<1> QED BY <1>4, <1>9, <1>10
-----------------------------------------------------------------------------
LEMMA WorkerInvInit == Init => WorkerInv
<1> SUFFICES ASSUME Init PROVE WorkerInv
  OBVIOUS
<1> USE DEF Init
<1>1. QueueInv
  BY QueueInvInit
<1>2. TypeOK
  BY <1>1, WorkerConstants DEF TypeOK, QueueInv, LoopState
<1>3. TableInv
  BY <1>1 DEF TableInv, NewestRuns, FinalEnds, QueueInit
<1>4. /\ HeldInv /\ ClaimHeldOnce /\ BatchesApart /\ StartedInv /\ EndingInv
      /\ AttemptInv /\ ReleasedInv /\ SuccessMeansRan /\ EventsMatchTable
  BY DEF HeldInv, ClaimHeldOnce, BatchesApart, StartedInv, EndingInv, AttemptInv, ReleasedInv,
         SuccessMeansRan, EventsMatchTable, QueueInit
<1>5. BudgetInv
  <2>1. ASSUME NEW j \in Jobs PROVE Counted(j) = {} /\ row[j].attempts = 0
    BY DEF Counted, QueueInit, EmptyRow
  <2>2. IsFiniteSet({}) /\ Cardinality({}) = 0
    BY FS_EmptySet
  <2>3. \A j \in Jobs : MaxAttempts[j] \in Nat \ {0}
    BY QueueConstants
  <2> QED BY <2>1, <2>2, <2>3 DEF BudgetInv
<1>6. OwnedInv
  BY QueueConstants DEF OwnedInv, QueueInit, EmptyRow
<1> QED BY <1>2, <1>3, <1>4, <1>5, <1>6 DEF WorkerInv

LEMMA WorkerInvStep == WorkerInv /\ [Next]_vars => WorkerInv'
<1> SUFFICES ASSUME WorkerInv, [Next]_vars PROVE WorkerInv'
  OBVIOUS
<1>1. [QueueNext]_queueVars
  BY StepRefines DEF WorkerInv, TableInv
<1>2. TableInv'
  BY <1>1, TableStep DEF WorkerInv
<1>3. TypeOK'
  BY <1>2, TypeStep DEF WorkerInv, TableInv, QueueInv
<1>4. ASSUME NEW w \in Workers, LoopStep(w) PROVE WorkerInv'
  <2>1. \/ LoopTop(w) \/ IdleWakes(w) \/ AwaitPermit(w) \/ BatchDone(w) \/ Drained(w)
        \/ SweepDeadStep(w) \/ SweepRequeueStep(w) \/ ClaimStep(w)
        \/ \E c \in batch[w] : Spawn(w, c) \/ Release(w, c)
    BY <1>4 DEF LoopStep
  <2>2. CASE LoopTop(w) \/ IdleWakes(w) \/ AwaitPermit(w) \/ BatchDone(w) \/ Drained(w)
    BY <1>2, <1>3, <2>2, QuietSteps
  <2>3. CASE SweepDeadStep(w) \/ SweepRequeueStep(w)
    BY <1>2, <1>3, <2>3, SweepSteps
  <2>4. CASE ClaimStep(w)
    BY <1>2, <1>3, <2>4, ClaimSteps
  <2>5. ASSUME NEW c \in batch[w], Spawn(w, c) PROVE WorkerInv'
    BY <1>2, <1>3, <2>5, SpawnSteps
  <2>6. ASSUME NEW c \in batch[w], Release(w, c) PROVE WorkerInv'
    BY <1>2, <1>3, <2>6, ReleaseSteps
  <2> QED BY <2>1, <2>2, <2>3, <2>4, <2>5, <2>6
<1>5. ASSUME NEW w \in Workers, TaskStep(w) PROVE WorkerInv'
  <2>1. PICK k \in tasks[w] : \/ StartBody(w, k) \/ BodyTimesOut(w, k) \/ Finish(w, k)
                              \/ \E result \in BodyResults : BodyReturns(w, k, result)
    BY <1>5 DEF TaskStep
  <2>2. CASE Finish(w, k)
    BY <1>2, <1>3, <2>2, FinishSteps
  <2>3. CASE \/ StartBody(w, k) \/ BodyTimesOut(w, k)
             \/ \E result \in BodyResults : BodyReturns(w, k, result)
    BY <1>2, <1>3, <2>3, BodySteps
  <2> QED BY <2>1, <2>2, <2>3
<1>6. ASSUME NEW w \in Workers, NEW k \in tasks[w], HeartbeatStep(w, k) PROVE WorkerInv'
  BY <1>2, <1>3, <1>6, WorldSteps DEF HeartbeatStep
<1>7. CASE Environment /\ UNCHANGED workerVars
  BY <1>2, <1>3, <1>7, WorldSteps
<1>8. ASSUME NEW w \in Workers, Stop(w) \/ Crash(w) \/ Restart(w) PROVE WorkerInv'
  BY <1>2, <1>3, <1>8, QuietSteps, ProcessSteps
<1>9. ASSUME NEW b \in bodies, StrayBodyStops(b) PROVE WorkerInv'
  BY <1>2, <1>3, <1>9, ProcessSteps
<1>10. CASE UNCHANGED vars
  <2>1. UNCHANGED queueVars /\ UNCHANGED <<loop, batch, tasks, bodies, started, ranOk, events>>
    BY <1>10 DEF vars, queueVars
  <2>2. Shrinks /\ LoopsAgree
    BY <2>1 DEF Shrinks, LoopsAgree, WorkerInv, HeldInv
  <2>3. OwnedInv'
    BY <2>1, SameTable, OwnedKept DEF KeepsOrCloses
  <2> QED BY <1>2, <1>3, <2>1, <2>2, <2>3, SameTable, TableMoves
<1> QED BY <1>4, <1>5, <1>6, <1>7, <1>8, <1>9, <1>10 DEF Next
-----------------------------------------------------------------------------
\* The invariant above holds of every reachable state of the workers.
THEOREM WorkerInvariant == Spec => []WorkerInv
  BY WorkerInvInit, WorkerInvStep, PTL DEF Spec

\* Type correctness of the table, the loops, the batches, the tasks and the histories.
THEOREM WorkerTypeCorrect == Spec => []TypeOK
<1>1. WorkerInv => TypeOK
  BY DEF WorkerInv
<1> QED BY WorkerInvariant, <1>1, PTL

\* The workers implement the table: every step of a loop, a task, an operator
\* or a crash is one statement of JobQueue, with a token some claim issued, or
\* leaves the table alone.
THEOREM WorkerImplementsQueue == Spec => ImplementsQueue
<1>1. Init => QueueInit
  BY DEF Init
<1>2. WorkerInv /\ [Next]_vars => [UNCHANGED queueVars \/ QueueNext]_queueVars
  BY StepRefines DEF WorkerInv, TableInv
<1> QED BY WorkerInvariant, <1>1, <1>2, PTL DEF Spec, ImplementsQueue

\* The same as the specification of the table, so that what is proved of
\* JobQueue, one end per claim, no stealing, final rows, holds of the workers.
THEOREM WorkerRefinesQueue == Spec => QueueSpec
<1>1. Init => QueueInit
  BY DEF Init
<1>2. WorkerInv /\ [Next]_vars => [QueueNext]_queueVars
  BY StepRefines DEF WorkerInv, TableInv
<1> QED BY WorkerInvariant, <1>1, <1>2, PTL DEF Spec, QueueSpec

\* mark_succeeded took the row only for a claim whose own body returned Ok.
THEOREM SuccessCorrect == Spec => []SuccessMeansRan
<1>1. WorkerInv => SuccessMeansRan
  BY DEF WorkerInv
<1> QED BY WorkerInvariant, <1>1, PTL

\* The Observer hears of an outcome only when the table took it.
THEOREM EventsCorrect == Spec => []EventsMatchTable
<1>1. WorkerInv => EventsMatchTable
  BY DEF WorkerInv
<1> QED BY WorkerInvariant, <1>1, PTL

\* A claim is dispatched once: it is in one batch or in one task.
THEOREM HeldOnceCorrect == Spec => []ClaimHeldOnce
<1>1. WorkerInv => ClaimHeldOnce
  BY DEF WorkerInv
<1> QED BY WorkerInvariant, <1>1, PTL

\* Without requeue_dead, a job's body is started at most max_attempts times:
\* what was started counts, since a released claim was never started.
THEOREM BudgetCorrect == Spec => []BodyBudget
<1>1. WorkerInv => BodyBudget
  <2> SUFFICES ASSUME WorkerInv, "requeue" \notin Faults, NEW j \in Jobs
               PROVE  Cardinality({c \in started : c.job = j}) <= MaxAttempts[j]
    BY DEF BodyBudget
  <2> DEFINE T == {c \in started : c.job = j}
  <2>1. started \subseteq claims /\ claims \subseteq Claims
    BY DEF WorkerInv, StartedInv, TypeOK, QueueTypeOK
  <2>2. \A c \in T : c = [job |-> j, token |-> c.token]
    BY <2>1 DEF Claims
  <2>3. T \subseteq Counted(j)
    BY <2>1, <2>2 DEF Counted, WorkerInv, ReleasedInv
  <2>4. IsFiniteSet(Counted(j)) /\ Cardinality(Counted(j)) <= MaxAttempts[j]
    BY DEF WorkerInv, BudgetInv
  <2>5. /\ Cardinality(T) <= Cardinality(Counted(j))
        /\ Cardinality(T) \in Nat /\ Cardinality(Counted(j)) \in Nat /\ MaxAttempts[j] \in Nat
    BY <2>3, <2>4, FS_Subset, FS_CardinalityType, QueueConstants
  <2> QED BY <2>4, <2>5
<1> QED BY WorkerInvariant, <1>1, PTL

\* Two bodies of one job overlap only when the older claim was swept after its
\* lease lapsed or closed by the worker that gave up on the body: releases,
\* cancels, restarts, requeues and failed writes alone never do it.
THEOREM OverlapCorrect == Spec => []NoOverlap
<1>1. WorkerInv => NoOverlap
  <2> SUFFICES ASSUME WorkerInv, NEW a \in bodies, NEW b \in bodies, a.job = b.job, a.token < b.token
               PROVE  \E e \in ends : /\ e.job = a.job /\ e.token = a.token
                                      /\ e.how \in {"swept", "retry", "dead"}
    BY DEF NoOverlap
  <2> DEFINE ca == [job |-> a.job, token |-> a.token]
             cb == [job |-> b.job, token |-> b.token]
  <2>1. ca \in started /\ ca \in claims /\ cb \in claims
    BY DEF WorkerInv, StartedInv
  <2>2. a \in Body /\ b \in Body /\ row \in [Jobs -> Row]
    BY DEF WorkerInv, TypeOK, QueueTypeOK
  <2>3. ~Fenced(a.job, a.token)
    <3>1. row[b.job].status = "running" => b.token <= row[b.job].token
      BY <2>1 DEF WorkerInv, TableInv, NewestRuns
    <3>2. a.token \in Nat /\ b.token \in Nat /\ a.job \in Jobs
      BY <2>2 DEF Body
    <3> QED BY <3>1, <3>2 DEF Fenced
  <2>4. PICK e \in ends : e.job = a.job /\ e.token = a.token
    BY <2>1, <2>3 DEF WorkerInv, TableInv, QueueInv, ClaimsAccounted
  <2>5. e.how # "released"
    BY <2>1, <2>4 DEF WorkerInv, ReleasedInv
  <2>6. e.how \notin {"succeeded", "cancelled"}
    <3>1. a.token \in Nat /\ b.token \in Nat
      BY <2>2 DEF Body
    <3>2. ~(b.token <= a.token)
      BY <3>1
    <3> QED BY <2>1, <2>4, <3>2 DEF WorkerInv, TableInv, FinalEnds
  <2>7. e.how \in How
    BY DEF WorkerInv, TypeOK, QueueTypeOK, Ends
  <2> QED BY <2>4, <2>5, <2>6, <2>7 DEF How
<1> QED BY WorkerInvariant, <1>1, PTL

\* A worker that returned Ok after a shutdown left no row locked, unless it
\* crashed before or a mark failed.
THEOREM ShutdownCorrect == Spec => []CleanShutdown
<1>1. WorkerInv => CleanShutdown
  <2> SUFFICES ASSUME WorkerInv, {"crash", "mark_error"} \cap Faults = {}, NEW w \in Workers,
                      loop[w] = "returned", NEW j \in Jobs, row[j].owner = w
               PROVE  FALSE
    BY DEF CleanShutdown
  <2>1. Holds(w, j, row[j].token)
    BY DEF WorkerInv, OwnedInv
  <2>2. batch[w] = {} /\ tasks[w] = {}
    BY DEF WorkerInv, HeldInv
  <2> QED BY <2>1, <2>2 DEF Holds
<1> QED BY WorkerInvariant, <1>1, PTL
=============================================================================
