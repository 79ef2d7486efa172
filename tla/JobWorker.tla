----------------------------- MODULE JobWorker -----------------------------
(***************************************************************************)
(* The worker of src/jobs/worker.rs over the table of JobQueue.            *)
(*                                                                         *)
(* Each worker is a process with one run_loop, a set of dispatch tasks     *)
(* (the JoinSet), and the handler bodies those tasks spawned.  Every await *)
(* of the loop and of dispatch_one ends an action: other workers, the      *)
(* sweep, an operator, a crash and the shutdown token all act in between.  *)
(***************************************************************************)
EXTENDS JobQueue

CONSTANTS Registered,   \* jobs whose (kind, version) has a handler
          Concurrency,  \* permits of the semaphore
          Faults,       \* which faults a run admits
          MaxRestarts   \* bound: how often worker processes are restarted

AllFaults == {"crash", "stop", "lapse", "timeout", "claim_error", "sweep_error",
              "release_error", "mark_error", "cancel", "requeue"}

ASSUME WorkerConstants ==
    /\ Registered \subseteq Jobs
    /\ Concurrency \in Nat \ {0}
    /\ Faults \subseteq AllFaults
    /\ MaxRestarts \in Nat

VARIABLES loop,      \* where each run_loop stands
          stopping,  \* whose shutdown token is cancelled
          batch,     \* claims handed out by claim_jobs and not yet dispatched
          tasks,     \* the dispatch tasks in each JoinSet
          bodies,    \* handler bodies executing, [job, token, worker]
          started,   \* history: claims whose body was started
          ranOk,     \* history: claims whose body returned Ok
          events,    \* history: what the Observer saw
          aborted,   \* history: claims whose dispatch task was aborted
          restarts

workerVars == <<loop, stopping, batch, tasks, bodies, started, ranOk, events,
                aborted, restarts>>
vars == <<row, lastToken, claims, ends, loop, stopping, batch, tasks, bodies,
          started, ranOk, events, aborted, restarts>>
-----------------------------------------------------------------------------
\* "top" is the head of the loop, "claiming" the await of claim_jobs, "idle"
\* the poll sleep, "handing" the `for job in claimed' loop, "permit" its wait
\* for the semaphore, "draining" the join of the in-flight tasks.  "returned"
\* is Ok(()), "failed" is Err(_), "down" a process that died.
LoopState == {"top", "sweep_dead", "sweep_requeue", "claiming", "idle",
              "handing", "permit", "draining", "returned", "failed", "down"}

\* What run_loop hands to dispatch_one, and where that task stands.
\* result is the DispatchOutcome, or the two endings decided on the spot.
Results == {"none", "ok", "malformed", "timeout", "retryable", "permanent",
            "panic", "unknown"}

Task == [job : Jobs, token : Nat \ {0}, attempt : Nat,
         phase : {"spawned", "running", "ending"}, result : Results]

Claimed == [job : Jobs, token : Nat \ {0}, attempt : Nat]

Body == [job : Jobs, token : Nat \ {0}, worker : Workers]

EventKind == {"Succeeded", "Retried", "Failed"}

Alive(w) == loop[w] \in LoopState \ {"returned", "failed", "down"}

\* Mutant: the last attempt is taken for one more than it is.
DecideOffByOne(result, attempt, max) ==
    CASE result = "ok" -> [to |-> "succeeded", kind |-> "none"]
      [] result \in {"malformed", "panic", "unknown", "permanent"} ->
            [to |-> "dead", kind |-> result]
      [] result = "timeout" /\ attempt > max -> [to |-> "dead", kind |-> "timeout"]
      [] result = "retryable" /\ attempt > max -> [to |-> "dead", kind |-> "exhausted"]
      [] OTHER -> [to |-> "retry", kind |-> "retryable"]

\* Mutant: a payload that does not deserialize is dropped as done.
DecideDropsMalformed(result, attempt, max) ==
    CASE result \in {"ok", "malformed"} -> [to |-> "succeeded", kind |-> "none"]
      [] result \in {"panic", "unknown", "permanent"} -> [to |-> "dead", kind |-> result]
      [] result = "timeout" /\ attempt >= max -> [to |-> "dead", kind |-> "timeout"]
      [] result = "retryable" /\ attempt >= max -> [to |-> "dead", kind |-> "exhausted"]
      [] OTHER -> [to |-> "retry", kind |-> "retryable"]

\* complete::decide, and the two endings of dispatch_one that bypass it.
\* The attempt is the one the claim returned, not the row's current one.
Decide(result, attempt, max) ==
    CASE result = "ok" -> [to |-> "succeeded", kind |-> "none"]
      [] result \in {"malformed", "panic", "unknown", "permanent"} ->
            [to |-> "dead", kind |-> result]
      [] result = "timeout" /\ attempt >= max -> [to |-> "dead", kind |-> "timeout"]
      [] result = "retryable" /\ attempt >= max -> [to |-> "dead", kind |-> "exhausted"]
      [] OTHER -> [to |-> "retry", kind |-> "retryable"]

EventOf(to) == CASE to = "succeeded" -> "Succeeded"
                 [] to = "retry" -> "Retried"
                 [] to = "dead" -> "Failed"

Init ==
    /\ QueueInit
    /\ loop = [w \in Workers |-> "top"]
    /\ stopping = [w \in Workers |-> FALSE]
    /\ batch = [w \in Workers |-> {}]
    /\ tasks = [w \in Workers |-> {}]
    /\ bodies = {} /\ started = {} /\ ranOk = {} /\ events = {} /\ aborted = {}
    /\ restarts = 0
-----------------------------------------------------------------------------
Goto(w, to) == loop' = [loop EXCEPT ![w] = to]

\* Mutant: the sweep is never due.
LoopTopNeverSweeps(w) ==
    /\ loop[w] = "top"
    /\ Goto(w, IF stopping[w] THEN "draining" ELSE "claiming")
    /\ UNCHANGED queueVars
    /\ UNCHANGED <<stopping, batch, tasks, bodies, started, ranOk, events, aborted, restarts>>

\* Head of the loop: shutdown breaks to the drain; a due sweep comes before the
\* claim.  Whether the sweep is due is the clock's choice.
LoopTop(w) ==
    /\ loop[w] = "top"
    /\ IF stopping[w] THEN Goto(w, "draining")
                      ELSE Goto(w, "sweep_dead") \/ Goto(w, "claiming")
    /\ UNCHANGED queueVars
    /\ UNCHANGED <<stopping, batch, tasks, bodies, started, ranOk, events, aborted, restarts>>

\* A statement that touches no row, because none matches or all are locked.
NoRow == UNCHANGED queueVars

\* Mutant: every expired row is given up on, attempts left or not.
SweepDeadStepKillsAll(w) ==
    /\ loop[w] = "sweep_dead"
    /\ LET S == {j \in Jobs : Expired(j)} IN
       /\ row' = [j \in Jobs |->
                    IF j \in S
                    THEN [Unlocked(row[j]) EXCEPT !.status = "dead", !.kind = "exhausted"]
                    ELSE row[j]]
       /\ ends' = ends \cup {Ended(j, row[j].token, "swept") : j \in S}
    /\ Goto(w, "sweep_requeue")
    /\ UNCHANGED <<lastToken, claims>>
    /\ UNCHANGED <<stopping, batch, tasks, bodies, started, ranOk, events, aborted, restarts>>

\* sweep_expired_leases is two statements; its error is ignored by the loop
\* (an error in the first skips the second).
SweepDeadStep(w) ==
    /\ loop[w] = "sweep_dead"
    /\ \/ \E S \in SUBSET Jobs : SweepDead(S) /\ Goto(w, "sweep_requeue")
       \/ /\ \A j \in Jobs : ~(Expired(j) /\ Exhausted(j))
          /\ NoRow /\ Goto(w, "sweep_requeue")
       \/ "sweep_error" \in Faults /\ NoRow /\ Goto(w, "claiming")
    /\ UNCHANGED <<stopping, batch, tasks, bodies, started, ranOk, events, aborted, restarts>>

SweepRequeueStep(w) ==
    /\ loop[w] = "sweep_requeue"
    /\ \/ \E S \in SUBSET Jobs : SweepRequeue(S)
       \/ (\A j \in Jobs : ~(Expired(j) /\ ~Exhausted(j))) /\ NoRow
       \/ "sweep_error" \in Faults /\ NoRow
    /\ Goto(w, "claiming")
    /\ UNCHANGED <<stopping, batch, tasks, bodies, started, ranOk, events, aborted, restarts>>

\* Returning Err drops the JoinSet, which aborts every dispatch task; the
\* handler bodies were spawned on their own and go on without them.
ReturnErr(w) ==
    /\ Goto(w, "failed")
    /\ aborted' = aborted \cup {[job |-> k.job, token |-> k.token] : k \in tasks[w]}
    /\ tasks' = [tasks EXCEPT ![w] = {}]
    /\ batch' = [batch EXCEPT ![w] = {}]

\* claim_jobs, and its three answers.  An error may come after the UPDATE took
\* effect (the reply is lost, a row does not decode): the rows are claimed then,
\* and nobody holds them.
ClaimStep(w) ==
    /\ loop[w] = "claiming"
    /\ \/ \E S \in SUBSET Jobs :
            /\ Claim(w, S)
            /\ batch' = [batch EXCEPT ![w] =
                   {[job |-> j, token |-> lastToken + 1,
                     attempt |-> row[j].attempts + 1] : j \in S}]
            /\ Goto(w, "handing")
            /\ UNCHANGED <<tasks, aborted>>
       \/ /\ \A j \in Jobs : ~Claimable(j)
          /\ NoRow /\ Goto(w, "idle")
          /\ UNCHANGED <<batch, tasks, aborted>>
       \/ /\ "claim_error" \in Faults
          /\ NoRow \/ \E S \in SUBSET Jobs : Claim(w, S)
          /\ ReturnErr(w)
    /\ UNCHANGED <<stopping, bodies, started, ranOk, events, restarts>>

\* The poll sleep ends, or the shutdown token breaks it.
IdleWakes(w) ==
    /\ loop[w] = "idle"
    /\ Goto(w, IF stopping[w] THEN "draining" ELSE "top")
    /\ UNCHANGED queueVars
    /\ UNCHANGED <<stopping, batch, tasks, bodies, started, ranOk, events, aborted, restarts>>

\* `for job in claimed': the shutdown check comes first, then the wait for a
\* permit.  Which claim is next is left open until it is spawned or released:
\* the claims of a batch are in no particular order.
AwaitPermit(w) ==
    /\ loop[w] = "handing" /\ batch[w] # {} /\ ~stopping[w]
    /\ Goto(w, "permit")
    /\ UNCHANGED queueVars
    /\ UNCHANGED <<stopping, batch, tasks, bodies, started, ranOk, events, aborted, restarts>>

\* A permit is free: the task is spawned and owns the permit until it ends.
Spawn(w, c) ==
    /\ loop[w] = "permit" /\ c \in batch[w]
    /\ Cardinality(tasks[w]) < Concurrency
    /\ tasks' = [tasks EXCEPT ![w] = @ \cup
           {[job |-> c.job, token |-> c.token, attempt |-> c.attempt,
             phase |-> "spawned", result |-> "none"]}]
    /\ batch' = [batch EXCEPT ![w] = @ \ {c}]
    /\ Goto(w, "handing")
    /\ UNCHANGED queueVars
    /\ UNCHANGED <<stopping, bodies, started, ranOk, events, aborted, restarts>>

\* Shutdown before the permit: the claim goes back to pending if the row still
\* runs under it.  An error, with the row changed or not, ends the loop.
Release(w, c) ==
    /\ loop[w] \in {"handing", "permit"} /\ c \in batch[w]
    /\ stopping[w]
    /\ \/ /\ \/ ReleaseClaim(c.job, c.token)
             \/ ~Fenced(c.job, c.token) /\ NoRow
          /\ batch' = [batch EXCEPT ![w] = @ \ {c}]
          /\ Goto(w, "handing")
          /\ UNCHANGED <<tasks, aborted>>
       \/ /\ "release_error" \in Faults
          /\ ReleaseClaim(c.job, c.token) \/ NoRow
          /\ ReturnErr(w)
    /\ UNCHANGED <<stopping, bodies, started, ranOk, events, restarts>>

\* The batch is handed out: back to the head of the loop.
BatchDone(w) ==
    /\ loop[w] = "handing" /\ batch[w] = {}
    /\ Goto(w, "top")
    /\ UNCHANGED queueVars
    /\ UNCHANGED <<stopping, batch, tasks, bodies, started, ranOk, events, aborted, restarts>>

\* Mutant: the loop returns without joining its tasks.
DrainedEarly(w) ==
    /\ loop[w] = "draining"
    /\ Goto(w, "returned")
    /\ UNCHANGED queueVars
    /\ UNCHANGED <<stopping, batch, tasks, bodies, started, ranOk, events, aborted, restarts>>

Drained(w) ==
    /\ loop[w] = "draining" /\ tasks[w] = {}
    /\ Goto(w, "returned")
    /\ UNCHANGED queueVars
    /\ UNCHANGED <<stopping, batch, tasks, bodies, started, ranOk, events, aborted, restarts>>
-----------------------------------------------------------------------------
Move(w, k, phase, result) ==
    tasks' = [tasks EXCEPT ![w] = (@ \ {k}) \cup
                  {[k EXCEPT !.phase = phase, !.result = result]}]

ClaimOf(k) == [job |-> k.job, token |-> k.token]

BodyOf(w, k) == [job |-> k.job, token |-> k.token, worker |-> w]

\* dispatch_one looks the handler up and spawns the body.
StartBody(w, k) ==
    /\ k \in tasks[w] /\ k.phase = "spawned"
    /\ IF k.job \in Registered
       THEN /\ Move(w, k, "running", "none")
            /\ started' = started \cup {ClaimOf(k)}
            /\ bodies' = bodies \cup {BodyOf(w, k)}
       ELSE /\ Move(w, k, "ending", "unknown")
            /\ UNCHANGED <<started, bodies>>
    /\ UNCHANGED queueVars
    /\ UNCHANGED <<loop, stopping, batch, ranOk, events, aborted, restarts>>

\* The body ends and the task's select! sees it.
BodyReturns(w, k, result) ==
    /\ k \in tasks[w] /\ k.phase = "running"
    /\ BodyOf(w, k) \in bodies
    /\ Move(w, k, "ending", result)
    /\ bodies' = bodies \ {BodyOf(w, k)}
    /\ ranOk' = IF result = "ok" THEN ranOk \cup {ClaimOf(k)} ELSE ranOk
    /\ UNCHANGED queueVars
    /\ UNCHANGED <<loop, stopping, batch, started, events, aborted, restarts>>

\* The per-job timeout: abort() asks the body to stop and does not wait for it.
BodyTimesOut(w, k) ==
    /\ "timeout" \in Faults
    /\ k \in tasks[w] /\ k.phase = "running"
    /\ Move(w, k, "ending", "timeout")
    /\ UNCHANGED queueVars
    /\ UNCHANGED <<loop, stopping, batch, bodies, started, ranOk, events, aborted, restarts>>

\* The heartbeat branch of the select!; a lost claim or an error is ignored.
HeartbeatStep(w, k) ==
    /\ k \in tasks[w] /\ k.phase = "running"
    /\ Heartbeat(k.job, k.token)
    /\ UNCHANGED workerVars

\* A body nobody waits for any more stops: aborted at its next await, or run to
\* its end with its result dropped.
StrayBodyStops(b) ==
    /\ b \in bodies
    /\ ~ \E k \in tasks[b.worker] : k.phase = "running" /\ BodyOf(b.worker, k) = b
    /\ bodies' = bodies \ {b}
    /\ UNCHANGED queueVars
    /\ UNCHANGED <<loop, stopping, batch, tasks, started, ranOk, events, aborted, restarts>>

Mark(k, d) ==
    CASE d.to = "succeeded" -> MarkSucceeded(k.job, k.token)
      [] d.to = "retry" -> MarkRetry(k.job, k.token)
      [] d.to = "dead" -> MarkDead(k.job, k.token, d.kind)

\* Mutant: the event is emitted although the claim was lost.
FinishTellsAnyway(w, k) ==
    LET d == Decide(k.result, k.attempt, MaxAttempts[k.job])
        ev == [job |-> k.job, token |-> k.token, kind |-> EventOf(d.to)]
    IN
    /\ k \in tasks[w] /\ k.phase = "ending"
    /\ tasks' = [tasks EXCEPT ![w] = @ \ {k}]
    /\ Mark(k, d) \/ (~Fenced(k.job, k.token) /\ NoRow)
    /\ events' = events \cup {ev}
    /\ UNCHANGED <<loop, stopping, batch, bodies, started, ranOk, aborted, restarts>>

\* The outcome is written under the fence.  The event follows only an update
\* that changed the row; an error (before or after the row changed) ends the
\* task with no event, and so does a lost claim.
Finish(w, k) ==
    LET d == Decide(k.result, k.attempt, MaxAttempts[k.job])
        ev == [job |-> k.job, token |-> k.token, kind |-> EventOf(d.to)]
    IN
    /\ k \in tasks[w] /\ k.phase = "ending"
    /\ tasks' = [tasks EXCEPT ![w] = @ \ {k}]
    /\ \/ Mark(k, d) /\ events' = events \cup {ev}
       \/ ~Fenced(k.job, k.token) /\ NoRow /\ UNCHANGED events
       \/ "mark_error" \in Faults /\ (Mark(k, d) \/ NoRow) /\ UNCHANGED events
    /\ UNCHANGED <<loop, stopping, batch, bodies, started, ranOk, aborted, restarts>>
-----------------------------------------------------------------------------
\* The shutdown token is cancelled.
Stop(w) ==
    /\ "stop" \in Faults /\ restarts < MaxRestarts
    /\ Alive(w) /\ ~stopping[w]
    /\ stopping' = [stopping EXCEPT ![w] = TRUE]
    /\ UNCHANGED queueVars
    /\ UNCHANGED <<loop, batch, tasks, bodies, started, ranOk, events, aborted, restarts>>

\* The process dies: everything it held in memory goes, its rows stay.
Crash(w) ==
    /\ "crash" \in Faults
    /\ loop[w] # "down" /\ restarts < MaxRestarts
    /\ Goto(w, "down")
    /\ batch' = [batch EXCEPT ![w] = {}]
    /\ tasks' = [tasks EXCEPT ![w] = {}]
    /\ bodies' = {b \in bodies : b.worker # w}
    /\ UNCHANGED queueVars
    /\ UNCHANGED <<stopping, started, ranOk, events, aborted, restarts>>

\* A process whose loop returned after a shutdown, or that died, is started
\* again.  Nothing restarts a loop that returned Err inside a live process.
Restart(w) ==
    /\ loop[w] \in {"down", "returned"} /\ restarts < MaxRestarts
    /\ restarts' = restarts + 1
    /\ Goto(w, "top")
    /\ stopping' = [stopping EXCEPT ![w] = FALSE]
    /\ bodies' = {b \in bodies : b.worker # w}
    /\ UNCHANGED queueVars
    /\ UNCHANGED <<batch, tasks, started, ranOk, events, aborted>>

\* The environment of the workers: producers, operators, time.
Environment ==
    \/ \E j \in Jobs, due \in BOOLEAN : Enqueue(j, due)
    \/ \E j \in Jobs : "cancel" \in Faults /\ Cancel(j)
    \/ \E j \in Jobs : "requeue" \in Faults /\ RequeueDead(j)
    \/ \E j \in Jobs : ComesDue(j)
    \/ \E j \in Jobs : "lapse" \in Faults /\ LeaseLapses(j)

LoopStep(w) ==
    \/ LoopTop(w) \/ SweepDeadStep(w) \/ SweepRequeueStep(w) \/ ClaimStep(w)
    \/ IdleWakes(w) \/ AwaitPermit(w) \/ BatchDone(w) \/ Drained(w)
    \/ \E c \in batch[w] : Spawn(w, c) \/ Release(w, c)

BodyResults == {"ok", "malformed", "retryable", "permanent", "panic"}

TaskStep(w) ==
    \E k \in tasks[w] :
        \/ StartBody(w, k)
        \/ \E result \in BodyResults : BodyReturns(w, k, result)
        \/ BodyTimesOut(w, k)
        \/ Finish(w, k)

Next ==
    \/ \E w \in Workers : LoopStep(w) \/ TaskStep(w)
    \/ \E w \in Workers : \E k \in tasks[w] : HeartbeatStep(w, k)
    \/ \E b \in bodies : StrayBodyStops(b)
    \/ \E w \in Workers : Stop(w) \/ Crash(w) \/ Restart(w)
    \/ Environment /\ UNCHANGED workerVars

Spec == Init /\ [][Next]_vars

\* The loop and the tasks are polled by the runtime; the sweep interval passes
\* (strong fairness: the choice at the head of the loop is not always the
\* claim) and does not fail for ever; delays and leases run out; a process that
\* ended is started again.
\* No fairness is assumed of producers, operators, stops or crashes.
Fairness ==
    /\ \A w \in Workers :
          /\ WF_vars(LoopStep(w))
          /\ WF_vars(TaskStep(w))
          /\ SF_vars(LoopTop(w) /\ loop'[w] = "sweep_dead")
          /\ SF_vars(SweepDeadStep(w) /\ loop'[w] = "sweep_requeue")
          /\ SF_vars(SweepRequeueStep(w) /\ row' # row)
          /\ WF_vars(Restart(w))
    /\ \A j \in Jobs :
          /\ WF_vars(ComesDue(j) /\ UNCHANGED workerVars)
          /\ WF_vars("lapse" \in Faults /\ LeaseLapses(j) /\ UNCHANGED workerVars)

FairSpec == Spec /\ Fairness
-----------------------------------------------------------------------------
\* Type correctness of the table and of what the workers keep in memory.
TypeOK ==
    /\ QueueTypeOK
    /\ loop \in [Workers -> LoopState]
    /\ stopping \in [Workers -> BOOLEAN]
    /\ batch \in [Workers -> SUBSET Claimed]
    /\ tasks \in [Workers -> SUBSET Task]
    /\ bodies \subseteq Body
    /\ started \subseteq Claims /\ ranOk \subseteq Claims
    /\ aborted \subseteq Claims
    /\ events \subseteq [job : Jobs, token : Nat \ {0}, kind : EventKind]
    /\ restarts \in 0..MaxRestarts

\* The worker only ever changes the table through the statements of JobQueue,
\* with tokens that a claim issued: everything shown of JobQueue holds here.
\* This is QueueSpec with the stuttering step written out, which TLC then tries
\* first: most steps of a worker leave the table alone.
ImplementsQueue == QueueInit /\ [][UNCHANGED queueVars \/ QueueNext]_queueVars

\* A row is 'succeeded' only because the body of the very claim that closed it
\* returned Ok, however many stale workers, timeouts and sweeps raced it.
SuccessMeansRan ==
    \A e \in ends : e.how = "succeeded" => [job |-> e.job, token |-> e.token] \in ranOk

\* The Observer is told of an outcome only when the table took that outcome:
\* a claim that was swept, released or cancelled under the worker stays silent.
EventsMatchTable ==
    \A v \in events : \E e \in ends :
        /\ e.job = v.job /\ e.token = v.token
        /\ e.how \in {"succeeded", "retry", "dead"}
        /\ EventOf(e.how) = v.kind

\* A body is started at most max_attempts times for an enqueued job, although
\* releases on shutdown push attempts past max_attempts and claims that lost
\* their lease in the permit queue are still dispatched.  (requeue_dead starts
\* the count again.)
BodyBudget ==
    "requeue" \notin Faults =>
        \A j \in Jobs :
            Cardinality({c \in started : c.job = j}) <= MaxAttempts[j]

\* Two bodies of one job overlap only because the claim of the older one is
\* over although its body is not: swept after its lease lapsed, or closed by its
\* own timeout.  Releases, restarts, cancels, requeues and failed writes alone
\* never do it.
NoOverlap ==
    \A a, b \in bodies : a.job = b.job /\ a.token < b.token =>
        \E e \in ends : /\ e.job = a.job /\ e.token = a.token
                         /\ e.how \in {"swept", "retry", "dead"}

\* When run returns Ok after a shutdown, the process leaves no row locked: what
\* it claimed was released, completed, or taken from it.
CleanShutdown ==
    {"crash", "mark_error"} \cap Faults = {} =>
        \A w \in Workers : loop[w] = "returned" =>
            \A j \in Jobs : row[j].owner # w

\* A claim is held in one place only: waiting in one batch or running in one
\* task, so it is dispatched once.
ClaimHeldOnce ==
    \A v, w \in Workers :
        /\ \A c \in batch[v], k \in tasks[w] : ClaimOf(c) # ClaimOf(k)
        /\ \A k \in tasks[v], m \in tasks[w] :
              ClaimOf(k) = ClaimOf(m) => v = w /\ k = m

\* Every enqueued job is eventually settled, through crashes, lost leases,
\* timeouts and failed writes, as long as the process is started again.
EveryJobSettles ==
    \A j \in Jobs : row[j].status = "pending"
                       ~> row[j].status \in {"succeeded", "dead", "cancelled"}

\* docs/src/jobs.md: "The queue is at-least-once."  A job the sweep gave up on
\* was at least started once.
AtLeastOnce ==
    \A j \in Jobs :
        (row[j].status = "dead" /\ row[j].kind = "exhausted")
            => \E c \in started : c.job = j

\* worker.rs: the shutdown "waits for in-flight tasks to commit their outcome
\* (no abort)".
NoAbort == aborted = {}

\* worker.rs: "Run the worker until `shutdown` is cancelled."
RunsUntilShutdown ==
    \A w \in Workers : loop[w] \in {"returned", "failed"} => stopping[w]
=============================================================================
