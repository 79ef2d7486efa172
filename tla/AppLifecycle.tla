---------------------------- MODULE AppLifecycle ----------------------------
(***************************************************************************)
(* An application from bind to exit: Application::run_with_state of        *)
(* src/application/builder.rs with the Lifecycle state machine, the health *)
(* endpoints and the JobsRuntime it drives.                                *)
(*                                                                         *)
(* The run itself is one thread, but requests, readiness probes, the job   *)
(* worker, the scheduler and the application's own use of the Lifecycle    *)
(* handle all run beside it.                                               *)
(***************************************************************************)
EXTENDS Integers, Sequences

CONSTANTS Conns,       \* requests being served at once
          Faults       \* which of AllFaults a run admits

AllFaults == {"start", "serve", "probe", "error", "panic", "appdrain"}

ASSUME AppConstants == Faults \subseteq AllFaults

\* The order of startup; teardown is the reverse.
Order == <<"database", "jobs", "cache", "storage", "mail">>
Last == 5
Subsystems == {"database", "jobs", "cache", "storage", "mail"}

\* What teardown closes: Cache::close is a no-op and storage is only dropped.
Closable == {"database", "mail"}

\* What report probes; jobs is reported up without a probe.
Probed == {"database", "cache", "storage"}

Tasks == {"worker", "scheduler"}

\* LifecycleState, with its discriminants.
Rank == [starting |-> 0, ready |-> 1, draining |-> 2, stopped |-> 3]
States == {"starting", "ready", "draining", "stopped"}

VARIABLES configured,  \* the subsystems this application asks for
          pc,          \* where run_with_state is
          at,          \* the position in Order it has come to
          result,      \* what run_with_state returned
          lifecycle,   \* the AtomicU8 of Lifecycle
          resources,   \* the subsystems in Resources
          published,   \* the Resources the health endpoints have
          open,        \* subsystems connected and not closed
          task,        \* the worker and the scheduler
          cancelled,   \* JobsRuntime's CancellationToken
          listener,    \* the bound socket
          signal,      \* whether SIGTERM or Ctrl-C arrived
          conn,        \* each request in flight
          seen         \* what the application's own begin_drain loaded

run == <<configured, resources, published>>
vars == <<configured, pc, at, result, lifecycle, resources, published, open, task,
          cancelled, listener, signal, conn, seen>>

Idle == [at |-> "idle"]
Handling == [at |-> "handler"]
Probing == [at : {"probe"}, state : States, todo : SUBSET Probed, up : BOOLEAN]
Answered == [at : {"answered"}, ready : BOOLEAN]

Init ==
    /\ configured \in SUBSET (Subsystems \cup {"scheduler"})
    /\ pc = "bind" /\ at = 0 /\ result = "none"
    /\ lifecycle = "starting"
    /\ resources = {} /\ published = {} /\ open = {}
    /\ task = [t \in Tasks |-> "none"]
    /\ cancelled = FALSE
    /\ listener = "none"
    /\ signal = FALSE
    /\ conn = [c \in Conns |-> Idle]
    /\ seen = "none"

\* run_with_state returns; a task it has not awaited is detached, not stopped.
Return(r) == /\ pc' = "returned" /\ result' = r /\ listener' = "closed"
             /\ UNCHANGED at
-----------------------------------------------------------------------------
Bind ==
    /\ pc = "bind"
    /\ \/ pc' = "start" /\ at' = 1 /\ listener' = "bound" /\ UNCHANGED result
       \/ "start" \in Faults /\ Return("err")
    /\ UNCHANGED <<lifecycle, run, open, task, cancelled, signal, conn, seen>>

\* A subsystem connects.  start_jobs also spawns the worker and, if there is
\* one, the scheduler, on the database's pool.
StartOne ==
    /\ pc = "start" /\ at <= Last
    /\ LET s == Order[at] IN
       /\ s \in configured
       /\ s = "jobs" => "database" \in resources
       /\ resources' = resources \cup {s}
       /\ open' = open \cup {s}
       /\ task' = [t \in Tasks |->
                     IF s = "jobs" /\ (t = "worker" \/ "scheduler" \in configured)
                     THEN "running" ELSE task[t]]
    /\ at' = at + 1
    /\ UNCHANGED <<configured, pc, result, lifecycle, published, cancelled, listener, signal,
                   conn, seen>>

StartSkips ==
    /\ pc = "start" /\ at <= Last /\ Order[at] \notin configured
    /\ at' = at + 1
    /\ UNCHANGED <<pc, result, lifecycle, run, open, task, cancelled, listener, signal, conn, seen>>

\* Each connect is followed by `?`, and jobs without a database is an error.
StartFails ==
    /\ pc = "start" /\ at <= Last
    /\ \/ "start" \in Faults /\ Order[at] \in configured
       \/ Order[at] = "jobs" /\ "jobs" \in configured /\ "database" \notin resources
    /\ Return("err")
    /\ UNCHANGED <<lifecycle, run, open, task, cancelled, signal, conn, seen>>

\* health.publish, and the state closure.
Publish ==
    /\ pc = "start" /\ at = Last + 1
    /\ published' = resources
    /\ pc' = "ready"
    /\ UNCHANGED <<configured, at, result, lifecycle, resources, open, task, cancelled, listener,
                   signal, conn, seen>>

\* mark_ready, a compare-and-swap from Starting, and the start of the accept loop.
MarkReady ==
    /\ pc = "ready"
    /\ lifecycle' = IF lifecycle = "starting" THEN "ready" ELSE lifecycle
    /\ listener' = "accepting"
    /\ pc' = "serve"
    /\ UNCHANGED <<at, result, run, open, task, cancelled, signal, conn, seen>>
-----------------------------------------------------------------------------
\* A request is accepted: one for the application, or one for /up/ready, whose
\* report reads the lifecycle first and then probes what was published.
Accept(c) ==
    /\ listener = "accepting" /\ conn[c] = Idle
    /\ conn' = [conn EXCEPT ![c] = Handling]
    /\ UNCHANGED <<pc, at, result, lifecycle, run, open, task, cancelled, listener, signal, seen>>

AcceptProbe(c) ==
    /\ listener = "accepting" /\ conn[c] = Idle
    /\ conn' = [conn EXCEPT ![c] = [at |-> "probe", state |-> lifecycle,
                                    todo |-> published \cap Probed, up |-> TRUE]]
    /\ UNCHANGED <<pc, at, result, lifecycle, run, open, task, cancelled, listener, signal, seen>>

\* The probes run one after the other; a closed subsystem answers down, an open
\* one may.
ProbeOne(c, s) ==
    /\ conn[c].at = "probe" /\ s \in conn[c].todo
    /\ \E up \in BOOLEAN :
        /\ up => s \in open
        /\ ~up => "probe" \in Faults \/ s \notin open
        /\ conn' = [conn EXCEPT ![c] = [at |-> "probe", state |-> conn[c].state,
                                        todo |-> conn[c].todo \ {s},
                                        up |-> conn[c].up /\ up]]
    /\ UNCHANGED <<pc, at, result, lifecycle, run, open, task, cancelled, listener, signal, seen>>

ProbeAnswers(c) ==
    /\ conn[c].at = "probe" /\ conn[c].todo = {}
    /\ conn' = [conn EXCEPT ![c] = [at |-> "answered",
                                    ready |-> conn[c].state = "ready" /\ conn[c].up]]
    /\ UNCHANGED <<pc, at, result, lifecycle, run, open, task, cancelled, listener, signal, seen>>

\* The response is written and the request is over.
Respond(c) ==
    /\ conn[c].at \in {"handler", "answered"}
    /\ conn' = [conn EXCEPT ![c] = Idle]
    /\ UNCHANGED <<pc, at, result, lifecycle, run, open, task, cancelled, listener, signal, seen>>

\* shutdown_signal is installed by the accept loop; earlier the signal kills.
Signal ==
    /\ pc = "serve" /\ ~signal
    /\ signal' = TRUE
    /\ UNCHANGED <<pc, at, result, lifecycle, run, open, task, cancelled, listener, conn, seen>>

\* with_graceful_shutdown: stop accepting ...
StopAccepting ==
    /\ pc = "serve" /\ signal /\ listener = "accepting"
    /\ listener' = "closed"
    /\ UNCHANGED <<pc, at, result, lifecycle, run, open, task, cancelled, signal, conn, seen>>

\* Mutant: serve returns at once, requests in flight or not.
ServeReturnsAtOnce ==
    /\ pc = "serve" /\ listener = "closed"
    /\ pc' = "drain"
    /\ UNCHANGED <<at, result, lifecycle, run, open, task, cancelled, listener, signal, conn, seen>>

\* ... and return once the requests in flight are answered.
ServeReturns ==
    /\ pc = "serve" /\ listener = "closed"
    /\ \A c \in Conns : conn[c] = Idle
    /\ pc' = "drain"
    /\ UNCHANGED <<at, result, lifecycle, run, open, task, cancelled, listener, signal, conn, seen>>

\* The accept loop fails: EngineError::Serve, and no teardown.
ServeFails ==
    /\ "serve" \in Faults
    /\ pc = "serve" /\ listener = "accepting"
    /\ Return("err")
    /\ UNCHANGED <<lifecycle, run, open, task, cancelled, signal, conn, seen>>
-----------------------------------------------------------------------------
BeginDrain ==
    /\ pc = "drain"
    /\ lifecycle' = IF lifecycle = "stopped" THEN "stopped" ELSE "draining"
    /\ pc' = "stop" /\ at' = Last
    /\ UNCHANGED <<result, run, open, task, cancelled, listener, signal, conn, seen>>

\* Mutant: teardown in startup order, the database before the jobs on its pool.
StopOneForwards ==
    /\ pc = "stop" /\ at >= 1
    /\ Order[Last + 1 - at] # "jobs" \/ "jobs" \notin resources
    /\ open' = open \ ({Order[Last + 1 - at]} \cap Closable)
    /\ at' = at - 1
    /\ UNCHANGED <<pc, result, lifecycle, run, task, cancelled, listener, signal, conn, seen>>

\* Teardown of anything but running jobs.  Their errors are discarded.
StopOne ==
    /\ pc = "stop" /\ at >= 1
    /\ Order[at] # "jobs" \/ "jobs" \notin resources
    /\ open' = open \ ({Order[at]} \cap Closable)
    /\ at' = at - 1
    /\ UNCHANGED <<pc, result, lifecycle, run, task, cancelled, listener, signal, conn, seen>>

\* Mutant: the tasks are awaited and never told to stop.
StopJobsSilently ==
    /\ pc = "stop" /\ at >= 1 /\ Order[at] = "jobs" /\ "jobs" \in resources
    /\ pc' = "worker"
    /\ UNCHANGED <<at, result, lifecycle, run, open, task, cancelled, listener, signal, conn, seen>>

\* JobsRuntime::shutdown cancels the shared token,
StopJobs ==
    /\ pc = "stop" /\ at >= 1 /\ Order[at] = "jobs" /\ "jobs" \in resources
    /\ cancelled' = TRUE
    /\ pc' = "worker"
    /\ UNCHANGED <<at, result, lifecycle, run, open, task, listener, signal, conn, seen>>

\* awaits the worker, whose own Err is discarded and whose panic returns,
AwaitWorker ==
    /\ pc = "worker"
    /\ \/ /\ task["worker"] \in {"ok", "err"}
          /\ pc' = "scheduler"
          /\ UNCHANGED <<at, result, listener>>
       \/ task["worker"] = "panicked" /\ Return("err")
    /\ UNCHANGED <<lifecycle, run, open, task, cancelled, signal, conn, seen>>

\* Mutant: the scheduler is dropped and not awaited.
AwaitSchedulerNot ==
    /\ pc = "scheduler"
    /\ pc' = "stop" /\ at' = at - 1
    /\ UNCHANGED <<result, lifecycle, run, open, task, cancelled, listener, signal, conn, seen>>

\* and then the scheduler, if there is one, in the same way.
AwaitScheduler ==
    /\ pc = "scheduler"
    /\ \/ /\ task["scheduler"] \in {"none", "ok", "err"}
          /\ pc' = "stop" /\ at' = at - 1
          /\ UNCHANGED <<result, listener>>
       \/ task["scheduler"] = "panicked" /\ Return("err")
    /\ UNCHANGED <<lifecycle, run, open, task, cancelled, signal, conn, seen>>

MarkStopped ==
    /\ pc = "stop" /\ at = 0
    /\ lifecycle' = "stopped"
    /\ Return("ok")
    /\ UNCHANGED <<run, open, task, cancelled, signal, conn, seen>>
-----------------------------------------------------------------------------
\* A task ends cleanly when it is told to, and with an error or a panic anytime.
TaskEnds(t, how) ==
    /\ task[t] = "running"
    /\ \/ how = "ok" /\ cancelled
       \/ how = "err" /\ "error" \in Faults
       \/ how = "panicked" /\ "panic" \in Faults
    /\ task' = [task EXCEPT ![t] = how]
    /\ UNCHANGED <<pc, at, result, lifecycle, run, open, cancelled, listener, signal, conn, seen>>

\* The state closure was given the Lifecycle, and the application may call
\* begin_drain itself: a load,
AppLoad ==
    /\ "appdrain" \in Faults
    /\ pc \notin {"bind", "start"} /\ seen = "none"
    /\ lifecycle \notin {"draining", "stopped"}
    /\ seen' = lifecycle
    /\ UNCHANGED <<pc, at, result, lifecycle, run, open, task, cancelled, listener, signal, conn>>

\* and a compare-and-swap against what it loaded, after which it loads again.
AppSwaps ==
    /\ seen # "none"
    /\ lifecycle' = IF lifecycle = seen THEN "draining" ELSE lifecycle
    /\ seen' = "none"
    /\ UNCHANGED <<pc, at, result, run, open, task, cancelled, listener, signal, conn>>

RunStep ==
    \/ Bind \/ StartOne \/ StartSkips \/ StartFails \/ Publish \/ MarkReady
    \/ StopAccepting \/ ServeReturns
    \/ BeginDrain \/ StopOne \/ StopJobs \/ AwaitWorker \/ AwaitScheduler \/ MarkStopped

ConnStep(c) == \/ \E s \in Probed : ProbeOne(c, s)
               \/ ProbeAnswers(c) \/ Respond(c)

Next ==
    \/ RunStep \/ ServeFails \/ Signal
    \/ \E c \in Conns : Accept(c) \/ AcceptProbe(c) \/ ConnStep(c)
    \/ \E t \in Tasks, how \in {"ok", "err", "panicked"} : TaskEnds(t, how)
    \/ AppLoad \/ AppSwaps

Spec == Init /\ [][Next]_vars

\* The run is polled, every handler and probe comes to an end, and a task that
\* is told to stop does.
Fairness ==
    /\ WF_vars(RunStep)
    /\ \A c \in Conns : WF_vars(ConnStep(c))
    /\ \A t \in Tasks : WF_vars(TaskEnds(t, "ok"))

FairSpec == Spec /\ Fairness
-----------------------------------------------------------------------------
InFlight == {c \in Conns : conn[c] # Idle}
Running == {t \in Tasks : task[t] = "running"}

\* Type correctness; teardown goes past no end of Order.
TypeOK ==
    /\ configured \subseteq Subsystems \cup {"scheduler"}
    /\ pc \in {"bind", "start", "ready", "serve", "drain", "stop", "worker", "scheduler", "returned"}
    /\ at \in 0..(Last + 1)
    /\ result \in {"none", "ok", "err"}
    /\ lifecycle \in States
    /\ resources \subseteq Subsystems /\ published \subseteq Subsystems
    /\ open \subseteq Subsystems
    /\ task \in [Tasks -> {"none", "running", "ok", "err", "panicked"}]
    /\ cancelled \in BOOLEAN /\ signal \in BOOLEAN
    /\ listener \in {"none", "bound", "accepting", "closed"}
    /\ conn \in [Conns -> {Idle, Handling} \cup Probing \cup Answered]
    /\ seen \in {"none", "starting", "ready"}

\* The worker and the scheduler borrow the database's pool, and the pool is
\* never closed under one that still runs, whatever fails on the way up or down.
TasksHaveDatabase == Running # {} => "database" \in open

\* A request in flight finds every subsystem the application state was built
\* from still open: teardown waits for it.
RequestsSeeOpen == InFlight # {} => resources \subseteq open

\* /up/ready is answered 200 only by an instance that has not begun to tear
\* anything down, although the report reads the lifecycle before it probes.
ReadyMeansServing ==
    \A c \in Conns : conn[c].at = "answered" /\ conn[c].ready =>
        pc \in {"serve", "returned"} /\ published \subseteq open

\* The lifecycle only moves forwards, though the application may begin a drain
\* at any instant of the run's own transitions.
LifecycleForward == [][Rank[lifecycle'] >= Rank[lifecycle]]_vars

\* run_with_state returns Ok only with everything down: no request in flight,
\* no task running, the pool and the mailer closed and the lifecycle stopped.
CleanStop ==
    result = "ok" => /\ InFlight = {} /\ Running = {}
                     /\ open \cap Closable = {}
                     /\ lifecycle = "stopped"

\* After the signal the run comes to an end, if requests and tasks do.
SignalEndsRun == signal ~> pc = "returned"

\* What the health endpoints promise a load balancer: once the listener stops,
\* and while requests are still being served, the lifecycle is Draining.
DrainsBeforeListenerStops ==
    listener = "closed" /\ InFlight # {} /\ result = "none" => lifecycle = "draining"

\* What JobsRuntime::shutdown promises: an error of a task is surfaced.
TaskErrorsSurface == result = "ok" => \A t \in Tasks : task[t] # "err"

\* And that it awaits both tasks before it returns.
AwaitsBoth == pc = "returned" /\ cancelled => Running = {}
=============================================================================
