---------------------------- MODULE LeaseTiming ----------------------------
(***************************************************************************)
(* The clock side of the job worker: when does a claim of a healthy worker *)
(* lapse?  JobQueue lets a lease lapse whenever it likes; here time is      *)
(* counted, the worker does everything the instant it is due, and every    *)
(* configuration WorkerConfig::validate accepts is tried.                  *)
(*                                                                         *)
(* Time is counted in ticks, PerSecond of them to the second, and only as   *)
(* ages: since the row was locked, since the handler started, since the     *)
(* last beat.  A job that ends is replaced by another of the same name.     *)
(***************************************************************************)
EXTENDS Integers, FiniteSets

CONSTANTS Jobs,
          PerSecond,    \* ticks of a second, the unit of the lease column
          MaxLease,     \* bound: the longest lease tried, in ticks
          PollBatch,
          Concurrency

ASSUME TimingConstants ==
    /\ IsFiniteSet(Jobs)
    /\ PerSecond \in Nat \ {0}
    /\ MaxLease \in Nat
    /\ PollBatch \in Nat \ {0}
    /\ Concurrency \in Nat \ {0}

VARIABLES config,   \* the WorkerConfig of this behaviour
          job,      \* each job's claim, if any
          batch,    \* jobs claimed and waiting for a permit
          swept     \* history: jobs whose claim the sweep took

leaseVars == <<config, job, batch, swept>>

\* The builder's clamps: a lease of at least a second, at least a tick for the
\* timeout and the heartbeat.
Config == [lease : PerSecond..MaxLease, timeout : 1..MaxLease, heartbeat : 1..MaxLease]

\* WorkerConfig::validate.
Validated(c) == c.timeout <= c.lease /\ c.heartbeat < c.lease

\* lease_seconds: what claim and heartbeat write, whole seconds rounded down.
StoredLease(c) == (c.lease \div PerSecond) * PerSecond

Free == [at |-> "free", age |-> 0, ran |-> 0, beat |-> 0]

Claim == [at : {"free", "waiting", "running"}, age : Nat, ran : Nat, beat : Nat]

LeaseInit ==
    /\ config \in {c \in Config : Validated(c)}
    /\ job = [j \in Jobs |-> Free]
    /\ batch = {}
    /\ swept = {}

Running == {j \in Jobs : job[j].at = "running"}
-----------------------------------------------------------------------------
\* claim_jobs: a poll that finds S.  The loop polls again only once the whole
\* previous batch has been handed out, but whether or not a permit is free.
ClaimJobs(S) ==
    /\ batch = {}
    /\ S # {} /\ S \subseteq {j \in Jobs : job[j] = Free}
    /\ Cardinality(S) <= PollBatch
    /\ batch' = S
    /\ job' = [j \in Jobs |-> IF j \in S THEN [Free EXCEPT !.at = "waiting"] ELSE job[j]]
    /\ UNCHANGED <<config, swept>>

\* A permit is there for the next of the batch: dispatch_one starts its
\* handler, and the first beat is a whole interval away.
Dispatch(j) ==
    /\ j \in batch
    /\ Cardinality(Running) < Concurrency
    /\ batch' = batch \ {j}
    /\ job' = [job EXCEPT ![j].at = "running"]
    /\ UNCHANGED <<config, swept>>

\* Mutant: the beat leaves locked_at alone.
HeartbeatKeepsLock(j) ==
    /\ job[j].at = "running"
    /\ job[j].beat = config.heartbeat
    /\ job' = [job EXCEPT ![j].beat = 0]
    /\ UNCHANGED <<config, batch, swept>>

\* The heartbeat arm of dispatch_one's select: locked_at = now().
Heartbeat(j) ==
    /\ job[j].at = "running"
    /\ job[j].beat = config.heartbeat
    /\ job' = [job EXCEPT ![j].beat = 0, ![j].age = 0]
    /\ UNCHANGED <<config, batch, swept>>

\* The handler returns, or its timeout aborts it, and the outcome is written.
Finish(j) ==
    /\ job[j].at = "running"
    /\ job' = [job EXCEPT ![j] = Free]
    /\ UNCHANGED <<config, batch, swept>>

\* The sweep's predicate: locked_at + lease_seconds < now().
Lapsed(j) == job[j] # Free /\ job[j].age > StoredLease(config)

\* sweep_expired_leases, by any worker on the table.  Only that it took the row
\* is recorded: the properties are about the first time it does.
Sweep(j) ==
    /\ Lapsed(j)
    /\ swept' = swept \cup {j}
    /\ UNCHANGED <<config, job, batch>>

\* Something the worker does at once if it is neither dead nor stalled.
LeaseDue ==
    \/ \E j \in batch : Cardinality(Running) < Concurrency
    \/ \E j \in Running : job[j].beat = config.heartbeat \/ job[j].ran = config.timeout

Older(c) ==
    IF c.at = "free" THEN c
    ELSE [at |-> c.at, age |-> c.age + 1,
          ran |-> IF c.at = "running" THEN c.ran + 1 ELSE 0,
          beat |-> IF c.at = "running" THEN c.beat + 1 ELSE 0]

\* A tick passes.  A claim already lapsed needs no more of them.
LeaseTick ==
    /\ ~LeaseDue
    /\ \A j \in Jobs : ~Lapsed(j)
    /\ job' = [j \in Jobs |-> Older(job[j])]
    /\ UNCHANGED <<config, batch, swept>>

LeaseNext ==
    \/ \E S \in SUBSET Jobs : ClaimJobs(S)
    \/ \E j \in Jobs : Dispatch(j) \/ Heartbeat(j) \/ Finish(j) \/ Sweep(j)
    \/ LeaseTick

LeaseSpec == LeaseInit /\ [][LeaseNext]_leaseVars
-----------------------------------------------------------------------------
\* Type correctness; the batch is what waits for a permit, and nothing else.
LeaseTypeOK ==
    /\ config \in Config
    /\ job \in [Jobs -> Claim]
    /\ batch = {j \in Jobs : job[j].at = "waiting"}
    /\ swept \subseteq Jobs

\* Rounds of handlers the last of a batch may have to wait for.
Rounds == (PollBatch + Concurrency - 1) \div Concurrency

\* The margin a configuration needs: the longest wait for a permit, and then a
\* whole heartbeat interval, fit in the lease as it is stored.
SafeMargin(c) == Rounds * c.timeout + c.heartbeat <= StoredLease(c)

\* No claim of a worker that neither dies nor stalls is swept, if the lease has
\* room for the wait for a permit and the first beat.  validate does not ask
\* for that margin; the defaults have it.
MarginKeepsClaims == SafeMargin(config) => swept = {}

\* What validate's rules are documented to give: a worker that neither dies nor
\* stalls past the lease keeps every claim it holds.  A claim may at most lapse
\* at the very instant of a beat or a completion.
HealthyKeepsClaims == (\E j \in Jobs : Lapsed(j)) => LeaseDue
=============================================================================
