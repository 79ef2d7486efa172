# Arcature in TLA+

This directory is a verification development of Arcature: TLA+ modules that
model the parts of the framework in which order, concurrency, failure and time
decide whether the code is right, TLC configurations that check them on small
instances, and TLAPS proofs of the results that matter most.

Paths such as `src/jobs/worker.rs` are those of the repository.
`PROJECT.json` holds the machine-readable side of this document: components,
runs, the source lines each definition translates, one deliberate defect
(mutant) per checked property, findings, hazards and theorems.

## 1. The system

Arcature is a Rust web framework. One process binds a listener, starts the
subsystems an application configures (database, jobs, cache, storage, mail),
serves HTTP, WebSockets and server-sent events, and tears everything down on a
signal. Work that must outlive a request goes through a job queue in a database
table, drained by workers that may live in the same or in other processes.
Authentication keeps its own tables: sessions, API tokens, remember-me tokens
and password-reset links.

### 1.1 Components, their state and what makes them correct

| Component | State | Operations | Correct when |
|---|---|---|---|
| Job queue table (`src/jobs/claim.rs`, `complete.rs`, `enqueue.rs`, `dialect/`) | rows: status, attempts, lock columns, claim token, `available_at`, error kind | enqueue, claim, succeed, retry, dead, heartbeat, release, two sweeps, cancel, requeue | each claim ends exactly once and only through its own token; no running row changes hands; a settled row stays settled |
| Job worker (`src/jobs/worker.rs`) | loop position, claimed batch, semaphore, dispatch tasks, handler bodies, shutdown token | sweep, claim, dispatch, run, heartbeat, time out, write the outcome, release, drain | a success means the handler ran; the observer hears only what the table took; the attempt budget holds; shutdown strands nothing; every job settles |
| Worker configuration (`src/jobs/config.rs`) | lease, timeout, heartbeat, batch, concurrency | builder clamps, `validate` | a healthy worker does not lose a claim |
| Scheduler (`src/jobs/scheduler.rs`) | next fire of every entry | sleep, fire a round, shut down | an entry is enqueued at most once per occurrence of its cadence, however late a round runs |
| Migrations (`src/jobs/migrate.rs` and five twins) | history table, advisory lock, schema | apply, apply_tx from every replica | Ok means the whole schema is there |
| Application run and lifecycle (`src/application/builder.rs`, `lifecycle.rs`) | lifecycle state, subsystems, listener, tasks | bind, start each subsystem, serve, drain, stop in reverse, return | nothing is closed under its user; Ok means all is stopped; the lifecycle only moves forward; a signal ends the run |
| Job runtime (`src/application/jobs_runtime.rs`) | two task handles and a token | start, shutdown | tasks stop before the pool they use |
| Health endpoints (`src/application/health.rs`) | published resources | publish, probe, report | a 200 from `/up/ready` was true of the process |
| Realtime registry and drain (`src/realtime/registry.rs`, `shutdown.rs`) | an atomic count, a flag, a notification | acquire, drop, begin_drain, drain_notified, drain | the count is exact, the cap holds, Ok from drain means closed, no wakeup is lost |
| WebSocket and SSE loops, channels (`websocket.rs`, `sse.rs`, `channel.rs`) | loop position, subscription, unanswered pings | select arms, send, poll, lag, close | a drain and a dead peer close the connection |
| Password-reset links (`src/auth/flows/reset/`) | one row per link | issue, consume, revoke_all_for, sweep_expired | a link is spent once, for the subject it was minted for |
| Remember-me tokens (`src/auth/flows/remember/`) | one row per series: secret, previous secret, rotation time | issue, present, revoke, revoke_all_for, sweep | a series never forks, a revoked one never returns, an honest browser is not accused |
| Rate limiting (`src/routing/rate_limit.rs`) | a token bucket per key, in memory or in Redis | check, sweep, expire | a key gets its burst and its refill, whatever the table forgets |
| Login throttle (`src/auth/flows/throttle.rs`) | a bucket per account and client, and per client | check, record_failure, record_success, sweep | failures are paid for across accounts and successes |
| Sessions and sign-in (`src/auth/session_store/`, `extract.rs`, `flows/confirm.rs`) | a record per session id; a copy in each request | load, save (an upsert), delete, login, logout, regenerate, confirm | no fixation; a signed-out session stays gone; a confirmation is the user's own and recent |
| API tokens (`src/tokens/`) | a row per id | issue with redraws, authenticate, revoke, sweep | a plaintext stands for its owner exactly until it expires or is revoked |
| Cache (`src/cache/`) | keys with expiry in Redis | get, put, remember, forget, set_if_absent_with_ttl | a stale value has a reason; a lease has one holder |
| Notifications (`src/notifications/`) | inbox rows, live channels, mail jobs | send, queue, read, delete, prune, subscribe, push | what was sent is in the inbox; who is subscribed can be reached |
| Inertia (`src/inertia/`) | none on the server; the client's page | visit, partial reload, deferred load, once props, version conflict | the client is never short of a prop without knowing |
| Client address (`src/http/client_ip.rs`) | the list of trusted proxies | parse, resolve | the last host that is not trusted is the client |
| Locale negotiation (`src/i18n/negotiate.rs`) | none; a shared cache in front | resolve, Vary | nobody reads another reader's language from a cache |
| Development supervisor (`src/cli/commands/dev/`) | current build, served process, pending change | change, build, cancel, swap, restart | the project on disk is what is served, and the loop comes to rest |

The remaining parts hold no evolving state of their own (request pipeline,
routing, HTTP helpers, validation, configuration, catalogues, encryption,
OAuth, mail and storage wrappers, the graph, macros, generators, test support)
and are listed with the reason in `PROJECT.json`.

### 1.2 How they interact

* `run_with_state` starts the database first and lends its pool to the worker
  and the scheduler; teardown goes in reverse, so jobs stop before the pool
  closes. Health endpoints read the lifecycle and probe the resources that were
  published to them.
* A worker, the scheduler, request handlers and the `queue` CLI commands meet
  only in the jobs table, through single SQL statements that are fenced by
  status and claim token. There is no transaction across two of them.
* A connection loop shares with the drain an atomic count, an atomic flag and a
  `Notify`; with the publisher, a bounded broadcast ring.
* The auth stores are called by requests that overlap. Each method is a few
  statements, each sent to the pool by itself. The session record is read once
  per request, changed in memory and written back whole.
* Rate limits, caches and leases meet other processes in Redis, each through one
  command or one script; the clock readings they carry come from the callers.
* A push looks its channel up under a lock and publishes after letting it go.

### 1.3 What is hard

Leases that lapse under a live holder; completions written by a worker that no
longer holds the row; two-statement sweeps; crashes between a claim and its
outcome; a shutdown racing a claim; an error in the middle of a teardown; a flag
and its notification set in two steps; a bound that passes while the last
connection leaves; a read and a write with other requests between them; a
response that never reaches the browser; a heartbeat rounded to whole seconds;
clock readings that arrive out of order; a whole record saved over a deletion; a
file edited while the build that should see it is running.
The list of hazards in `PROJECT.json` names the line of each, with the
properties that would catch it going wrong.

## 2. Modules

| Module | Models | Composes |
|---|---|---|
| `JobQueue` | the table and each statement on it | |
| `JobWorker` | run_loop, dispatch_one and handler bodies of several processes | extends `JobQueue`, implements it |
| `LeaseTiming` | the worker's three durations on a counted clock | |
| `AppLifecycle` | run_with_state, Lifecycle, health, JobsRuntime | |
| `Realtime` | registry, drain, channel, both connection loops | |
| `Scheduler` | Scheduler::run and its cadences | |
| `LoginThrottle` | the login throttle around password verifications | |
| `TokenBucket` | what a rate limit promises: a bucket that is always there | |
| `RateLimit` | both backends of the rate limiter | implements `TokenBucket` |
| `PasswordReset` | the reset store, statement by statement | |
| `RememberTokens` | the remember-me store and the browsers that use it | |
| `Sessions` | session store, sign-in and confirmation under overlapping requests | |
| `ApiTokens` | the API token table | |
| `Inertia` | props of a response, and the client that keeps them | |
| `ClientAddress` | trusted proxies and ClientIp::resolve | |
| `Locales` | locale negotiation behind a shared cache | |
| `Cache` | remember against invalidation, and the lease | |
| `Notifications` | delivery, inbox and live channels | |
| `Migrations` | replicas that migrate one database | |
| `DevSupervisor` | the rebuild loop of `arc dev` | |
| `JobQueueProofs`, `JobWorkerProofs`, `PasswordResetProofs`, `RealtimeProofs` | theorems of the module of that name | extend it |
| `AppLifecycleProofs` | theorems of `AppLifecycle` and `DevSupervisor` | extends both |
| `TimersProofs` | theorems of `LeaseTiming`, `Scheduler`, `LoginThrottle` and `RateLimit` | extends the four |
| `WebProofs` | theorems of `Sessions`, `ApiTokens`, `Inertia`, `Locales`, `RememberTokens` and `ClientAddress` | extends the six |
| `ServicesProofs` | theorems of `Cache`, `Notifications` and `Migrations` | extends the three |
| `MC*` | model values, symmetry sets and action constraints for TLC | |
| `MCTimers`, `MCWeb`, `MCServices` | sums: several components that share no state, one in `focus` per behaviour | extend their parts |

A sum module picks its `focus` in the initial state; only that component
moves, so the state spaces add up instead of multiplying, and a property of one
component means in the sum what it means alone. The configurations give sets of
different components the same model values (the users of `Sessions` and the
token ids of `ApiTokens`, say). No state relates them, and one permutation then
acts on both, which keeps the symmetry group small.

In every module a variable commented `history:` is not state of the program: it
records what happened so that a property can speak of it, and no guard reads it.
A constant commented `bound:` exists for TLC only. `Faults` names
the misfortunes a configuration admits.

### 2.1 JobQueue

`row[j]` is a row: `status`, `attempts`, `token` (claim_token), `owner`
(locked_by), `kind` (last_error_kind), and two flags in place of two columns of
time: `due` (`available_at` has passed) and `lapsed` (`locked_at` plus the lease
has passed). Time passing is the pair `ComesDue` and `LeaseLapses`, possible at
any moment, so whatever holds here holds for every clock and every duration.
Every statement is one action: `Enqueue`, `Claim` (a batch of at most
`PollBatch` rows, all under one fresh token), `MarkSucceeded`, `MarkRetry`,
`MarkDead`, `Heartbeat`, `ReleaseClaim`, `SweepDead`, `SweepRequeue` (at most
`SweepBatch` rows), `Cancel`, `RequeueDead`. `QueueNext` lets anybody present any
token that was ever issued: this is the specification of what the table promises to
callers that may be arbitrarily late.

The three dialects are one model: their statements have the same effect on a
row. `claims` and `ends` are the history of claims and of how each ended.

### 2.2 JobWorker

Each worker has a `loop` position (one value per await of `run_loop`), a `batch`
of claims not yet handed out, `tasks` (the JoinSet) with a phase each, and
`bodies`, the handler futures, which outlive their task when a timeout or an
error drops it without waiting. `LoopTop`, `SweepDeadStep`, `SweepRequeueStep`,
`ClaimStep`, `IdleWakes`, `AwaitPermit`, `Spawn`, `Release`, `BatchDone` and
`Drained` are `run_loop`; `StartBody`, `BodyReturns`, `BodyTimesOut`,
`HeartbeatStep` and `Finish` are `dispatch_one`; `Decide` is `complete::decide`.
`Stop` cancels the token, `Crash` loses the process with everything in memory
and `Restart` brings it back. A failed statement either took effect or did not: a claim
whose answer was lost, or could not be decoded, has taken its rows, and nobody but the
sweep will free them.

`ImplementsQueue`, which is `QueueSpec`, is the refinement: the variables of the table are
shared, so the mapping is the identity, and each step of a worker is a step of
`QueueNext` or leaves the table alone.

### 2.3 LeaseTiming

The same claims with numbers: a clock in ticks, `PerSecond` ticks to the second,
ages since the row was locked, since the handler started and since the last
beat. `LeaseInit` picks any configuration that `validate` accepts. The worker is
ideal (everything happens the instant it is due, `LeaseTick` waits for what is `LeaseDue`)
so a claim that lapses here is lost by the configuration, not by bad luck.

### 2.4 AppLifecycle

`pc` and `at` are the position of `run_with_state` and how far along `Order` it
has come; `open` is what is connected, `resources` what is in `Resources`,
`published` what health has. Startup is `Bind`, `StartOne`, `StartSkips`,
`StartFails`, `Publish`, `MarkReady`; serving is `Accept`, `AcceptProbe`,
`ProbeOne`, `ProbeAnswers`, `Respond`, `StopAccepting`, `ServeReturns`,
`ServeFails`; teardown is `BeginDrain`, `StopOne`, `StopJobs`, `AwaitWorker`,
`AwaitScheduler`, `MarkStopped`. `AppLoad` and `AppSwaps` are the load and the
compare-and-swap of a `begin_drain` that the application calls on its own
handle. `Init` ranges over every set of configured subsystems.

### 2.5 Realtime

Each load and each compare-and-swap of the registry is an action (`AcquireLoad`,
`AcquireCas`, `DropLoad`, `DropCas`), as are the creation of the `Notified`
(`Arm`), the reading of the flag (`CheckFlag`) and the swap and the notification
of a drain (`DrainSwap`, `DrainNotify`). A WebSocket loop then waits at a select
whose ready arms are all possible (`DrainArm`, `PayloadArm`, `HeartbeatArm`,
`PongArm`, `LeaveArm`) and a send is a location of its own, left by `SendDone`.
An SSE stream is `SsePoll` (the flag), `SseRecv` (the payload) and `SseEmit`.
`sent` and `pos` are the ring and a subscription in it; a subscription more than
`Capacity` behind skips to the oldest payload kept. A mute peer reads but no longer
answers pings; a stalled one does not read either. Heartbeat time is the number
of pings without a pong.

### 2.6 PasswordReset and RememberTokens

A call is a small process with one action per statement; everything else runs
between its statements. Secrets are serial numbers, so that two never collide,
while an id may be drawn again once its row is gone (`IssueCollide` is the
retried draw). The digest comparison is the equality of secrets. A statement whose
answer is lost has taken effect or not: a link may be in the table that nobody was
given, and a link may be spent for a caller who was told of an error (`Fail`).

`RememberTokens` has the other half of the protocol: a browser's `jar`, the
requests in flight with the cookie each one carries, and responses that arrive
late (`Receive`) or never (`Lose`); a sign-in with `issue` is such a request too, so its
first cookie may be lost or late. A drawn series that is taken is drawn again, and when
`issue` gives up nothing was written. Rows deleted by a sign-out, a cascade or the sweep
are `revoked`. `recent` says that the row was rotated inside the
grace window, and `GraceLapses` ends the window at any time. All presenters are the
browser the cookie was issued to, which is what makes a `Theft` verdict a false one.

### 2.7 TokenBucket and RateLimit

A token is `Period` units and a tick refills one, so the code's floating point becomes exact
integers. In `RateLimit` a request reads its clock in `Arrive` and reaches its
bucket in `MemoryCheck` or `RedisCheck`, so readings arrive out of order;
through Redis they also differ from the server's clock by up to `Skew`. The
sweep, `PEXPIRE`, a server that is down (`RedisDown`) and a reply that is lost
after the script ran (`RedisReplyLost`) are there, as is what the layer answers
then (`Undecided`). `TokenBucket` is the abstract specification: a level per
key that is always there, an answer that is allowed or refused with a wait that
suffices, and a possible answer of no opinion. The wait of a refusal may run over by
`Pad`: a Redis reply is rounded down to milli-tokens (`Grain`), so the layer may ask for
a little more than is needed. `ImplementsBucket` maps a missing
bucket to a full one and brings a level up to date with the clock. It speaks of
behaviours with one exact clock (`mode.exact`); for the others `GrantBound`
says by how much rewound readings can loosen the limit.

### 2.8 Scheduler and LoginThrottle

`SchedWake` is the end of the sleep (or its being overdue), `SchedFire` one
entry of a round, `SchedRound` the end of the round; the clock moves between
any two, and all entries of a round are computed from the `reading` it began with.
Left out: the fallback of `compute_next_fire` for a time of day that does not exist, which
the schedule macro refuses to write, and intervals so large that adding them overflows.

The throttle's `ThrottleCheck` and `RecordFailure` bracket a verification, so
attempts in flight together are all admitted on the same level: `overdrawn`
counts what they take beyond it, `forgiven` what the sweep gives back when it
measures a client's bucket with the quota of an account. A refusal names at least
`MinimumRetryAfter`. The lock is never poisoned: nothing that can panic runs under it.

### 2.9 Sessions

A request is `Visit` (the library's middleware), `LoadSession`, any of
`Login`, `Logout`, `Regenerate`, `ChangePassword`, `RecordVerified`,
`ForgetConfirmed`, `ToggleFlash`, and `Respond`, which saves the copy if it was
touched (one that was emptied under its id is saved empty). `LoadUser` applies the absolute age and the credential stamp and
flushes what fails them; a session of an earlier version is bound to both as it goes; a
user without a stored credential is bound to none, and one whose row is gone is a guest
who keeps the session. Two requests of one browser hold copies of one record,
and each saves the whole of it.

### 2.10 ApiTokens, Inertia, ClientAddress, Locales

`ApiTokens` draws ids from a small set so that they collide; `InsertNew` is the
INSERT that loses to an id in use and `IssueToken` draws again, up to
`IssueAttempts`. `Inertia` plans a response (`Plan`, `Page`) from the request's
headers as `resolve` does, and has an external client that merges answers in
whatever order they arrive; after a deployment a GET of the old assets is refused
(`VersionConflict`) and any other method answered. `ClientAddress` lets a request travel through
trusted proxies, which write what they see, and other hosts, which write what
they like. The header is the list of its entries, each with whether the line it is in
can be read: `get_all` and the split make one list of several lines, and all a line
decides is whether `to_str` drops its entries. `Locales` keeps what `Origin` answered in a cache that obeys `Vary`, while readers
switch the language of their session (`SwitchLocale`; `had` is every one a reader has had)
and applications send `Vary` lines of their own, some unreadable, which `EnsureVary`
drops. A header longer than the limit is cut, which is another header.

### 2.11 Cache, Notifications, Migrations

`Cache` has one key under `remember`, with the version each loader read, and one
key under the lease; a time-to-live is in ticks and reaches Redis in whole
seconds (`AsSecs`). `Notifications` is one action per channel, each of which may
fail and end the call, before it took effect or after (`ChannelFails`); `FindChannel` and `Publish` are the two halves of a push.
`dismissed` has the rows their own recipient marked read or deleted: what a prune may take.
`Migrations` is one action per statement of `apply_on` in three dialects:
PostgreSQL waits for its lock, MySQL gives up on it after a time and goes on,
SQLite has none. A session that kept the lock and is handed out again takes it once more,
and one unlock then does not free it (`mine`). Under `apply_tx` the effects wait for the caller's `Commit`,
except that MySQL commits each DDL statement at once. Two PostgreSQL transactions that make
the same objects both go on, where the server lets the second wait or fail: more behaviours
than there are, which is sound for `OkMeansSchema`.

### 2.12 DevSupervisor

`EditSource` and `EditEnv` are the user, `Noticed` the debounced watcher,
`TakeChange` the loop's turn, `Supersede` and `CancelOnInterrupt` what run_change
does while a build is under way. Each pass of a select makes a `ctrl_c()` of its own:
`Listen` is its first poll and `PassEnds` its end, and a signal between the two passes is
heard by nobody (`PressCtrlC`). `WatcherEnds` ends the watcher: an idle loop then stops,
a change under way is never let finish (`IgnoreWatcher`, section 3.4). After `Booted`,
which releases held requests, the types are written (`Regenerate`); a binary whose digest
cannot be read counts as changed. `CargoReads` and `CargoLinks` separate the
moment a build reads a source from the moment its binary is on disk, so an edit
in between is seen by neither. `mixed`, `preempted` and `unrecorded` are
histories of the three overlaps `ServesTheProject` excepts: `.env` and a source
in one burst, a change during a build that is replaced by a cheaper one, and a
restart from a binary that a cancelled build left on disk without recording its digest.

## 3. Runs

All runs are exhaustive. Deadlock is checked in `jobs_crash`; in the others the
modelled system has a legitimate end (a process returned, the bounded draws used
up, every connection gone), and the configuration says so.

| Run | Configuration | Checks |
|---|---|---|
| `jobs_crash` | 1 worker, 2 jobs in one batch, one without a handler, 1 permit, a crash and a restart, lapses, timeouts, cancels, failed writes and sweeps | `SuccessMeansRan`, `EventsMatchTable`, `BodyBudget`, `ImplementsQueue`, `EveryJobSettles` |
| `jobs_two_workers` | 2 workers, 1 job of 2 attempts, 3 claim statements, lapses, timeouts, stops, a restart, requeue, failed claims and releases | `OneEndPerClaim`, `NoOverlap`, `CleanShutdown` |
| `reset_store` | 2 subjects, 2 ids, 2 calls at once, 3 secrets, failures, expiry, revocation | `RedemptionsAccounted`, `SpendsOwnLink` |
| `remember_tokens` | 1 browser with 2 requests in flight, 4 secrets, every fault | `OneReplacement`, `RevokedStaysGone`, `CookieOnlyAdvances` |
| `app_lifecycle` | every set of subsystems, 2 requests or probes at once, every fault, fair | `TasksHaveDatabase`, `RequestsSeeOpen`, `CleanStop`, `SignalEndsRun` |
| `realtime_live` | a WebSocket and a stream for 1 place, a ring of 1, 2 payloads, a drain, mute peers, a channel that closes, fair | `LiveExact`, `DrainOkMeansClosed`, `WsDrains`, `MutePeerCloses` |
| `timers` | `LeaseTiming`: every valid configuration with a lease up to 4 s in half seconds, 3 jobs, batch 2, 1 permit. `Scheduler`: 2 entries, 10 ticks. `LoginThrottle`: 2 accounts, 1 client, 2 attempts at once. `RateLimit`: 2 keys, 2 requests at once, a burst of 2, skew 1 | `MarginKeepsClaims`, `FiresWithinCadence`, `FailuresPaidFor`, `GrantBound`, `ImplementsBucket` |
| `dev_loop` | 4 edits over 2 contents, a broken one and 2 environments, crashes, Ctrl-C heard or not, a watcher that ends, fair | `ServesTheProject`, `DevProgress` |
| `web_requests` | `Sessions`: 2 users, 2 session ids, 2 requests at once, 3 in all (2 where users with a credential have a session of an earlier version). `ApiTokens`: 2 ids, 2 owners, 2 issues at once. `Inertia`: 2 components, 2 props of any shape, a deploy. `ClientAddress`: hosts of two families, 4 header entries. `Locales`: 2 readers, every order of sources | `NoFixation`, `SignedOutStays`, `FreshMeansVerified`, `PlaintextStands`, `PageComplete`, `ClientIsReal`, `CachedInOwnLocale` |
| `services` | `Cache`: 2 remembers, 2 writers, 2 holders. `Notifications`: 2 calls, 2 recipients, 2 connections, 3 channels. `Migrations`: 3 replicas, 3 statements, 2 misfortunes, each dialect | `StaleOnlyIfOvertaken`, `LeaseExclusive`, `InboxKeeps`, `SubscribersReachable`, `OkMeansSchema` |
| `jobs_no_abort` | 1 worker, 2 jobs, a stop and a failed release | `NoAbort`, violated |
| `reset_single_use` | 1 subject, 2 calls, no fault | `SingleUse`, violated |

### 3.1 Why the bounds are enough

* *Jobs.* A race on a row needs a holder, a usurper and something that takes the
  row from the first: two workers and one job. A race inside a worker (a claim
  waiting for the only permit, a batch half handed out) needs two jobs and one
  worker. Three and four claim statements allow a first attempt, a retry
  and a stale completion of either. Sweep batches smaller than the number of
  lapsed rows occur. One restart suffices because a restarted worker starts from
  nothing.
* *Lease.* A margin is tight only against the number of rounds a batch takes, so
  a batch of two over one permit is the smallest case in which a claim waits
  through whole timeouts; half seconds are enough for the stored lease to be
  shorter than the configured one; and 4 s is the shortest lease with which a job
  inside the margin would lapse if its heartbeats renewed nothing.
* *Reset, remember.* Two overlapping calls and one replaced row are the smallest
  instance in which the read and the write of a call disagree. Three secrets let
  two links be replaced; four let a series rotate twice after its cookie was sent
  and leave one for a new sign-in.
* *Lifecycle.* Two requests let one be served while another holds the graceful
  shutdown open. The subsystems and the two tasks are not bounded: they are the
  code's own.
* *Realtime.* Two connections for one place make an admission fail against a
  departure; a ring of one makes a second payload overrun it. `MCRealtime.cfg`
  has three connections for two places and two drains.
* *Rates.* Two readings in flight are what can arrive out of order. Two keys are
  the sweep threshold, so that one key's request sweeps the other; eight ticks are
  twice the refill of a full bucket, the time after which Redis forgets it.
* *Scheduler, throttle.* Two entries make one wait for the other, over more than
  two days of four ticks; two attempts overlap, and the sweep threshold is the three
  buckets of two accounts and a client.
* *Sessions, tokens.* The users all store a credential, in an empty table; or none
  does, and there is a session of an earlier version (`SomeSessions`); or all do and there is
  one, for two requests (`OldSessions`). The theorems have every mixture. A fixation or a resurrection takes two requests of one
  browser and a second id; a confirmation of somebody else takes two users.
  Three tokens over two ids force a collision.
* *Inertia, addresses, locales.* Two components are enough for an answer of another
  page, and every pair of prop shapes occurs. Four entries put an untrusted host
  before, between and after proxies. Two readers share a cache. The
  first catalog is the default, a session's key comes with one for the URL, and the
  application's own `Vary` says one thing, or `Cookie` and one more (`SomeLocales`).
* *Cache, notifications, migrations.* A loader overtaken by a writer, and a slow
  writer overtaken by a fast one. Reclaiming needs a second recipient and a
  third channel. Of three replicas one may keep the lock, one time out
  on it and one come late.
* *Dev loop.* Four edits: one being built, one superseding it, one more and its
  return to an earlier content.

### 3.2 What the passing runs show

* A claim ends once. Neither a late completion nor both statements of a sweep can
  end it a second time, and no running row passes from one claim to another
  without an end in between. An operator's cancel is among the faults of
  `jobs_crash`; that it does not end a claim twice either is left to
  `OneEnd` (section 5), which covers every action of the table.
* A row is marked succeeded only when the body of that very claim returned Ok,
  and the observer is told only of outcomes the table took.
* Bodies of a job start at most `max_attempts` times, although a shutdown that
  releases a claim leaves the counter raised.
* Two bodies of one job overlap only when the older claim was taken from it or
  timed out; a clean shutdown leaves no row locked by the worker that returned.
* Under fair scheduling every job settles, through crashes and failing sweeps.
* A healthy worker keeps its claims when
  `ceil(poll_batch / concurrency) * job_timeout + heartbeat_interval` fits in the
  lease in whole seconds. `validate` asks for less (section 3.4).
* A reset is always credited to the subject its link was minted for, and there
  are never more of them than rows inserted for that subject.
* A series never has two current secrets, does not come back once signed out, cascaded or swept, and no late
  response takes the browser back to an older secret.
* The pool outlives the tasks that borrow it, requests find every subsystem open,
  Ok from `run_with_state` means that nothing is left running or open, and after
  the signal the run returns.
* The connection count is exact under every interleaving, Ok from `drain` means closed, and a drain cannot be missed by a
  WebSocket, wherever between its flag and its notification the loop stood.
* A schedule entry is never enqueued more often than its cadence came round,
  although rounds run late and off one clock reading: a backlog is dropped.
* With one clock either rate limit backend is a plain token bucket, sweeps,
  expiries and lost replies included. With late or skewed readings a key gains
  at most what the readings went backwards, plus the skew.
* A client's failed sign-ins cost it, whatever accounts it tries and whatever it
  signs into in between. One attempt at a time overdraws nothing.
* A session id known before sign-in never carries a sign-in. A session signed out is
  gone, unless another request held a copy of it at that moment. Passing a
  confirmation means that this user typed the password within the window.
* A token's plaintext authenticates its owner exactly until it expires or is
  revoked, through collisions of ids and rows issued later.
* An Inertia client is never missing a prop it was not told of, although deferred loads
  and partial reloads are answered late, by other pages or not at all.
* The address a request is put down to is the last host that is not trusted, with one
  exception: a header of which a part cannot be read may stop at a proxy.
* A stale cache entry was loaded before an invalidation and stored after it, or an
  invalidation failed; a lease in whole seconds has one holder.
* What reached a connection, a mailbox or the queue is in the inbox, if it was meant to be,
  until its recipient read or deleted it;
  nobody subscribed is left on a channel that is no longer published to.
* Ok from a migration means the whole schema, in each dialect, through crashes,
  dropped calls and MySQL's lock that times out unread.
* Outside the three overlaps of 2.12 the page shown once the dev loop is quiet is the
  project on disk; while the watcher lives the loop comes to rest, and a Ctrl-C that a select
  was listening for ends it, whatever is edited or built meanwhile.

### 3.3 Findings

Two runs refute what the repository says of itself; section 3.4 has the others.

* `jobs_no_abort`: `release_claim(..).await?` (`src/jobs/worker.rs:178`) leaves
  `run_loop` on a database error during shutdown and drops the JoinSet, so the
  tasks in flight are aborted. The module comment promises that shutdown "waits
  for in-flight tasks to commit their outcome (no abort)". The lease repairs the
  rows later (`EveryJobSettles`), at the price of another attempt.
* `reset_single_use`: `consume` reads a link by id and spends it with a DELETE by
  subject. Two consumes of one link with an `issue` between them are both
  answered, the second by deleting the new link. The comment at
  `src/auth/flows/reset/store.rs:30` says that exactly one sees a row affected.
  `RedemptionsAccounted` is what does hold.

### 3.4 Further configurations

These are kept for the questions a reader will ask next. They are run like the
others (`tlc -config X.cfg Module`).

| Configuration | Outcome | What it shows |
|---|---|---|
| `MCJobWorker_atleastonce` | `AtLeastOnce` violated | a claim counts as an attempt when taken, then waits for a permit without a heartbeat; a lapse on the last attempt buries a job whose handler never ran (`docs/src/jobs.md:7`, "The queue is at-least-once") |
| `MCJobWorker_untilshutdown` | `RunsUntilShutdown` violated | one failed claim statement ends the worker for good (`src/jobs/worker.rs:61`, "until `shutdown` is cancelled") |
| `MCPasswordReset_serial` | passes | with `issue` kept from overlapping other calls, `SingleUse` and `OneArmedLink` hold |
| `MCRememberTokens_sequential` | passes | a browser that waits for each response is never accused, whatever another device does |
| `MCJobQueue` | passes | the table alone, under callers that present any token ever issued: `QueueTypeOK`, `LockedIffRunning`, `ClaimsAccounted`, `OneEndPerClaim`, `TerminalIsFinal`, `NoStealing` |
| `MCRealtime` | passes | three connections, two places, two drains: `TypeOK`, `LiveExact`, `CapHolds`, `DrainOkMeansClosed` |
| `MCRealtime_stalled` | `StalledPeerCloses` violated | a send to a peer that does not read keeps the loop away from heartbeat and drain (`websocket.rs:158`) |

The following need no file of their own: take the configuration named (with the
one change named, if any) and put the property shown in place of its
`INVARIANTS` and `PROPERTIES`.

| Configuration | Property | What it shows |
|---|---|---|
| `MCPasswordReset_single` | `OneArmedLink` violated | two overlapping issues both clear before either inserts (`src/auth/flows/reset/store.rs:141`) |
| `MCRememberTokens` | `NoFalseTheft` violated | the row remembers one previous secret; a request two rotations late is Theft inside the grace window (`remember/store.rs:30`) |
| `MCRememberTokens` | `LostToRotation` violated | zero rows affected also means revoked meanwhile, and is answered Accepted (`remember/store.rs:514`) |
| `MCJobWorker_two` | passes | two workers: `TypeOK`, `EventsMatchTable`, `ClaimHeldOnce`, `ImplementsQueue` |
| `MCTimers` | `HealthyKeepsClaims` violated | `validate` accepts a lease that is stored rounded down to less than a heartbeat, and leaves no room for the wait for a permit (`src/jobs/config.rs:252`, `docs/src/jobs.md:146`) |
| `MCTimers` | `SkewNeverGrants` violated | a reading behind the stored one rewinds it, and the next one is credited the difference again, against the comment on `unix_millis` |
| `MCTimers` | `SweepInvisible` violated | the sweep measures a client's bucket with the account quota and forgets one that is not full (`throttle.rs:473`) |
| `MCTimers` | passes | `WaitSuffices`: the wait a refusal names is enough, for both buckets |
| `MCAppLifecycle`, `Spec` | passes | `TypeOK`, `ReadyMeansServing`, `LifecycleForward` |
| `MCAppLifecycle` | `DrainsBeforeListenerStops` violated | `begin_drain` runs after `serve` has returned, so `/up/ready` never turns 503 while requests in flight are served (`src/application/health.rs:16`) |
| `MCAppLifecycle` | `TaskErrorsSurface` violated | an error the worker returned is dropped by `JobsRuntime::shutdown` (`jobs_runtime.rs:31`) |
| `MCAppLifecycle` | `AwaitsBoth` violated | a worker that panicked makes `shutdown` return before it awaits the scheduler |
| `MCRealtime_live` | `WsExitsAtFirstPass` violated | the select is not biased, so a pass of a drain may take a payload (`docs/src/realtime.md:286`) |
| `MCRealtime_live`, `Spec` | passes | `TypeOK`, `SseEndsAfterOneMore` |
| `MCDevSupervisor` | `ServesEveryChange` violated | a `.env` edit during a rebuild replaces it by a restart of the old binary, and the source edit waits for the next one (`dev/mod.rs:453`, "rebuild on every change") |
| `MCDevSupervisor` | `WatcherEndIsFound` violated | a watcher that ends during a change: its arm is ready in every pass and stands before the work, which gets no turn (`dev/mod.rs:575`, "let the build finish and let the caller discover it on the next pass") |
| `MCDevSupervisor` | passes | `ReadyHasChild`: requests are released only to a process that has listened |
| `MCWeb` | `SignedOutAlways` violated | a request that loaded the session before the sign-out saves it back: save is an upsert |
| `MCWeb` | `AlwaysInOwnLocale` violated | a locale from the session is announced with `Vary: Accept-Language` alone (`negotiate.rs:48`): another reader gets it from a shared cache |
| `MCServices` | `NeverStale` violated | `remember` puts what it loaded over a forget that came in between |
| `MCServices`, `LeaseTtl = 3` | `LeaseForItsTime` violated | a lease of a second and a half is kept for one |
| `MCServices` | `PushSeesListeners` violated | the channel is looked up under the lock and published to after it, when a reconnect may have made another (`broadcast.rs:303`) |
| `MCServices` | `SafeFromEveryReplica` violated | CREATE_HISTORY runs before the lock; two PostgreSQL sessions that both miss the table make one of them fail (`tokens/store.rs:118`) |
| `MCServices` | `LockIsInUse` violated | a dropped or failed migration gives its session back to the pool with the lock (`dialect/postgres.rs:129`) |

## 4. Fairness

* `JobWorker` (`jobs_crash`): tokio polls the loop and the tasks (weak fairness of
  `LoopStep`, `TaskStep`), handlers end or time out, the sweep comes due again and again and
  its statements do not fail forever (strong fairness, since other work comes in
  between), dead processes are restarted, clocks advance. None of it says that a
  worker is never late.
* `AppLifecycle` (`app_lifecycle`): `run_with_state` is polled, handlers and
  probes come to an end, and tasks end once cancelled. The code puts no bound
  on any of these, so `SignalEndsRun` is conditional on them.
* `Realtime` (`realtime_live`): tasks are polled; a compare-and-swap does not lose
  for ever; `select!` polls its arms in random order, so an arm that is ready over and
  over is taken (strong fairness of `DrainArm`); a client that reads takes what is
  sent. Heartbeats are assumed to tick only until a drain begins, so that `WsDrains` does not
  rest on the heartbeat to hide a lost wakeup. Nothing is assumed of stalled
  peers, of publishers or of clients leaving.
* `DevSupervisor` (`dev_loop`): the loop is polled, builds and boots end. Edits,
  crashes, the end of the watcher and Ctrl-C are not assumed to happen.

## 5. Proofs

Every safety property that a passing run checks, invariant or action property, is also a
theorem. The proofs hold for every value of the constants under the named assumptions
of the modules, which TLC evaluates in each run. Most of an assumption gives bounds
their sign and sets their members. The ones that say more:

* `QueueConstants`, `SessionConstants`: `Nobody` is no worker and no user;
  `DevConstants`: a content that does not compile is none that does, and neither is `None`.
* `RealtimeConstants`, `TimingConstants`: finitely many connections and jobs, so that they
  can be counted.
* `SkewWithinRefill`: clocks of servers differ by at most the time of a refill.
* `ThrottleConstants`: no account's key is a client's key. The code hashes the two under
  different domains.
* `AddressConstants`: hosts have addresses of the two families in canonical form.

| Module | Theorems | Inductive invariant |
|---|---|---|
| `JobQueueProofs` | `QueueTypeCorrect`, `LocksCorrect`, `ClaimsAccountedCorrect`, `OneEnd`, `NoStealingCorrect`, `TerminalIsFinalCorrect` | `QueueInv`: types, `LockedIffRunning`, `HistoryInv` (no claim or end with a token not yet issued, every end of a recorded claim), `ClaimsAccounted`, `OneEndPerClaim` |
| `JobWorkerProofs` | `WorkerImplementsQueue`, `WorkerRefinesQueue`, `WorkerTypeCorrect`, `SuccessCorrect`, `EventsCorrect`, `HeldOnceCorrect`, `BudgetCorrect`, `OverlapCorrect`, `ShutdownCorrect` | `WorkerInv`: `QueueInv`; the running row is under the newest claim and a final end has no claim after it; where every claim is (`HeldInv`, `BatchesApart`), which were started (`StartedInv`, `ReleasedInv`), how a task ends (`EndingInv`), what is left of the attempts (`AttemptInv`, `BudgetInv`), who answers for a locked row (`OwnedInv`) |
| `PasswordResetProofs` | `ResetTypeCorrect`, `SpendsOwnLinkCorrect`, `RedemptionsAccountedCorrect` | types; every row, and every spend in progress, belongs to the mint of its secret; answers plus rows still in the table are covered by the rows inserted |
| `AppLifecycleProofs` | `TasksHaveDatabaseCorrect`, `RequestsSeeOpenCorrect`, `CleanStopCorrect`, `LifecycleForwardCorrect` | types; where each `pc` puts `at`, listener and tasks; what has been started is open; requests are in flight only while serving; tasks only with the job runtime; what teardown has passed is closed; what an Ok means |
| | `DevCorrect` | `DevInv`: what a cancelled change waits for; how far source (`SourceReaches`) and environment (`EnvReaches`) have come; what the process was started from (`ProcessOfDigest`) |
| `RealtimeProofs` | `LiveExactCorrect`, `CapHoldsCorrect`, `DrainOkCorrect` | types of the registry; what a loaded count says of a pending compare-and-swap; a drain's connections are holders or gone; the cap; the exact count; Ok means closed |
| `TimersProofs` | `GrantBoundCorrect`, `RateTypeCorrect`, `RateImplementsBucket` | types; readings at most `Skew` ahead; a bucket carries the reading it was settled at and outlasts a refill from there; `Budget`: granted plus held, less that reading, within capacity plus what was rewound; `ExactInv`: with exact clocks no reading and no bucket is off the clock |
| | `MarginCorrect`, `LeaseTypeCorrect` | `LeaseInv`: what a handler has run and how old its lock is (`RunBounds`); what a waiting batch has seen happen (`BatchBounds`) |
| | `CadenceCorrect` | `SchedInv`: types; `OneToCome`, an occurrence is left for the time of the next fire |
| | `FailuresCorrect` | `ThrottleInv`: types; `ThrottleBudget`, failures plus what is left; `OneAtATime`, the token an attempt was checked for is still there |
| `WebProofs` | `SessionInvariant`, `NoFixationCorrect`, `SignedOutCorrect`, `FreshCorrect` | `SessionInv`: what a record may say holds of every copy too; record and copies of one session are of one user; no confirmation is later than the user's last |
| | `PlaintextStandsCorrect` | types; `Drawn`: no secret in use before it is drawn; `RowsApart`, `CallsApart`: a secret is one row's or one call's, and nobody's once revoked; `RowStands`: the row of a plaintext is there until it expires or is revoked, and no other row has its secret |
| | `PageCorrect` | `InertiaInv`: what a request names as held is stored in the client |
| | `LocaleCorrect` | `LocaleInv`: a kept response is in the locale negotiated for some reader of its key |
| | `RememberInvariant`, `ReplacementCorrect`, `RevokedCorrect`, `AdvanceCorrect` | `RememberInv`: no secret before it is drawn; a replaced secret is behind the row's; `Latest`, about a new cookie on its way |
| | `ClientCorrect` | `AddressInv`: where in the header the client stands, who is behind it, which lines there can be read |
| `ServicesProofs` | `StaleCorrect`, `LeaseCorrect` | `ValueInv`: whatever holds an old value was overtaken, or an invalidation is to come; `LeaseInv`: whoever is inside its time holds the key |
| | `NoteInvariant`, `InboxCorrect`, `SubscribersCorrect` | `NoteInv`: a call past the inbox left its row there; a connection's channel is its recipient's |
| | `MigrateCorrect` | `MigrateInv`: the committed schema is a beginning of the migration, all of it once recorded; so is what each call sees |

*The job table.* `OneEndPerClaim` is not inductive: a token already ended could, as far
as it says, still be the row's current one. `ClaimsAccounted` closes the gap: a claim
is unended exactly when its row runs under its token. The fence
`status = 'running' AND claim_token = ?` then lets only an unended claim be
ended, and a fresh token makes a new claim distinct from all before. Each
statement is one step of the proof.

*The worker.* Every step of a worker is a statement on the table, or leaves the table
alone (`WorkerRefinesQueue`: the specification of `JobWorker` implies that of
`JobQueue`), so what is proved of the table for every caller holds of the workers.
What the worker adds needs a map of claims: each is in the batch of one worker or in one
dispatch task, and a claim that was released or lost is started by nobody. `BodyBudget`
counts claims that were not released: a release keeps the raised `attempts`, so the
column may be past `max_attempts` while the budget is not. `NoOverlap` and
`CleanShutdown` follow from who still answers for a locked row.

*Lease margins.* A batch waits for permits with no heartbeat, and how long is a matter
of counting: in every full timeout of the wait each permit has come free once and gone to a
job of the batch. After as many timeouts as the batch divided by the permits nothing
waits, and the margin the configuration asks for covers exactly that. `Waited` states
it without division, as the number of handlers started after the first i timeouts.

*Scheduler.* That a fire is within its cadence follows once it is known that
`next_fire` was computed from an earlier reading and is not past (`NextFireAdvances`),
for the interval and for the daily cadence in turn.

*Login throttle.* As for the rate limiter, failures and what is left are counted
together. What overlapping attempts overdraw and what the sweep gives back are the two
terms that the bound names.

*Reset links.* What a spend removes it removes by subject, so what must be
counted is rows per subject and not links. The count is carried through each
statement, including the one that removes several rows at once.

*Remember-me tokens.* `CookieOnlyAdvances` is about the order of responses. A secret is
rotated only by a request that carries it, and nobody carries it before it was
delivered: while a new cookie is on its way it is the row's secret, newer than every
cookie of the series in a jar or in a request, and the only new one (`Latest`). Whatever
arrives then is newer than what it replaces. A lost response leaves a row nobody can
rotate, and nothing else.

*Lifecycle.* `CleanStop` speaks of the end only. The strengthening says what
holds at each position of startup and teardown, `TornDown` in particular:
everything behind the position on the way down is closed, unless it never was
open.

*The development loop.* `ServesTheProject` speaks of a loop at rest. The invariant
follows a source on its way there (held change, cargo's reading, the disk, the process)
and an environment on its own (a Restart, the process); the three histories are what
lets either fall off its way, and no others exist. An unchanged binary ends a reload
without a restart, which is right because the recorded digest is the process's own.

*Realtime.* The steps fall into a few moves (a guard is gained, a guard is
lost, a connection moves on with or without its guard, a drain moves), and the
invariant is shown once for each move; the count changes by adding an element
to, or removing one from, the finite set of holders.

*Rate limits.* `GrantBound` forgets the level, `Budget` keeps it. The one place
that writes a level is shown to conserve it (`WriteKeeps`): time credited since the
stored reading is exactly what the reading moved, and a reading that moved back
is charged to `rewound`. Dropping a bucket fills it, so a dropped one must have
been full already: a swept one by the sweep's own test, an expired one because
twice the refill time covers a refill after a reading one skew ahead. That is
the one use of `SkewWithinRefill`. For the refinement of `TokenBucket` the same facts say
that dropping a bucket is a stutter, and a refusal's wait suffices and is too long by less
than a second and the rounding of the reply (`Pad`).

*Sessions.* `NoFixation` and `SignedOutStays` speak of the table; what comes into it
are copies that requests took earlier. The invariant says of copies what it says of
records, and `UserFixed` keeps a saved copy from bringing back another user.

*API tokens.* `PlaintextStands` alone is not inductive: a call still redrawing
could, as far as it says, be about to insert a secret that was handed out or
revoked before. `CallsApart` excludes it; `INSERT_NEW`, which writes only where no row is, then
keeps `RowStands`, and removal takes a row away only with its secret in `cut` or
its time past.

*Pages, locales.* Both properties are about what a third party keeps (the client's
stored props, the shared cache), and the invariant says how what is kept came about.

*Client addresses.* The header is what was forged, then what proxies wrote. The
invariant names the position of the client in it: proxies stand behind it, and before a
trusted client there is nothing or an entry that is no address. Joining hides all entries or none, so
the lines that can be read are all of those from there on, or a stretch at the end
(`ReadableFrom`). The walk then ends at a known position in each case, and the masks
and widths of the networks do not matter: that a proxy is trusted in either written form
is all the proof asks of them.

*Cache, notifications, migrations.* A stale value is traced to an overtaken load or an
invalidation still to come; an inbox row to the call that stored it; and a schema to
the statements run so far, which in every dialect are the first n of the migration,
whoever ran them.

Not proved, and left to TLC: liveness (`EveryJobSettles`, `SignalEndsRun`,
`WsDrains`, `MutePeerCloses`, `DevProgress`), which is outside this prover's reach, and the
properties of the configurations that no run of `PROJECT.json` uses
(`SseEndsAfterOneMore`, `ReadyMeansServing`, `NoFalseTheft`, which rests on an action
constraint).

## 6. Abstractions and what is not modelled

* Payloads, names, wording and logs; entropy and hashing (secrets are distinct by
  construction); the contents of a row that no statement tests.
* `RetryPolicy::delay_for`: floating point with jitter. A delayed row becomes due
  at any time, which covers every delay.
* SQL isolation below the statement: a statement is one step. For the claim this
  rests on `FOR UPDATE SKIP LOCKED` and on single-writer SQLite.
* Floating point in the two token buckets: levels are exact integers, and the
  rounding of a Redis reply is `Grain`.
* The typed session API, CSRF tokens, and `last_used_at` of API tokens; merge modes and
  nested paths of Inertia; `incr` and `decr` of the cache.
* The middleware that loads and saves a session, the Inertia client, shared
  caches, proxies and Redis are external and marked so in the map.
* The dev IPC endpoint, socket plumbing, TLS, and signal delivery.
* Libraries: sqlx, tokio, hyper, object storage, SMTP, Redis.
* Parts without evolving state, listed with reasons in `PROJECT.json`.

## 7. Plan

Done: the job queue with its worker, timing, scheduler and migrations; the
application run; the realtime subsystem; the auth stores, sessions and tokens;
both rate limits; cache, notifications, Inertia, client address, locales; the
development supervisor; and the proofs above.

Next, in order:

1. Proofs: `ReadyMeansServing` of `AppLifecycle`, `SseEndsAfterOneMore` of `Realtime`,
   `NoFalseTheft` of `RememberTokens` with the one-request rule as part of the
   specification.
2. `Scheduler` and `Notifications` composed with `JobQueue`.
3. The typed session API and CSRF rotation over `Sessions`.

What is left after that is code without evolving state: the generators and
parsers of the CLI, rendering, validation, configuration, encryption and the
wrappers over libraries. It is most of the repository's lines, and a state
machine would say nothing of it.
