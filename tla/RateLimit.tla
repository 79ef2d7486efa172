----------------------------- MODULE RateLimit -----------------------------
(***************************************************************************)
(* RateLimit, the token bucket layer of routing/rate_limit.rs, over its two *)
(* backends: the in-memory table (a mutex, and a sweep of refilled buckets  *)
(* once it is large) and the Redis script (one EVAL, and an expiry).        *)
(*                                                                         *)
(* A request reads a clock first and reaches its bucket later, so readings  *)
(* reach a bucket out of order; through Redis they also come from clocks    *)
(* that disagree by up to Skew.  Levels are counted as in TokenBucket, and  *)
(* exactly: the code's floating point is not modelled.                     *)
(***************************************************************************)
EXTENDS Integers, FiniteSets

CONSTANTS Keys,
          Requests,     \* requests in the layer at once
          Capacity,     \* tokens of a full bucket: the burst
          Period,       \* ticks to earn a token
          Second,       \* ticks of a second
          Grain,        \* units the script's reply is rounded down to
          SweepAt,      \* buckets at which the in-memory table sweeps
          Skew,         \* how far a clock may be from the server's
          MaxClock,     \* bound: ticks
          MaxCalls      \* bound: requests ever made

Full == Capacity * Period

ASSUME RateConstants ==
    /\ Capacity \in Nat \ {0} /\ Period \in Nat \ {0} /\ Second \in Nat \ {0}
    /\ Grain \in Nat \ {0} /\ SweepAt \in Nat \ {0} /\ Skew \in Nat
    /\ MaxClock \in Nat /\ MaxCalls \in Nat

\* The expiry of an idle bucket is twice its refill time, so it outlasts a
\* refill even when the reading it was written with was a refill ahead.
ASSUME SkewWithinRefill == Skew <= Full

VARIABLES mode,     \* which backend, what to do without it, whether clocks are exact
          clock,    \* the time
          pending,  \* each request's key and clock reading, once it has them
          bucket,   \* the table, or Redis: [t, u, expires] where there is a bucket
          answer,   \* the last response of this tick
          calls,    \* requests made
          granted,  \* history: tokens spent on each key
          seen,     \* history: the reading each bucket was last settled or dropped at
          rewound   \* history: how far readings of each bucket went backwards, in all

vars == <<mode, clock, pending, bucket, answer, calls, granted, seen, rewound>>

\* Exact: one clock, and every request reaches its bucket the tick it reads it.
\* Only Redis can be down.
Modes == [backend : {"memory"}, onError : {"refuse"}, exact : BOOLEAN]
         \cup [backend : {"redis"}, onError : {"refuse", "allow"}, exact : BOOLEAN]

Idle == [at |-> -1]

Absent == [t |-> Full, u |-> -1, expires |-> -1]

Present == {k \in Keys : bucket[k] # Absent}

NoAnswer == [kind |-> "none"]

Init ==
    /\ mode \in Modes
    /\ clock = 0
    /\ pending = [r \in Requests |-> Idle]
    /\ bucket = [k \in Keys |-> Absent]
    /\ answer = NoAnswer
    /\ calls = 0
    /\ granted = [k \in Keys |-> 0]
    /\ seen = [k \in Keys |-> 0]
    /\ rewound = [k \in Keys |-> 0]
-----------------------------------------------------------------------------
AtLeast(bound, n) == IF n < bound THEN bound ELSE n
AtMost(bound, n) == IF n > bound THEN bound ELSE n

\* refilled: the level after a time, capped at capacity.
Refilled(t, elapsed) == AtMost(Full, t + elapsed)

\* seconds_to_accrue, then max(1): the Retry-After of a refusal.
RetryAfter(t) == AtLeast(1, (Period - t + Second - 1) \div Second)

\* The level of k as a request with this reading finds it, a missing bucket
\* being full and an earlier reading adding nothing.
LevelAt(b, at) == Refilled(b.t, IF b = Absent THEN 0 ELSE AtLeast(0, at - b.u))

\* Mutant: an empty bucket still admits.
SettleAtZero(t) ==
    IF t >= 0 THEN [left |-> AtLeast(0, t - Period), allowed |-> TRUE]
              ELSE [left |-> t, allowed |-> FALSE]

\* Quota::settle.
Settle(t) ==
    IF t >= Period THEN [left |-> t - Period, allowed |-> TRUE]
                   ELSE [left |-> t, allowed |-> FALSE]

\* The expiry the script sets, in ticks: twice the refill time, at least a second.
Ttl == AtLeast(Second, 2 * Full)

\* key_for and the clock reading.  A client with no key shares the bucket of the
\* unidentified ones, which is one of Keys.
Arrive(r, k, at) ==
    /\ pending[r] = Idle
    /\ calls < MaxCalls
    /\ calls' = calls + 1
    /\ at >= 0
    /\ IF mode.backend = "memory" \/ mode.exact THEN at = clock
       ELSE at \in (clock - Skew)..(clock + Skew)
    /\ pending' = [pending EXCEPT ![r] = [at |-> at, key |-> k]]
    /\ UNCHANGED <<mode, clock, bucket, answer, granted, seen, rewound>>

\* Mutant: the sweep drops buckets that hold a token, refilled or not.
SweptWithToken(at) ==
    {k \in Present : Cardinality(Present) >= SweepAt /\ LevelAt(bucket[k], at) >= Period}

\* The sweep of the in-memory table: buckets refilled to capacity go.
Swept(at) ==
    {k \in Present : Cardinality(Present) >= SweepAt /\ LevelAt(bucket[k], at) >= Full}

\* One settled bucket, written back with the reading of its caller, after the
\* buckets of S are dropped.
Write(k, at, S, left, allowed) ==
    /\ bucket' = [q \in Keys |->
        IF q = k THEN [t |-> left, u |-> at,
                       expires |-> IF mode.backend = "redis" THEN clock + Ttl ELSE 0]
        ELSE IF q \in S THEN Absent ELSE bucket[q]]
    /\ granted' = [granted EXCEPT ![k] = IF allowed THEN @ + 1 ELSE @]
    /\ rewound' = [rewound EXCEPT ![k] = @ + AtLeast(0, seen[k] - at)]
    /\ seen' = [q \in Keys |-> IF q = k \/ q \in S THEN at ELSE seen[q]]

\* The decision a client sees; the level is what the backend reported.
Decide(k, t, allowed) ==
    answer' = IF allowed THEN [kind |-> "allowed", key |-> k]
              ELSE [kind |-> "refused", key |-> k, wait |-> RetryAfter(t)]

\* MemoryBuckets::check, under the lock.
MemoryCheck(r) ==
    LET k == pending[r].key
        at == pending[r].at
        S == Swept(at)
        s == Settle(IF k \in S THEN Full ELSE LevelAt(bucket[k], at))
    IN  /\ mode.backend = "memory"
        /\ pending[r] # Idle
        /\ Write(k, at, S, s.left, s.allowed)
        /\ Decide(k, s.left, s.allowed)
        /\ pending' = [pending EXCEPT ![r] = Idle]
        /\ UNCHANGED <<mode, clock, calls>>

\* RedisBuckets::check when the script runs and its reply comes back.
RedisCheck(r) ==
    LET k == pending[r].key
        at == pending[r].at
        s == Settle(LevelAt(bucket[k], at))
    IN  /\ mode.backend = "redis"
        /\ pending[r] # Idle
        /\ Write(k, at, {}, s.left, s.allowed)
        /\ Decide(k, s.left - (s.left % Grain), s.allowed)
        /\ pending' = [pending EXCEPT ![r] = Idle]
        /\ UNCHANGED <<mode, clock, calls>>

\* The answer of the layer when check fails: on_backend_error.
Undecided(k) ==
    answer' = [kind |-> IF mode.onError = "refuse" THEN "unavailable" ELSE "unmetered",
               key |-> k]

\* The script never ran.
RedisDown(r) ==
    /\ mode.backend = "redis"
    /\ pending[r] # Idle
    /\ Undecided(pending[r].key)
    /\ pending' = [pending EXCEPT ![r] = Idle]
    /\ UNCHANGED <<mode, clock, bucket, calls, granted, seen, rewound>>

\* The script ran and its reply was lost.
RedisReplyLost(r) ==
    LET k == pending[r].key
        at == pending[r].at
        s == Settle(LevelAt(bucket[k], at))
    IN  /\ mode.backend = "redis"
        /\ pending[r] # Idle
        /\ Write(k, at, {}, s.left, s.allowed)
        /\ Undecided(k)
        /\ pending' = [pending EXCEPT ![r] = Idle]
        /\ UNCHANGED <<mode, clock, calls>>

\* PEXPIRE comes due.
Expire(k) ==
    /\ mode.backend = "redis"
    /\ bucket[k] # Absent
    /\ clock >= bucket[k].expires
    /\ bucket' = [bucket EXCEPT ![k] = Absent]
    /\ seen' = [seen EXCEPT ![k] = clock]
    /\ UNCHANGED <<mode, clock, pending, answer, calls, granted, rewound>>

Tick ==
    /\ clock < MaxClock
    /\ mode.exact => \A r \in Requests : pending[r] = Idle
    /\ clock' = clock + 1
    /\ answer' = NoAnswer
    /\ UNCHANGED <<mode, pending, bucket, calls, granted, seen, rewound>>

Next ==
    \/ \E r \in Requests, k \in Keys : \E at \in 0..(clock + Skew) : Arrive(r, k, at)
    \/ \E r \in Requests : MemoryCheck(r) \/ RedisCheck(r) \/ RedisDown(r) \/ RedisReplyLost(r)
    \/ \E k \in Keys : Expire(k)
    \/ Tick

Spec == Init /\ [][Next]_vars
-----------------------------------------------------------------------------
\* Type correctness.  A bucket that is there is never full: it was written after
\* a spend, or by a refusal.
TypeOK ==
    /\ mode \in Modes
    /\ clock \in Nat
    /\ pending \in [Requests -> {Idle} \cup [at : Nat, key : Keys]]
    /\ bucket \in [Keys -> {Absent} \cup [t : 0..(Full - 1), u : Nat, expires : Nat]]
    /\ granted \in [Keys -> Nat]
    /\ seen \in [Keys -> Nat]
    /\ rewound \in [Keys -> Nat]

\* The allowance of a key, whatever the backend forgets and in whatever order
\* readings arrive: a burst, what the time has refilled, and what readings that
\* went backwards (or ahead of the server) have been worth.
GrantBound ==
    \A k \in Keys : Period * granted[k] <= Full + clock + Skew + rewound[k]

\* What the comment on unix_millis says: skew never grants anything, so the
\* allowance is the burst and what the time has refilled.
SkewNeverGrants ==
    \A k \in Keys : Period * granted[k] <= Full + clock

\* Refinement: with one clock and no waiting between the reading and the bucket,
\* either backend is the bucket TokenBucket describes.  Its sweep, its expiry,
\* its rounded replies and its lost replies cannot be told from a bucket that is
\* always there, but for a wait padded by the rounding.  Other behaviours are mapped to a bucket nobody asks.
Bucket == INSTANCE TokenBucket WITH
    level <- [k \in Keys |-> IF mode.exact THEN LevelAt(bucket[k], clock) ELSE Full],
    answer <- IF mode.exact THEN answer ELSE NoAnswer,
    Pad <- Grain,
    MaxWait <- Period

ImplementsBucket == Bucket!Spec
=============================================================================
