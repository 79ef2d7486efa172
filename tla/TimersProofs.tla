---------------------------- MODULE TimersProofs ----------------------------
(***************************************************************************)
(* Proofs about the components that count time: the claims of a job worker, *)
(* the scheduler, the login throttle and the rate limiter, for every value  *)
(* of their constants.                                                     *)
(*                                                                         *)
(* None of the four bounds is inductive, for each forgets what is yet to    *)
(* come: what a bucket still holds, the occurrence an entry waits for, the  *)
(* handlers ahead of a job in its batch.                                   *)
(***************************************************************************)
EXTENDS LeaseTiming, Scheduler, LoginThrottle, RateLimit, FiniteSetTheorems, TLAPS

\* Division with remainder.
LEMMA DivFacts ==
  ASSUME NEW a \in Nat, NEW n \in Nat \ {0}
  PROVE  /\ a \div n \in Nat /\ a % n \in 0..(n - 1)
         /\ a = n * (a \div n) + (a % n)
  OBVIOUS
-----------------------------------------------------------------------------
\* The rate limiter.  GrantBound forgets the level; Budget keeps it: what a bucket
\* has granted and still holds, less the reading it was last settled or dropped at,
\* never exceeds its capacity and what was rewound.  Dropping a bucket fills it, so the
\* proof needs why a dropped one was full: a swept one by its own level, an expired one
\* because its expiry is a refill later than the latest reading it can carry.

Buckets == [t : 0..(Full - 1), u : Nat, expires : Nat]

\* The readings in flight are at most Skew ahead of the clock.
ReadingsBounded ==
    \A r \in Requests : pending[r] # Idle => pending[r].at <= clock + Skew

\* A bucket that is there was settled at the reading it carries, and one in Redis
\* outlasts a refill from there.
Stamped ==
    \A k \in Keys : bucket[k] # Absent =>
        /\ bucket[k].u = seen[k]
        /\ mode.backend = "redis" => bucket[k].expires >= seen[k] + Full

\* The conserved quantity.
Budget ==
    \A k \in Keys : /\ seen[k] <= clock + Skew
                    /\ Period * granted[k] + bucket[k].t <= Full + seen[k] + rewound[k]

IInv == TypeOK /\ ReadingsBounded /\ Stamped /\ Budget
-----------------------------------------------------------------------------
\* The quota in units: a full bucket holds at least one token.
LEMMA QuotaFacts == /\ Period \in Nat \ {0} /\ Full \in Nat /\ Full >= Period
                    /\ Skew \in Nat /\ Skew <= Full
                    /\ Ttl \in Nat /\ Ttl >= 2 * Full
  <1>1. Capacity \in Nat \ {0} /\ Period \in Nat \ {0} /\ Second \in Nat /\ Skew \in Nat
    BY RateConstants
  <1>2. Full \in Nat /\ Full >= Period
    BY <1>1 DEF Full
  <1>3. Skew <= Full
    BY SkewWithinRefill
  <1>4. Ttl \in Nat /\ Ttl >= 2 * Full
    BY <1>1, <1>2 DEF Ttl, AtLeast
  <1> QED BY <1>1, <1>2, <1>3, <1>4

\* A grant costs a token.
LEMMA TokenCost == ASSUME NEW g \in Nat
                   PROVE  Period * g \in Nat /\ Period * (g + 1) = Period * g + Period
  BY QuotaFacts

\* The two kinds of bucket do not overlap.
LEMMA AbsentFacts == /\ Absent.t = Full /\ Absent \notin Buckets
                     /\ \A b \in Buckets : b.t \in Nat /\ b.t < Full /\ b.u \in Nat /\ b.expires \in Nat
  BY QuotaFacts DEF Absent, Buckets

\* What LevelAt answers: a missing bucket is full, a bucket that is there gains the
\* time since its own reading, if that is time, and no more than its capacity.
LEMMA LevelFacts ==
  ASSUME NEW b \in {Absent} \cup Buckets, NEW at \in Nat
  PROVE  /\ LevelAt(b, at) \in Nat /\ LevelAt(b, at) <= Full
         /\ b = Absent => LevelAt(b, at) = Full
         /\ b # Absent /\ at >= b.u => LevelAt(b, at) <= b.t + (at - b.u)
         /\ b # Absent /\ at < b.u => LevelAt(b, at) = b.t
  <1>1. CASE b = Absent
    BY <1>1, QuotaFacts, AbsentFacts DEF LevelAt, Refilled, AtMost, AtLeast
  <1>2. CASE b \in Buckets
    <2>1. b # Absent /\ b.t \in Nat /\ b.t < Full /\ b.u \in Nat
      BY <1>2, AbsentFacts
    <2> QED BY <2>1, QuotaFacts DEF LevelAt, Refilled, AtMost, AtLeast
  <1> QED BY <1>1, <1>2

\* Settling spends a token or nothing, and leaves less than a full bucket.
LEMMA SettleFacts ==
  ASSUME NEW t \in Nat, t <= Full
  PROVE  /\ Settle(t).left \in 0..(Full - 1) /\ Settle(t).allowed \in BOOLEAN
         /\ Settle(t).left = IF Settle(t).allowed THEN t - Period ELSE t
  BY QuotaFacts DEF Settle
-----------------------------------------------------------------------------
LEMMA InitInv == Init => IInv
  <1> SUFFICES ASSUME Init PROVE IInv
    OBVIOUS
  <1>1. TypeOK
    BY DEF Init, TypeOK
  <1>2. ReadingsBounded
    BY DEF Init, ReadingsBounded
  <1>3. Stamped
    BY DEF Init, Stamped
  <1>4. Budget
    BY QuotaFacts, AbsentFacts, RateConstants DEF Init, Budget
  <1> QED BY <1>1, <1>2, <1>3, <1>4 DEF IInv

\* The one place a level is written.  Whatever found the level t of k, and whatever
\* full buckets S were dropped first, Write keeps every budget.
LEMMA WriteKeeps ==
  ASSUME IInv, NEW k \in Keys, NEW at \in Nat, at <= clock + Skew,
         NEW S \in SUBSET Keys, \A q \in S : bucket[q] # Absent /\ LevelAt(bucket[q], at) >= Full,
         NEW s, s = Settle(LevelAt(bucket[k], at)),
         Write(k, at, S, s.left, s.allowed), clock' = clock, mode' = mode
  PROVE  /\ bucket' \in [Keys -> {Absent} \cup Buckets]
         /\ granted' \in [Keys -> Nat] /\ seen' \in [Keys -> Nat] /\ rewound' \in [Keys -> Nat]
         /\ Stamped' /\ Budget'
  <1> DEFINE level == LevelAt(bucket[k], at)
  <1>t. /\ bucket \in [Keys -> {Absent} \cup Buckets] /\ clock \in Nat /\ mode \in Modes
        /\ granted \in [Keys -> Nat] /\ seen \in [Keys -> Nat] /\ rewound \in [Keys -> Nat]
    BY DEF IInv, TypeOK, Buckets
  <1>l. level \in Nat /\ level <= Full
    BY <1>t, LevelFacts
  <1>s. s.left \in 0..(Full - 1) /\ s.allowed \in BOOLEAN
        /\ s.left = IF s.allowed THEN level - Period ELSE level
    BY <1>l, SettleFacts
  <1> DEFINE expires == IF mode.backend = "redis" THEN clock + Ttl ELSE 0
             new == [t |-> s.left, u |-> at, expires |-> expires]
  <1>e. expires \in Nat
    BY <1>t, QuotaFacts
  <1>n. new \in Buckets /\ new # Absent
    BY <1>s, <1>e, AbsentFacts DEF Buckets
  <1> HIDE DEF level, expires
  <1>b. bucket' = [q \in Keys |-> IF q = k THEN new ELSE IF q \in S THEN Absent ELSE bucket[q]]
    BY DEF Write, expires
  <1>g. granted' = [granted EXCEPT ![k] = IF s.allowed THEN @ + 1 ELSE @]
    BY DEF Write
  <1>r. rewound' = [rewound EXCEPT ![k] = @ + AtLeast(0, seen[k] - at)]
    BY DEF Write
  <1>d. seen' = [q \in Keys |-> IF q = k \/ q \in S THEN at ELSE seen[q]]
    BY DEF Write
  <1>1. bucket' \in [Keys -> {Absent} \cup Buckets]
    BY <1>b, <1>n, <1>t
  <1>2. granted' \in [Keys -> Nat]
    BY <1>g, <1>t, <1>s
  <1>3. seen' \in [Keys -> Nat]
    BY <1>d, <1>t
  <1>4. AtLeast(0, seen[k] - at) \in Nat /\ rewound' \in [Keys -> Nat]
    BY <1>r, <1>t DEF AtLeast
  <1>5. Stamped'
    <2> SUFFICES ASSUME NEW q \in Keys, bucket'[q] # Absent
                 PROVE  /\ bucket'[q].u = seen'[q]
                        /\ mode.backend = "redis" => bucket'[q].expires >= seen'[q] + Full
      BY DEF Stamped
    <2>1. CASE q = k
      <3>1. bucket'[q] = new /\ seen'[q] = at
        BY <2>1, <1>b, <1>d
      <3>2. mode.backend = "redis" => expires >= at + Full
        BY <1>t, QuotaFacts DEF expires
      <3> QED BY <3>1, <3>2
    <2>2. CASE q # k
      <3>1. q \notin S /\ bucket'[q] = bucket[q] /\ seen'[q] = seen[q]
        BY <2>2, <1>b, <1>d
      <3> QED BY <3>1 DEF IInv, Stamped
    <2> QED BY <2>1, <2>2
  <1>6. Budget'
    <2> SUFFICES ASSUME NEW q \in Keys
                 PROVE  /\ seen'[q] <= clock + Skew
                        /\ Period * granted'[q] + bucket'[q].t <= Full + seen'[q] + rewound'[q]
      BY DEF Budget
    <2>0. /\ seen[q] <= clock + Skew
          /\ Period * granted[q] + bucket[q].t <= Full + seen[q] + rewound[q]
          /\ bucket[q] # Absent => bucket[q].u = seen[q]
      BY DEF IInv, Budget, Stamped
    <2>t. /\ granted[q] \in Nat /\ Period * granted[q] \in Nat
          /\ Period * (granted[q] + 1) = Period * granted[q] + Period
          /\ seen[q] \in Nat /\ rewound[q] \in Nat /\ bucket[q].t \in Nat
          /\ Full \in Nat /\ Period \in Nat
      <3>1. granted[q] \in Nat /\ seen[q] \in Nat /\ rewound[q] \in Nat
        BY <1>t
      <3>2. bucket[q].t \in Nat
        BY <1>t, AbsentFacts, QuotaFacts
      <3> QED BY <3>1, <3>2, TokenCost, QuotaFacts
    <2>1. CASE q = k
      <3>1. bucket'[q].t = s.left /\ seen'[q] = at
            /\ rewound'[q] = rewound[q] + AtLeast(0, seen[q] - at)
            /\ granted'[q] = IF s.allowed THEN granted[q] + 1 ELSE granted[q]
        BY <2>1, <1>b, <1>d, <1>r, <1>g, <1>t
      <3>2. Period * granted'[q] + s.left = Period * granted[q] + level
        BY <3>1, <2>t, <1>s, <1>l
      <3>3. level - at <= bucket[q].t - seen[q] + AtLeast(0, seen[q] - at)
        <4>1. CASE bucket[q] = Absent
          <5>1. level = Full /\ bucket[q].t = Full
            BY <4>1, <2>1, <1>t, LevelFacts, AbsentFacts DEF level
          <5> QED BY <5>1, <2>t DEF AtLeast
        <4>2. CASE bucket[q] # Absent
          <5>1. bucket[q].u = seen[q]
            BY <4>2, <2>0
          <5>2. /\ at >= seen[q] => level <= bucket[q].t + (at - seen[q])
                /\ at < seen[q] => level = bucket[q].t
            BY <4>2, <5>1, <2>1, <1>t, LevelFacts DEF level
          <5> QED BY <5>2, <2>t, <1>l DEF AtLeast
        <4> QED BY <4>1, <4>2
      <3>4. AtLeast(0, seen[q] - at) \in Nat
        BY <1>4, <2>1
      <3> QED BY <3>1, <3>2, <3>3, <3>4, <2>0, <2>t, <1>l, <1>s
    <2>2. CASE q # k /\ q \in S
      <3>1. bucket'[q].t = Full /\ seen'[q] = at /\ rewound'[q] = rewound[q] /\ granted'[q] = granted[q]
        BY <2>2, <1>b, <1>d, <1>r, <1>g, <1>t, AbsentFacts
      <3>2. bucket[q] \in Buckets /\ bucket[q] # Absent /\ LevelAt(bucket[q], at) >= Full
        BY <2>2, <1>t
      <3>3. bucket[q].t < Full /\ bucket[q].u = seen[q]
        BY <3>2, <2>0, AbsentFacts
      <3>4. /\ LevelAt(bucket[q], at) \in Nat
            /\ at >= seen[q] => LevelAt(bucket[q], at) <= bucket[q].t + (at - seen[q])
            /\ at < seen[q] => LevelAt(bucket[q], at) = bucket[q].t
        BY <3>2, <3>3, LevelFacts
      <3>5. Full - at <= bucket[q].t - seen[q]
        BY <3>2, <3>3, <3>4, <2>t
      <3> QED BY <3>1, <3>5, <2>0, <2>t
    <2>3. CASE q # k /\ q \notin S
      <3>1. bucket'[q] = bucket[q] /\ seen'[q] = seen[q] /\ rewound'[q] = rewound[q]
            /\ granted'[q] = granted[q]
        BY <2>3, <1>b, <1>d, <1>r, <1>g, <1>t
      <3> QED BY <3>1, <2>0
    <2> QED BY <2>1, <2>2, <2>3
  <1> QED BY <1>1, <1>2, <1>3, <1>4, <1>5, <1>6
-----------------------------------------------------------------------------
\* A request that is let go of leaves the readings of the others as they are.
LEMMA ReleaseKeeps ==
  ASSUME TypeOK, ReadingsBounded, NEW r \in Requests,
         pending' = [pending EXCEPT ![r] = Idle], clock' = clock
  PROVE  pending' \in [Requests -> {Idle} \cup [at : Nat, key : Keys]] /\ ReadingsBounded'
  BY DEF TypeOK, ReadingsBounded

\* The key and the reading of a request that has them.
LEMMA PendingFacts ==
  ASSUME TypeOK, ReadingsBounded, NEW r \in Requests, pending[r] # Idle
  PROVE  pending[r].key \in Keys /\ pending[r].at \in Nat /\ pending[r].at <= clock + Skew
  BY DEF TypeOK, ReadingsBounded

\* A request that settled its bucket: what both checks and a lost reply share.
LEMMA SettledKeeps ==
  ASSUME IInv, NEW r \in Requests, pending[r] # Idle,
         NEW S \in SUBSET Keys,
         \A q \in S : bucket[q] # Absent /\ LevelAt(bucket[q], pending[r].at) >= Full,
         NEW s, s = Settle(LevelAt(bucket[pending[r].key], pending[r].at)),
         Write(pending[r].key, pending[r].at, S, s.left, s.allowed),
         pending' = [pending EXCEPT ![r] = Idle], mode' = mode, clock' = clock
  PROVE  IInv'
  <1>1. pending[r].key \in Keys /\ pending[r].at \in Nat /\ pending[r].at <= clock + Skew
    BY PendingFacts DEF IInv
  <1>2. /\ bucket' \in [Keys -> {Absent} \cup Buckets]
        /\ granted' \in [Keys -> Nat] /\ seen' \in [Keys -> Nat] /\ rewound' \in [Keys -> Nat]
        /\ Stamped' /\ Budget'
    BY <1>1, WriteKeeps
  <1>3. pending' \in [Requests -> {Idle} \cup [at : Nat, key : Keys]] /\ ReadingsBounded'
    BY ReleaseKeeps DEF IInv
  <1>4. mode' \in Modes /\ clock' \in Nat
    BY DEF IInv, TypeOK
  <1> QED BY <1>2, <1>3, <1>4 DEF IInv, TypeOK, Buckets

LEMMA StepInv == IInv /\ [Next]_vars => IInv'
  <1> SUFFICES ASSUME IInv, [Next]_vars PROVE IInv'
    OBVIOUS
  <1>t. TypeOK /\ ReadingsBounded /\ Stamped /\ Budget
    BY DEF IInv
  <1>1. CASE \E r \in Requests, k \in Keys : \E at \in 0..(clock + Skew) : Arrive(r, k, at)
    <2> PICK r \in Requests, k \in Keys, at \in 0..(clock + Skew) : Arrive(r, k, at)
      BY <1>1
    <2>0. /\ pending' = [pending EXCEPT ![r] = [at |-> at, key |-> k]]
          /\ UNCHANGED <<mode, clock, bucket, answer, granted, seen, rewound>>
      BY DEF Arrive
    <2>1. at \in Nat /\ at <= clock + Skew
      BY <1>t, QuotaFacts DEF TypeOK
    <2>2. TypeOK'
      BY <1>t, <2>0, <2>1 DEF TypeOK
    <2>3. ReadingsBounded'
      BY <1>t, <2>0, <2>1 DEF TypeOK, ReadingsBounded
    <2>4. Stamped' /\ Budget'
      BY <1>t, <2>0 DEF Stamped, Budget
    <2> QED BY <2>2, <2>3, <2>4 DEF IInv
  <1>2. CASE \E r \in Requests : MemoryCheck(r)
    <2> PICK r \in Requests : MemoryCheck(r)
      BY <1>2
    <2> DEFINE k == pending[r].key
               at == pending[r].at
               S == Swept(at)
               s == Settle(LevelAt(bucket[k], at))
    <2>0. /\ pending[r] # Idle /\ mode' = mode /\ clock' = clock
          /\ pending' = [pending EXCEPT ![r] = Idle]
      BY DEF MemoryCheck
    <2>1. S \in SUBSET Keys /\ \A q \in S : bucket[q] # Absent /\ LevelAt(bucket[q], at) >= Full
      BY DEF Swept, Present
    <2>2. k \in Keys /\ at \in Nat /\ bucket[k] \in {Absent} \cup Buckets
      BY <2>0, <1>t, PendingFacts DEF TypeOK, Buckets
    <2>3. (IF k \in S THEN Full ELSE LevelAt(bucket[k], at)) = LevelAt(bucket[k], at)
      BY <2>1, <2>2, LevelFacts, QuotaFacts
    <2>4. Write(k, at, S, s.left, s.allowed)
      BY <2>3 DEF MemoryCheck
    <2> HIDE DEF S
    <2> QED BY <2>0, <2>1, <2>4, SettledKeeps
  <1>3. CASE \E r \in Requests : RedisCheck(r) \/ RedisReplyLost(r)
    <2> PICK r \in Requests : RedisCheck(r) \/ RedisReplyLost(r)
      BY <1>3
    <2> DEFINE s == Settle(LevelAt(bucket[pending[r].key], pending[r].at))
    <2>0. /\ pending[r] # Idle /\ mode' = mode /\ clock' = clock
          /\ pending' = [pending EXCEPT ![r] = Idle]
          /\ Write(pending[r].key, pending[r].at, {}, s.left, s.allowed)
      BY DEF RedisCheck, RedisReplyLost
    <2> QED BY <2>0, SettledKeeps
  <1>4. CASE \E r \in Requests : RedisDown(r)
    <2> PICK r \in Requests : RedisDown(r)
      BY <1>4
    <2>0. /\ pending' = [pending EXCEPT ![r] = Idle]
          /\ UNCHANGED <<mode, clock, bucket, granted, seen, rewound>>
      BY DEF RedisDown
    <2>1. pending' \in [Requests -> {Idle} \cup [at : Nat, key : Keys]] /\ ReadingsBounded'
      BY <1>t, <2>0, ReleaseKeeps
    <2>2. TypeOK'
      BY <1>t, <2>0, <2>1 DEF TypeOK
    <2>3. Stamped' /\ Budget'
      BY <1>t, <2>0 DEF Stamped, Budget
    <2> QED BY <2>1, <2>2, <2>3 DEF IInv
  <1>5. CASE \E k \in Keys : Expire(k)
    <2> PICK k \in Keys : Expire(k)
      BY <1>5
    <2>0. /\ mode.backend = "redis" /\ bucket[k] # Absent /\ clock >= bucket[k].expires
          /\ bucket' = [bucket EXCEPT ![k] = Absent] /\ seen' = [seen EXCEPT ![k] = clock]
          /\ UNCHANGED <<mode, clock, pending, granted, rewound>>
      BY DEF Expire
    <2>1. TypeOK'
      BY <1>t, <2>0 DEF TypeOK
    <2>2. ReadingsBounded' /\ Stamped'
      BY <1>t, <2>0 DEF TypeOK, ReadingsBounded, Stamped
    <2>3. Budget'
      <3> SUFFICES ASSUME NEW q \in Keys
                   PROVE  /\ seen'[q] <= clock + Skew
                          /\ Period * granted[q] + bucket'[q].t <= Full + seen'[q] + rewound[q]
        BY <2>0 DEF Budget
      <3>0. /\ seen[q] <= clock + Skew
            /\ Period * granted[q] + bucket[q].t <= Full + seen[q] + rewound[q]
        BY <1>t DEF Budget
      <3>1. CASE q # k
        BY <3>0, <3>1, <2>0, <1>t DEF TypeOK
      <3>2. CASE q = k
        <4>1. bucket'[q].t = Full /\ seen'[q] = clock
          BY <3>2, <2>0, <1>t, AbsentFacts DEF TypeOK
        <4>2. bucket[q].expires >= seen[q] + Full
          BY <3>2, <2>0, <1>t DEF Stamped
        <4>3. /\ bucket[q].t \in Nat /\ bucket[q].expires \in Nat /\ seen[q] \in Nat
              /\ rewound[q] \in Nat /\ Period * granted[q] \in Nat /\ clock \in Nat
              /\ Full \in Nat /\ Skew \in Nat
          BY <3>2, <2>0, <1>t, AbsentFacts, TokenCost, QuotaFacts DEF TypeOK, Buckets
        <4> QED BY <4>1, <4>2, <4>3, <3>0, <3>2, <2>0
      <3> QED BY <3>1, <3>2
    <2> QED BY <2>1, <2>2, <2>3 DEF IInv
  <1>6. CASE Tick
    <2>0. clock' = clock + 1 /\ UNCHANGED <<mode, pending, bucket, granted, seen, rewound>>
      BY <1>6 DEF Tick
    <2>1. TypeOK'
      BY <1>t, <2>0 DEF TypeOK
    <2>2. ReadingsBounded'
      BY <1>t, <2>0, PendingFacts, QuotaFacts DEF TypeOK, ReadingsBounded
    <2>3. Stamped'
      BY <1>t, <2>0 DEF Stamped
    <2>4. Budget'
      BY <1>t, <2>0, QuotaFacts DEF TypeOK, Budget
    <2> QED BY <2>1, <2>2, <2>3, <2>4 DEF IInv
  <1>7. CASE UNCHANGED vars
    BY <1>t, <1>7 DEF IInv, TypeOK, ReadingsBounded, Stamped, Budget, vars
  <1> QED BY <1>1, <1>2, <1>3, <1>4, <1>5, <1>6, <1>7 DEF Next

LEMMA InvImpliesBound == IInv => GrantBound
  <1> SUFFICES ASSUME IInv, NEW k \in Keys
               PROVE  Period * granted[k] <= Full + clock + Skew + rewound[k]
    BY DEF GrantBound
  <1>1. /\ granted[k] \in Nat /\ seen[k] \in Nat /\ rewound[k] \in Nat /\ clock \in Nat
        /\ bucket[k] \in {Absent} \cup Buckets
    BY DEF IInv, TypeOK, Buckets
  <1>2. bucket[k].t \in Nat
    BY <1>1, AbsentFacts, QuotaFacts
  <1>3. seen[k] <= clock + Skew
        /\ Period * granted[k] + bucket[k].t <= Full + seen[k] + rewound[k]
    BY DEF IInv, Budget
  <1>4. Period * granted[k] \in Nat /\ Full \in Nat /\ Skew \in Nat
    BY <1>1, TokenCost, QuotaFacts
  <1> QED BY <1>1, <1>2, <1>3, <1>4

\* Over either backend, whatever it forgets and however readings arrive: a key is
\* granted at most its burst, what the time has refilled and what rewound readings
\* were worth.  For every quota and every skew up to a refill.
THEOREM GrantBoundCorrect == Spec => []GrantBound
  <1>1. Spec => []IInv
    BY InitInv, StepInv, PTL DEF Spec
  <1> QED BY <1>1, InvImpliesBound, PTL

\* Type correctness of the layer and its table.
THEOREM RateTypeCorrect == Spec => []TypeOK
  <1>1. IInv => TypeOK
    BY DEF IInv
  <1> QED BY <1>1, InitInv, StepInv, PTL DEF Spec
-----------------------------------------------------------------------------
\* With exact clocks a reading is of this tick, and no bucket is ahead of the clock.
ExactInv ==
    mode.exact => /\ \A r \in Requests : pending[r] # Idle => pending[r].at = clock
                  /\ \A k \in Keys : bucket[k] # Absent => bucket[k].u <= clock

\* The levels a client of exact clocks sees: the refinement mapping.
Levels == [k \in Keys |-> IF mode.exact THEN LevelAt(bucket[k], clock) ELSE Full]
Answered == IF mode.exact THEN answer ELSE NoAnswer

\* Arithmetic of a wait: n units, rounded up to seconds.
LEMMA CeilFacts ==
  ASSUME NEW n \in Nat \ {0}, n <= Period
  PROVE  LET w == (n + Second - 1) \div Second
         IN  w \in 1..Period /\ w * Second >= n /\ (w - 1) * Second < n
  <1>c. Second \in Nat \ {0} /\ Period \in Nat \ {0}
    BY RateConstants
  <1> DEFINE m == n + Second - 1
             w == m \div Second
             r == m % Second
  <1>1. m \in Nat
    BY <1>c
  <1>2. w \in Nat /\ r \in 0..(Second - 1) /\ m = Second * w + r
    BY <1>c, <1>1, DivFacts
  <1>3. m = n + Second - 1
    OBVIOUS
  <1>4. (n + Second - 1) \div Second = w
    OBVIOUS
  <1> HIDE DEF m, w, r
  <1>5. Second * w = w * Second /\ (w - 1) * Second = w * Second - Second /\ w * Second \in Nat
    BY <1>c, <1>2
  <1>6. w * Second >= n /\ (w - 1) * Second < n
    BY <1>2, <1>3, <1>5, <1>c
  <1>7. w # 0
    BY <1>6, <1>2, <1>c
  <1>8. w - 1 < n
    <2>1. w - 1 \in Nat
      BY <1>2, <1>7
    <2>2. (w - 1) * Second >= w - 1
      BY <2>1, <1>c
    <2>3. (w - 1) * Second \in Nat
      BY <2>1, <1>c
    <2> QED BY <2>1, <2>2, <2>3, <1>6
  <1>9. w \in 1..Period
    BY <1>2, <1>7, <1>8, <1>c
  <1> QED BY <1>4, <1>6, <1>9

\* A refusal's wait, told from a level t the reply rounds down to: it suffices, and is
\* padded by no more than a second and the rounding.
LEMMA WaitFacts ==
  ASSUME NEW left \in Nat, left < Period, NEW t \in 0..left, left < t + Grain
  PROVE  /\ RetryAfter(t) \in 1..Period
         /\ left + RetryAfter(t) * Second >= Period
         /\ left + (RetryAfter(t) - 1) * Second < Period + Grain
  <1>c. Second \in Nat \ {0} /\ Period \in Nat \ {0} /\ Grain \in Nat \ {0}
    BY RateConstants
  <1> DEFINE n == Period - t
             w == (n + Second - 1) \div Second
  <1>1. n \in Nat \ {0} /\ n <= Period
    BY <1>c
  <1>2. w \in 1..Period /\ w * Second >= n /\ (w - 1) * Second < n
    BY <1>1, CeilFacts
  <1>3. RetryAfter(t) = w
    BY <1>2 DEF RetryAfter, AtLeast
  <1>4. n = Period - t
    OBVIOUS
  <1> HIDE DEF w, n
  <1>5. w * Second \in Int /\ (w - 1) * Second \in Int
    BY <1>2, <1>c
  <1> QED BY <1>2, <1>3, <1>4, <1>5, <1>c

LEMMA ExactInitInv == Init => ExactInv
  BY DEF Init, ExactInv

LEMMA ExactStepInv == IInv /\ ExactInv /\ [Next]_vars => ExactInv'
  <1> SUFFICES ASSUME IInv, ExactInv, [Next]_vars PROVE ExactInv'
    OBVIOUS
  <1>t. TypeOK
    BY DEF IInv
  <1>1. CASE \E r \in Requests, k \in Keys : \E at \in 0..(clock + Skew) : Arrive(r, k, at)
    BY <1>1, <1>t DEF Arrive, ExactInv, TypeOK
  <1>2. ASSUME NEW r \in Requests, NEW k \in Keys, NEW at \in Nat, NEW S \in SUBSET Keys, NEW left,
               NEW allowed, pending[r] # Idle, at = pending[r].at, Write(k, at, S, left, allowed),
               pending' = [pending EXCEPT ![r] = Idle], clock' = clock, mode' = mode
        PROVE  ExactInv'
    <2>1. \A q \in Requests : pending'[q] # Idle => pending'[q] = pending[q]
      BY <1>2, <1>t DEF TypeOK
    <2>2. \A q \in Keys : \/ bucket'[q].u = at
                          \/ bucket'[q] = Absent
                          \/ bucket'[q] = bucket[q]
      BY <1>2 DEF Write
    <2>3. mode.exact => at = clock
      BY <1>2 DEF ExactInv
    <2> QED BY <1>2, <1>t, <2>1, <2>2, <2>3 DEF ExactInv, TypeOK
  <1>3. CASE \E r \in Requests : MemoryCheck(r) \/ RedisCheck(r) \/ RedisReplyLost(r)
    <2>1. PICK r \in Requests : MemoryCheck(r) \/ RedisCheck(r) \/ RedisReplyLost(r)
      BY <1>3
    <2>2. pending[r] # Idle /\ pending' = [pending EXCEPT ![r] = Idle] /\ clock' = clock /\ mode' = mode
      BY <2>1 DEF MemoryCheck, RedisCheck, RedisReplyLost
    <2>3. pending[r].key \in Keys /\ pending[r].at \in Nat
      BY <2>2, PendingFacts DEF IInv
    <2>4. \E S \in SUBSET Keys : \E left, allowed : Write(pending[r].key, pending[r].at, S, left, allowed)
      <3>1. Swept(pending[r].at) \in SUBSET Keys
        BY DEF Swept, Present
      <3>2. CASE MemoryCheck(r)
        BY <3>1, <3>2 DEF MemoryCheck
      <3>3. CASE RedisCheck(r) \/ RedisReplyLost(r)
        BY <3>3 DEF RedisCheck, RedisReplyLost
      <3> QED BY <2>1, <3>2, <3>3
    <2> QED BY <2>2, <2>3, <2>4, <1>2
  <1>4. CASE \E r \in Requests : RedisDown(r)
    BY <1>4, <1>t DEF RedisDown, ExactInv, TypeOK
  <1>5. CASE \E k \in Keys : Expire(k)
    BY <1>5, <1>t DEF Expire, ExactInv, TypeOK
  <1>6. CASE Tick
    BY <1>6, <1>t DEF Tick, ExactInv, TypeOK, Buckets
  <1>7. CASE UNCHANGED vars
    BY <1>7 DEF vars, ExactInv
  <1> QED BY <1>1, <1>3, <1>4, <1>5, <1>6, <1>7 DEF Next

\* What a settled bucket looks like to a client: one level moves, and neither the sweep
\* nor the reading stored can be told.
LEMMA SettledMaps ==
  ASSUME IInv, ExactInv, mode.exact, NEW k \in Keys, NEW S \in SUBSET Keys,
         \A q \in S : bucket[q] # Absent /\ LevelAt(bucket[q], clock) >= Full,
         NEW s, s = Settle(LevelAt(bucket[k], clock)),
         Write(k, clock, S, s.left, s.allowed), clock' = clock, mode' = mode
  PROVE  /\ Levels' = [Levels EXCEPT ![k] = s.left]
         /\ Levels[k] = LevelAt(bucket[k], clock) /\ Levels[k] \in Nat /\ Levels[k] <= Full
         /\ s.left \in Nat /\ s.allowed \in BOOLEAN
         /\ s.allowed => Levels[k] >= Period /\ s.left = Levels[k] - Period
         /\ ~s.allowed => Levels[k] < Period /\ s.left = Levels[k]
  <1>t. bucket \in [Keys -> {Absent} \cup Buckets] /\ clock \in Nat
    BY DEF IInv, TypeOK, Buckets
  <1>1. /\ Levels[k] = LevelAt(bucket[k], clock) /\ Levels[k] \in Nat /\ Levels[k] <= Full
    BY <1>t, LevelFacts DEF Levels
  <1>2. /\ s.left \in 0..(Full - 1) /\ s.allowed \in BOOLEAN
        /\ s.allowed => Levels[k] >= Period /\ s.left = Levels[k] - Period
        /\ ~s.allowed => Levels[k] < Period /\ s.left = Levels[k]
    BY <1>1, SettleFacts, QuotaFacts DEF Settle
  <1>3. ASSUME NEW q \in Keys
        PROVE  LevelAt(bucket'[q], clock) = IF q = k THEN s.left ELSE LevelAt(bucket[q], clock)
    <2>1. CASE q = k
      <3>1. bucket'[q].t = s.left /\ bucket'[q].u = clock
        BY <2>1 DEF Write
      <3>2. LevelAt(bucket'[q], clock) = AtMost(Full, s.left + 0)
        BY <3>1, <1>t DEF LevelAt, Refilled, AtLeast
      <3> QED BY <3>2, <2>1, <1>2, QuotaFacts DEF AtMost
    <2>2. CASE q # k /\ q \in S
      <3>1. bucket'[q] = Absent
        BY <2>2 DEF Write
      <3>2. LevelAt(bucket'[q], clock) = Full
        BY <3>1, <1>t, LevelFacts
      <3>3. LevelAt(bucket[q], clock) >= Full /\ LevelAt(bucket[q], clock) <= Full
            /\ LevelAt(bucket[q], clock) \in Nat
        BY <2>2, <1>t, LevelFacts
      <3> QED BY <2>2, <3>2, <3>3, QuotaFacts
    <2>3. CASE q # k /\ q \notin S
      BY <2>3 DEF Write
    <2> QED BY <2>1, <2>2, <2>3
  <1>4. Levels' = [Levels EXCEPT ![k] = s.left]
    BY <1>3 DEF Levels
  <1> QED BY <1>1, <1>2, <1>4, QuotaFacts

\* A bucket's level is a number.
LEMMA LevelsType ==
  ASSUME IInv
  PROVE  Levels \in [Keys -> Nat]
  <1>1. \A k \in Keys : LevelAt(bucket[k], clock) \in Nat
    BY LevelFacts DEF IInv, TypeOK, Buckets
  <1> QED BY <1>1, QuotaFacts DEF Levels

LEMMA BucketInit == Init => Bucket!Init
  <1> SUFFICES ASSUME Init PROVE Bucket!Init
    OBVIOUS
  <1>1. ASSUME NEW k \in Keys PROVE LevelAt(bucket[k], clock) = Full
    BY LevelFacts DEF Init
  <1> QED BY <1>1 DEF Init, Bucket!Init, Full, Bucket!Full, NoAnswer, Bucket!NoAnswer

\* The step of the bucket that an exact step of the layer takes.
LEMMA BucketStep == IInv /\ ExactInv /\ [Next]_vars => [Bucket!Next]_<<Levels, Answered>>
  <1> SUFFICES ASSUME IInv, ExactInv, [Next]_vars
               PROVE  Bucket!Next \/ (Levels' = Levels /\ Answered' = Answered)
    OBVIOUS
  <1>t. /\ bucket \in [Keys -> {Absent} \cup Buckets] /\ clock \in Nat /\ TypeOK
    BY DEF IInv, TypeOK, Buckets
  <1>m. mode' = mode
    BY DEF Next, vars, Arrive, MemoryCheck, RedisCheck, RedisDown, RedisReplyLost, Expire, Tick
  <1>x. CASE ~mode.exact
    BY <1>x, <1>m DEF Levels, Answered
  <1>e. CASE mode.exact
    <2>a. Answered = answer /\ Answered' = answer'
      BY <1>e, <1>m DEF Answered
    <2>l. Levels \in [Keys -> Nat]
      BY LevelsType
    <2>0. CASE bucket' = bucket /\ clock' = clock /\ answer' = answer
      BY <2>0, <2>a, <1>m DEF Levels
    <2>1. ASSUME NEW r \in Requests, pending[r] # Idle
          PROVE  pending[r].key \in Keys /\ pending[r].at = clock
      BY <2>1, <1>e, PendingFacts DEF IInv, ExactInv
    <2>2. ASSUME NEW k \in Keys, NEW left \in Nat, NEW t \in 0..left, left < t + Grain, NEW ok \in BOOLEAN,
                 Levels' = [Levels EXCEPT ![k] = left], Decide(k, t, ok),
                 ok => Levels[k] >= Period /\ left = Levels[k] - Period,
                 ~ok => Levels[k] < Period /\ left = Levels[k]
          PROVE  Bucket!Next
      <3>1. CASE ok
        <4>1. Bucket!Admit(k)
          BY <2>2, <2>a, <3>1, <1>e, <1>m DEF Bucket!Admit, Decide, Levels
        <4> QED BY <4>1 DEF Bucket!Next
      <3>2. CASE ~ok
        <4>1. /\ RetryAfter(t) \in 1..Period
              /\ left + RetryAfter(t) * Second >= Period
              /\ left + (RetryAfter(t) - 1) * Second < Period + Grain
          BY <2>2, <3>2, WaitFacts
        <4>2. Levels' = Levels
          BY <2>2, <2>l, <3>2
        <4>3. Bucket!Refuse(k, RetryAfter(t))
          BY <2>2, <2>a, <3>2, <4>1, <4>2, <1>e, <1>m DEF Bucket!Refuse, Decide, Levels
        <4> QED BY <4>1, <4>3 DEF Bucket!Next
      <3> QED BY <3>1, <3>2, <2>2
    <2>3. ASSUME NEW k \in Keys, Undecided(k), Levels' \in {Levels, [Levels EXCEPT ![k] = @ - Period]},
                 Levels'[k] >= 0
          PROVE  Bucket!Next
      <3>1. \E outcome \in {"unavailable", "unmetered"} : answer' = [kind |-> outcome, key |-> k]
        BY <2>3 DEF Undecided
      <3>2. \E outcome \in {"unavailable", "unmetered"} : Bucket!Unknown(k, outcome)
        BY <3>1, <2>3, <2>a, <1>e, <1>m DEF Bucket!Unknown, Levels
      <3> QED BY <3>2 DEF Bucket!Next
    <2>4. CASE \E r \in Requests, k \in Keys : \E at \in 0..(clock + Skew) : Arrive(r, k, at)
      BY <2>4, <2>0 DEF Arrive
    <2>5. CASE \E r \in Requests : MemoryCheck(r)
      <3>1. PICK r \in Requests : MemoryCheck(r)
        BY <2>5
      <3>2. pending[r] # Idle /\ clock' = clock
        BY <3>1 DEF MemoryCheck
      <3>3. PICK k \in Keys : k = pending[r].key
        BY <3>2, <2>1
      <3>4. pending[r].at = clock
        BY <3>2, <2>1
      <3> DEFINE S == Swept(clock)
                 s == Settle(LevelAt(bucket[k], clock))
      <3>5. S \in SUBSET Keys /\ \A q \in S : bucket[q] # Absent /\ LevelAt(bucket[q], clock) >= Full
        BY DEF Swept, Present
      <3>6. (IF k \in S THEN Full ELSE LevelAt(bucket[k], clock)) = LevelAt(bucket[k], clock)
        BY <3>5, <1>t, LevelFacts, QuotaFacts
      <3>7. Write(k, clock, S, s.left, s.allowed) /\ Decide(k, s.left, s.allowed)
        BY <3>1, <3>3, <3>4, <3>6 DEF MemoryCheck
      <3> HIDE DEF S
      <3>8. PICK z : z = s
        OBVIOUS
      <3>9. /\ Levels' = [Levels EXCEPT ![k] = z.left] /\ z.left \in Nat /\ z.allowed \in BOOLEAN
            /\ z.allowed => Levels[k] >= Period /\ z.left = Levels[k] - Period
            /\ ~z.allowed => Levels[k] < Period /\ z.left = Levels[k]
        <4>1. PICK T \in SUBSET Keys : T = S
          BY <3>5
        <4>2. z = Settle(LevelAt(bucket[k], clock)) /\ Write(k, clock, T, z.left, z.allowed)
          BY <4>1, <3>7, <3>8
        <4>3. \A q \in T : bucket[q] # Absent /\ LevelAt(bucket[q], clock) >= Full
          BY <4>1, <3>5
        <4> HIDE DEF s
        <4> QED BY <4>2, <4>3, <3>2, <1>e, <1>m, SettledMaps
      <3>10. z.left \in 0..z.left /\ z.left < z.left + Grain /\ Decide(k, z.left, z.allowed)
        BY <3>7, <3>8, <3>9, RateConstants
      <3> QED BY <3>9, <3>10, <2>2
    <2>6. CASE \E r \in Requests : RedisCheck(r) \/ RedisReplyLost(r)
      <3>1. PICK r \in Requests : RedisCheck(r) \/ RedisReplyLost(r)
        BY <2>6
      <3>2. pending[r] # Idle /\ clock' = clock
        BY <3>1 DEF RedisCheck, RedisReplyLost
      <3>3. PICK k \in Keys : k = pending[r].key
        BY <3>2, <2>1
      <3>4. pending[r].at = clock
        BY <3>2, <2>1
      <3> DEFINE s == Settle(LevelAt(bucket[k], clock))
      <3>5. /\ Write(k, clock, {}, s.left, s.allowed)
            /\ Decide(k, s.left - (s.left % Grain), s.allowed) \/ Undecided(k)
        BY <3>1, <3>3, <3>4 DEF RedisCheck, RedisReplyLost
      <3>6. PICK z : z = s
        OBVIOUS
      <3>7. /\ Levels' = [Levels EXCEPT ![k] = z.left] /\ z.left \in Nat /\ z.allowed \in BOOLEAN
            /\ z.allowed => Levels[k] >= Period /\ z.left = Levels[k] - Period
            /\ ~z.allowed => Levels[k] < Period /\ z.left = Levels[k]
        <4>1. z = Settle(LevelAt(bucket[k], clock)) /\ Write(k, clock, {}, z.left, z.allowed)
          BY <3>5, <3>6
        <4> HIDE DEF s
        <4> QED BY <4>1, <3>2, <1>e, <1>m, SettledMaps
      <3>8. CASE Decide(k, z.left - (z.left % Grain), z.allowed)
        <4> DEFINE t == z.left - (z.left % Grain)
        <4>1. z.left % Grain \in 0..(Grain - 1) /\ z.left % Grain <= z.left /\ Grain \in Nat \ {0}
          <5>1. Grain \in Nat \ {0}
            BY RateConstants
          <5>2. z.left \div Grain \in Nat /\ z.left % Grain \in 0..(Grain - 1)
                /\ z.left = Grain * (z.left \div Grain) + (z.left % Grain)
            BY <5>1, <3>7, DivFacts
          <5>3. Grain * (z.left \div Grain) \in Nat
            BY <5>1, <5>2
          <5> QED BY <5>1, <5>2, <5>3, <3>7
        <4>2. t \in 0..z.left /\ z.left < t + Grain
          BY <4>1, <3>7
        <4> HIDE DEF t
        <4>3. Decide(k, t, z.allowed)
          BY <3>8 DEF t
        <4> QED BY <4>2, <4>3, <3>7, <2>2
      <3>9. CASE Undecided(k)
        <4>1. Levels' \in {Levels, [Levels EXCEPT ![k] = @ - Period]} /\ Levels'[k] >= 0
          <5> HIDE DEF s
          <5>1. Levels'[k] >= 0
            BY <3>7, <2>l
          <5>2. CASE z.allowed
            BY <5>1, <5>2, <3>7
          <5>3. CASE ~z.allowed
            <6>1. Levels' = Levels
              BY <5>3, <3>7, <2>l
            <6> QED BY <5>1, <6>1
          <5> QED BY <5>2, <5>3
        <4> QED BY <4>1, <3>9, <2>3
      <3> QED BY <3>5, <3>6, <3>8, <3>9
    <2>7. CASE \E r \in Requests : RedisDown(r)
      <3>1. PICK r \in Requests : RedisDown(r)
        BY <2>7
      <3>2. pending[r] # Idle /\ clock' = clock /\ bucket' = bucket
        BY <3>1 DEF RedisDown
      <3>3. PICK k \in Keys : k = pending[r].key
        BY <3>2, <2>1
      <3>4. Undecided(k)
        BY <3>1, <3>3 DEF RedisDown
      <3>5. Levels' = Levels
        BY <3>2, <1>m DEF Levels
      <3>6. Levels'[k] >= 0
        BY <3>5, <2>l
      <3> QED BY <3>4, <3>5, <3>6, <2>3
    <2>8. CASE \E k \in Keys : Expire(k)
      <3>1. PICK k \in Keys : Expire(k)
        BY <2>8
      <3>2. /\ mode.backend = "redis" /\ bucket[k] # Absent /\ clock >= bucket[k].expires
            /\ bucket' = [bucket EXCEPT ![k] = Absent] /\ clock' = clock /\ answer' = answer
        BY <3>1 DEF Expire
      <3>3. bucket[k].expires >= seen[k] + Full /\ bucket[k].u = seen[k] /\ bucket[k] \in Buckets
        BY <3>2, <1>t DEF IInv, Stamped
      <3>4. bucket[k].t \in Nat /\ bucket[k].u \in Nat /\ bucket[k].expires \in Nat
        BY <3>3, AbsentFacts
      <3>5. LevelAt(bucket[k], clock) = Full
        BY <3>2, <3>3, <3>4, <1>t, QuotaFacts DEF LevelAt, Refilled, AtMost, AtLeast
      <3>6. LevelAt(Absent, clock) = Full
        BY <1>t, LevelFacts
      <3>7. ASSUME NEW q \in Keys PROVE LevelAt(bucket'[q], clock) = LevelAt(bucket[q], clock)
        BY <3>2, <3>5, <3>6, <1>t
      <3>8. Levels' = Levels
        BY <3>2, <3>7, <1>m DEF Levels
      <3> QED BY <3>2, <3>8, <2>a
    <2>9. CASE Tick
      <3>1. clock' = clock + 1 /\ answer' = NoAnswer /\ bucket' = bucket
        BY <2>9 DEF Tick
      <3>2. ASSUME NEW k \in Keys
            PROVE  LevelAt(bucket[k], clock + 1) = AtMost(Full, LevelAt(bucket[k], clock) + 1)
        <4>1. CASE bucket[k] = Absent
          BY <4>1, <1>t, LevelFacts, QuotaFacts DEF AtMost
        <4>2. CASE bucket[k] \in Buckets
          <5>1. bucket[k] # Absent /\ bucket[k].t \in Nat /\ bucket[k].u \in Nat /\ bucket[k].u <= clock
            BY <4>2, <1>e, AbsentFacts DEF ExactInv
          <5> QED BY <5>1, <1>t, QuotaFacts DEF LevelAt, Refilled, AtMost, AtLeast
        <4> QED BY <4>1, <4>2, <1>t
      <3>3. Levels' = [k \in Keys |-> AtMost(Full, Levels[k] + 1)]
        BY <3>1, <3>2, <1>e, <1>m DEF Levels
      <3>4. Bucket!Pass
        BY <3>1, <3>3, <1>e, <1>m
           DEF Bucket!Pass, Levels, Bucket!AtMost, AtMost, Bucket!Full, Full, Bucket!NoAnswer, NoAnswer
      <3> QED BY <3>4 DEF Bucket!Next
    <2>10. CASE UNCHANGED vars
      BY <2>10, <2>0 DEF vars
    <2> QED BY <2>4, <2>5, <2>6, <2>7, <2>8, <2>9, <2>10 DEF Next
  <1> QED BY <1>x, <1>e

\* For any keys, quota, grain and sweep threshold, and clocks that are exact: either
\* backend, with its sweep, its expiry, its rounded replies and its lost replies, is the
\* bucket that is always there.
THEOREM RateImplementsBucket == Spec => ImplementsBucket
  <1>1. IInv /\ ExactInv /\ [Next]_vars => [Bucket!Next]_<<Levels, Answered>>
    BY BucketStep
  <1> QED BY <1>1, BucketInit, InitInv, StepInv, ExactInitInv, ExactStepInv, PTL
          DEF Spec, ImplementsBucket, Bucket!Spec, Levels, Answered
-----------------------------------------------------------------------------
\* The claims of a worker.  How long a job may wait for a permit is a matter of how
\* many handlers ran ahead of it: in every timeout that passes, each permit comes free
\* at least once, and goes to one of the batch as long as the batch waits.

\* A handler under way has neither overrun its timeout nor missed a beat, and the
\* lock is at most the longest wait for a permit older than the last beat.
RunBounds ==
    \A j \in Running : /\ job[j].ran <= config.timeout
                       /\ job[j].beat <= config.heartbeat
                       /\ job[j].age <= job[j].beat + Rounds * config.timeout

\* The handlers started after the first i timeouts of a wait of a ticks.
StartedAfter(a, i) == {j \in Running : job[j].ran < a - i * config.timeout}

\* A batch that has waited a ticks, i timeouts among them: every permit has come
\* free once in each of these, and what has been handed out since is out of the batch.
Waited(a, i) ==
    /\ i * config.timeout <= a /\ a <= (i + 1) * config.timeout
    /\ Cardinality(batch) + i * Concurrency + Cardinality(StartedAfter(a, i)) <= PollBatch

BatchBounds ==
    batch # {} => \E a, i \in Nat : Waited(a, i) /\ \A j \in batch : job[j].age = a

\* A row not under a handler has no time on it but the age of its lock.
Unstarted ==
    \A j \in Jobs : /\ job[j].at = "free" => job[j] = Free
                    /\ job[j].at = "waiting" => job[j].ran = 0 /\ job[j].beat = 0

LeaseInv == LeaseTypeOK /\ Unstarted /\ RunBounds /\ BatchBounds /\ MarginKeepsClaims

LEMMA LeaseFacts ==
  /\ IsFiniteSet(Jobs) /\ PollBatch \in Nat \ {0} /\ Concurrency \in Nat \ {0}
  /\ Rounds \in Nat /\ PollBatch <= Rounds * Concurrency
  <1>1. IsFiniteSet(Jobs) /\ PollBatch \in Nat \ {0} /\ Concurrency \in Nat \ {0}
    BY TimingConstants
  <1> DEFINE m == PollBatch + Concurrency - 1
             q == m \div Concurrency
             r == m % Concurrency
  <1>2. m \in Nat
    BY <1>1
  <1>3. q \in Nat /\ r \in 0..(Concurrency - 1) /\ m = Concurrency * q + r
    BY <1>1, <1>2, DivFacts
  <1>4. Rounds = q
    BY DEF Rounds
  <1>5. m = PollBatch + Concurrency - 1
    OBVIOUS
  <1> HIDE DEF m, q, r
  <1>6. Concurrency * q = q * Concurrency /\ Concurrency * q \in Nat
    BY <1>1, <1>3
  <1> QED BY <1>1, <1>3, <1>4, <1>5, <1>6

LEMMA JobSets ==
  ASSUME NEW S \in SUBSET Jobs
  PROVE  IsFiniteSet(S) /\ Cardinality(S) \in Nat
  BY LeaseFacts, FS_Subset, FS_CardinalityType

LEMMA ConfigFacts ==
  ASSUME LeaseTypeOK
  PROVE  config.timeout \in Nat \ {0} /\ config.heartbeat \in Nat \ {0}
  BY TimingConstants DEF LeaseTypeOK, Config

\* Products with the timeout.
LEMMA Timeouts ==
  ASSUME NEW i \in Nat, NEW t \in Nat \ {0}
  PROVE  i * t \in Nat /\ (i + 1) * t = i * t + t /\ (i + 1 + 1) * t = i * t + t + t
  OBVIOUS

LEMMA RoundsBound ==
  ASSUME NEW i \in Nat, NEW t \in Nat \ {0}, 1 + i * Concurrency <= PollBatch
  PROVE  (i + 1) * t <= Rounds * t
  <1>1. Rounds \in Nat /\ PollBatch <= Rounds * Concurrency /\ Concurrency \in Nat \ {0}
        /\ PollBatch \in Nat
    BY LeaseFacts
  <1>2. i * Concurrency < Rounds * Concurrency
    BY <1>1
  <1>3. i < Rounds
    <2> SUFFICES ASSUME Rounds <= i PROVE FALSE
      BY <1>1
    <2>1. Rounds * Concurrency <= i * Concurrency
      BY <1>1
    <2> QED BY <2>1, <1>2, <1>1
  <1>4. i + 1 <= Rounds
    BY <1>1, <1>3
  <1> QED BY <1>1, <1>4

\* The longest wait for a permit.
LEMMA WaitBound ==
  ASSUME LeaseTypeOK, BatchBounds, NEW j \in batch
  PROVE  job[j].age <= Rounds * config.timeout
  <1>1. PICK a \in Nat, i \in Nat : Waited(a, i) /\ job[j].age = a
    BY DEF BatchBounds
  <1>2. batch \in SUBSET Jobs /\ StartedAfter(a, i) \in SUBSET Jobs
    BY DEF LeaseTypeOK, StartedAfter, Running
  <1>3. Cardinality(batch) \in Nat /\ Cardinality(batch) # 0 /\ Cardinality(StartedAfter(a, i)) \in Nat
    BY <1>2, JobSets, FS_EmptySet
  <1>4. config.timeout \in Nat \ {0}
    BY ConfigFacts
  <1>5. i * Concurrency \in Nat /\ PollBatch \in Nat
    BY LeaseFacts
  <1>6. 1 + i * Concurrency <= PollBatch
    BY <1>1, <1>3, <1>5 DEF Waited
  <1>7. (i + 1) * config.timeout <= Rounds * config.timeout
    BY <1>4, <1>6, RoundsBound
  <1>8. (i + 1) * config.timeout \in Nat /\ Rounds * config.timeout \in Nat
    BY <1>4, LeaseFacts
  <1> QED BY <1>1, <1>7, <1>8 DEF Waited

LEMMA NeverLapsed ==
  ASSUME LeaseTypeOK, Unstarted, RunBounds, BatchBounds, SafeMargin(config), NEW j \in Jobs
  PROVE  ~Lapsed(j)
  <1> SUFFICES ASSUME job[j] # Free PROVE job[j].age <= StoredLease(config)
    <2>1. job[j].age \in Nat /\ StoredLease(config) \in Int
      BY TimingConstants DEF LeaseTypeOK, Claim, StoredLease, Config
    <2> QED BY <2>1 DEF Lapsed
  <1>c. config.timeout \in Nat \ {0} /\ config.heartbeat \in Nat \ {0}
    BY ConfigFacts
  <1>d. Rounds * config.timeout \in Nat
    BY <1>c, LeaseFacts
  <1>s. StoredLease(config) \in Int
    BY TimingConstants DEF LeaseTypeOK, StoredLease, Config
  <1>j. job[j] \in Claim
    BY DEF LeaseTypeOK
  <1>1. CASE j \in batch
    <2>1. job[j].age <= Rounds * config.timeout /\ job[j].age \in Nat
      BY <1>1, <1>j, WaitBound DEF Claim
    <2> QED BY <2>1, <1>c, <1>d, <1>s DEF SafeMargin
  <1>2. CASE j \in Running
    <2>1. job[j].beat <= config.heartbeat /\ job[j].age <= job[j].beat + Rounds * config.timeout
          /\ job[j].age \in Nat /\ job[j].beat \in Nat
      BY <1>2, <1>j DEF RunBounds, Claim
    <2> QED BY <2>1, <1>c, <1>d, <1>s DEF SafeMargin
  <1>3. CASE job[j].at = "free"
    BY <1>3 DEF Unstarted
  <1> QED BY <1>1, <1>2, <1>3, <1>j DEF LeaseTypeOK, Running, Claim

\* Handlers that end, or whose beat is sent, start nothing.
LEMMA BatchKept ==
  ASSUME LeaseTypeOK, BatchBounds, UNCHANGED <<config, batch>>,
         \A j \in Jobs : job'[j].at = "running" => job[j].at = "running" /\ job'[j].ran = job[j].ran,
         \A j \in batch : job'[j].age = job[j].age
  PROVE  BatchBounds'
  <1> SUFFICES ASSUME batch # {}
               PROVE  \E a, i \in Nat : Waited(a, i)' /\ \A j \in batch : job'[j].age = a
    BY DEF BatchBounds
  <1>1. PICK a \in Nat, i \in Nat : Waited(a, i) /\ \A j \in batch : job[j].age = a
    BY DEF BatchBounds
  <1>2. StartedAfter(a, i)' \in SUBSET StartedAfter(a, i)
    BY DEF StartedAfter, Running
  <1>3. StartedAfter(a, i) \in SUBSET Jobs /\ batch \in SUBSET Jobs
    BY DEF StartedAfter, Running, LeaseTypeOK
  <1>4. IsFiniteSet(StartedAfter(a, i)) /\ Cardinality(StartedAfter(a, i)) \in Nat /\ Cardinality(batch) \in Nat
    BY <1>3, JobSets
  <1>5. Cardinality(StartedAfter(a, i)') \in Nat
        /\ Cardinality(StartedAfter(a, i)') <= Cardinality(StartedAfter(a, i))
    BY <1>2, <1>3, <1>4, JobSets, FS_Subset
  <1>6. i * Concurrency \in Nat /\ PollBatch \in Nat
    BY LeaseFacts
  <1>7. Waited(a, i)'
    <2>1. Cardinality(batch) + i * Concurrency + Cardinality(StartedAfter(a, i)') <= PollBatch
      BY <1>1, <1>4, <1>5, <1>6 DEF Waited
    <2> QED BY <1>1, <2>1 DEF Waited
  <1> QED BY <1>1, <1>7

LEMMA LeaseClaimKeeps ==
  ASSUME LeaseInv, NEW S \in SUBSET Jobs, ClaimJobs(S)
  PROVE  LeaseInv'
  <1>t. LeaseTypeOK /\ Unstarted /\ RunBounds /\ MarginKeepsClaims
    BY DEF LeaseInv
  <1> DEFINE new == [Free EXCEPT !.at = "waiting"]
  <1>0. /\ batch = {} /\ batch' = S /\ UNCHANGED <<config, swept>> /\ Cardinality(S) <= PollBatch
        /\ S \subseteq {j \in Jobs : job[j] = Free}
        /\ job' = [j \in Jobs |-> IF j \in S THEN new ELSE job[j]]
    BY DEF ClaimJobs
  <1>1. new \in Claim /\ new.at = "waiting" /\ new.age = 0 /\ new.ran = 0 /\ new.beat = 0
    BY DEF Free, Claim
  <1> HIDE DEF new
  <1>2. LeaseTypeOK'
    BY <1>t, <1>0, <1>1 DEF LeaseTypeOK
  <1>3. Unstarted'
    BY <1>t, <1>0, <1>1 DEF Unstarted
  <1>r. Running' = Running /\ \A j \in Running : job'[j] = job[j]
    BY <1>0, <1>1 DEF Running, Free
  <1>4. RunBounds'
    BY <1>t, <1>0, <1>r DEF RunBounds
  <1>5. BatchBounds'
    <2>1. \A j \in batch' : job'[j].age = 0
      BY <1>0, <1>1
    <2>2. config.timeout \in Nat \ {0} /\ Concurrency \in Nat
      BY <1>t, ConfigFacts, LeaseFacts
    <2>3. 0 * config.timeout = 0 /\ (0 + 1) * config.timeout = config.timeout /\ 0 * Concurrency = 0
      BY <2>2
    <2>4. StartedAfter(0, 0)' = {}
      <3>1. \A j \in Running : job[j].ran \in Nat
        BY <1>t DEF LeaseTypeOK, Claim, Running
      <3> QED BY <1>0, <1>r, <2>3, <3>1 DEF StartedAfter
    <2>5. Cardinality(StartedAfter(0, 0)') = 0 /\ Cardinality(S) \in Nat
      BY <2>4, JobSets, FS_EmptySet
    <2>6. Waited(0, 0)'
      BY <1>0, <2>2, <2>3, <2>5 DEF Waited
    <2> QED BY <2>1, <2>6 DEF BatchBounds
  <1>6. MarginKeepsClaims'
    BY <1>t, <1>0 DEF MarginKeepsClaims
  <1> QED BY <1>2, <1>3, <1>4, <1>5, <1>6 DEF LeaseInv

LEMMA DispatchKeeps ==
  ASSUME LeaseInv, NEW j \in Jobs, Dispatch(j)
  PROVE  LeaseInv'
  <1>t. LeaseTypeOK /\ Unstarted /\ RunBounds /\ BatchBounds /\ MarginKeepsClaims
    BY DEF LeaseInv
  <1>0. /\ j \in batch /\ batch' = batch \ {j} /\ UNCHANGED <<config, swept>>
        /\ job' = [job EXCEPT ![j].at = "running"]
    BY DEF Dispatch
  <1>1. job[j] \in Claim /\ job[j].at = "waiting" /\ job[j].ran = 0 /\ job[j].beat = 0
    BY <1>t, <1>0 DEF LeaseTypeOK, Unstarted
  <1>2. /\ job'[j].at = "running" /\ job'[j].age = job[j].age /\ job'[j].ran = 0 /\ job'[j].beat = 0
        /\ job'[j] \in Claim /\ \A k \in Jobs \ {j} : job'[k] = job[k]
    BY <1>t, <1>0, <1>1 DEF LeaseTypeOK, Claim
  <1>3. LeaseTypeOK'
    <2>1. job' \in [Jobs -> Claim]
      BY <1>t, <1>0, <1>2 DEF LeaseTypeOK
    <2>2. batch' = {k \in Jobs : job'[k].at = "waiting"}
      BY <1>t, <1>0, <1>2 DEF LeaseTypeOK
    <2> QED BY <1>t, <1>0, <2>1, <2>2 DEF LeaseTypeOK
  <1>4. Unstarted'
    BY <1>t, <1>2 DEF Unstarted
  <1>c. config.timeout \in Nat \ {0} /\ config.heartbeat \in Nat \ {0}
    BY <1>t, ConfigFacts
  <1>5. RunBounds'
    <2>1. job[j].age <= Rounds * config.timeout
      BY <1>t, <1>0, WaitBound
    <2>2. Rounds * config.timeout \in Nat /\ job[j].age \in Nat
      BY <1>c, <1>1, LeaseFacts DEF Claim
    <2>3. Running' = Running \cup {j}
      BY <1>2 DEF Running
    <2> QED BY <1>t, <1>0, <1>2, <1>c, <2>1, <2>2, <2>3 DEF RunBounds, Running
  <1>6. BatchBounds'
    <2>1. PICK a \in Nat, i \in Nat : Waited(a, i) /\ \A k \in batch : job[k].age = a
      BY <1>t, <1>0 DEF BatchBounds
    <2>2. StartedAfter(a, i)' \in SUBSET (StartedAfter(a, i) \cup {j})
      BY <1>0, <1>2 DEF StartedAfter, Running
    <2>3. StartedAfter(a, i) \in SUBSET Jobs /\ batch \in SUBSET Jobs
      BY <1>t DEF StartedAfter, Running, LeaseTypeOK
    <2>4. IsFiniteSet(StartedAfter(a, i)) /\ Cardinality(StartedAfter(a, i)) \in Nat
          /\ IsFiniteSet(batch) /\ Cardinality(batch) \in Nat
      BY <2>3, JobSets
    <2>5. /\ IsFiniteSet(StartedAfter(a, i) \cup {j})
          /\ Cardinality(StartedAfter(a, i) \cup {j}) <= Cardinality(StartedAfter(a, i)) + 1
          /\ Cardinality(StartedAfter(a, i) \cup {j}) \in Nat
      <3> DEFINE T == StartedAfter(a, i)
      <3>1. IsFiniteSet(T) /\ Cardinality(T) \in Nat
        BY <2>4
      <3> HIDE DEF T
      <3>2. /\ IsFiniteSet(T \cup {j})
            /\ Cardinality(T \cup {j}) = IF j \in T THEN Cardinality(T) ELSE Cardinality(T) + 1
        BY <3>1, FS_AddElement
      <3>3. /\ IsFiniteSet(T \cup {j}) /\ Cardinality(T \cup {j}) <= Cardinality(T) + 1
            /\ Cardinality(T \cup {j}) \in Nat
        BY <3>1, <3>2
      <3> QED BY <3>3 DEF T
    <2>6. /\ Cardinality(StartedAfter(a, i)') \in Nat
          /\ Cardinality(StartedAfter(a, i)') <= Cardinality(StartedAfter(a, i) \cup {j})
      BY <2>2, <2>5, FS_Subset, FS_CardinalityType
    <2>7. Cardinality(batch') = Cardinality(batch) - 1
      BY <1>0, <2>4, FS_RemoveElement
    <2>8. i * Concurrency \in Nat /\ PollBatch \in Nat
      BY LeaseFacts
    <2>9. Waited(a, i)'
      <3>1. Cardinality(batch') + i * Concurrency + Cardinality(StartedAfter(a, i)') <= PollBatch
        BY <2>1, <2>4, <2>5, <2>6, <2>7, <2>8 DEF Waited
      <3> QED BY <1>0, <2>1, <3>1 DEF Waited
    <2>10. \A k \in batch' : job'[k].age = a
      BY <1>0, <1>2, <2>1, <2>3
    <2> QED BY <2>9, <2>10 DEF BatchBounds
  <1>7. MarginKeepsClaims'
    BY <1>t, <1>0 DEF MarginKeepsClaims
  <1> QED BY <1>3, <1>4, <1>5, <1>6, <1>7 DEF LeaseInv

LEMMA HandlerKeeps ==
  ASSUME LeaseInv, NEW j \in Jobs, Heartbeat(j) \/ Finish(j)
  PROVE  LeaseInv'
  <1>t. LeaseTypeOK /\ Unstarted /\ RunBounds /\ BatchBounds /\ MarginKeepsClaims
    BY DEF LeaseInv
  <1> DEFINE new == job'[j]
  <1>0. /\ job[j].at = "running" /\ UNCHANGED <<config, batch, swept>>
        /\ \A k \in Jobs \ {j} : job'[k] = job[k]
        /\ \/ job' = [job EXCEPT ![j].beat = 0, ![j].age = 0]
           \/ job' = [job EXCEPT ![j] = Free]
    BY <1>t DEF Heartbeat, Finish, LeaseTypeOK
  <1>1. job[j] \in Claim
    BY <1>t DEF LeaseTypeOK
  <1>2. /\ job' \in [Jobs -> Claim]
        /\ \/ new = Free /\ new.at = "free"
           \/ new.at = "running" /\ new.beat = 0 /\ new.age = 0 /\ new.ran = job[j].ran
    BY <1>t, <1>0, <1>1 DEF LeaseTypeOK, Claim, Free
  <1> HIDE DEF new
  <1>3. LeaseTypeOK'
    <2>1. batch = {k \in Jobs : job'[k].at = "waiting"}
      BY <1>t, <1>0, <1>2 DEF LeaseTypeOK, new
    <2> QED BY <1>t, <1>0, <1>2, <2>1 DEF LeaseTypeOK
  <1>4. Unstarted'
    BY <1>t, <1>0, <1>2 DEF Unstarted, new
  <1>5. RunBounds'
    <2>1. config.timeout \in Nat \ {0} /\ config.heartbeat \in Nat \ {0}
      BY <1>t, ConfigFacts
    <2>2. Rounds * config.timeout \in Nat
      BY <2>1, LeaseFacts
    <2> SUFFICES ASSUME NEW k \in Jobs, job'[k].at = "running"
                 PROVE  /\ job'[k].ran <= config.timeout /\ job'[k].beat <= config.heartbeat
                        /\ job'[k].age <= job'[k].beat + Rounds * config.timeout
      BY <1>0 DEF RunBounds, Running
    <2>3. CASE k = j
      BY <2>1, <2>2, <2>3, <1>0, <1>2, <1>t DEF RunBounds, Running, new
    <2>4. CASE k # j
      BY <2>4, <1>0, <1>t DEF RunBounds, Running
    <2> QED BY <2>3, <2>4
  <1>6. BatchBounds'
    <2>1. \A k \in Jobs : job'[k].at = "running" => job[k].at = "running" /\ job'[k].ran = job[k].ran
      BY <1>0, <1>2 DEF new
    <2>2. \A k \in batch : job'[k].age = job[k].age
      BY <1>0, <1>t DEF LeaseTypeOK
    <2> QED BY <1>t, <1>0, <2>1, <2>2, BatchKept
  <1>7. MarginKeepsClaims'
    BY <1>t, <1>0 DEF MarginKeepsClaims
  <1> QED BY <1>3, <1>4, <1>5, <1>6, <1>7 DEF LeaseInv

LEMMA LeaseTickKeeps ==
  ASSUME LeaseInv, LeaseTick
  PROVE  LeaseInv'
  <1>t. LeaseTypeOK /\ Unstarted /\ RunBounds /\ BatchBounds /\ MarginKeepsClaims
    BY DEF LeaseInv
  <1>0. ~LeaseDue /\ job' = [k \in Jobs |-> Older(job[k])] /\ UNCHANGED <<config, batch, swept>>
    BY DEF LeaseTick
  <1>u. config' = config
    BY <1>0
  <1>1. ASSUME NEW k \in Jobs
        PROVE  /\ Older(job[k]) \in Claim /\ Older(job[k]).at = job[k].at
               /\ job[k].at = "free" => Older(job[k]) = job[k]
               /\ job[k].at = "waiting" => /\ Older(job[k]).age = job[k].age + 1
                                           /\ Older(job[k]).ran = 0 /\ Older(job[k]).beat = 0
               /\ job[k].at = "running" => /\ Older(job[k]).age = job[k].age + 1
                                           /\ Older(job[k]).ran = job[k].ran + 1
                                           /\ Older(job[k]).beat = job[k].beat + 1
               /\ job[k] \in Claim
    BY <1>t DEF LeaseTypeOK, Claim, Older
  <1>2. Running' = Running
    BY <1>0, <1>1 DEF Running
  <1>3. LeaseTypeOK'
    BY <1>t, <1>0, <1>1 DEF LeaseTypeOK
  <1>4. Unstarted'
    BY <1>t, <1>0, <1>1 DEF Unstarted
  <1>c. config.timeout \in Nat \ {0} /\ config.heartbeat \in Nat \ {0}
    BY <1>t, ConfigFacts
  <1>5. ASSUME NEW k \in Running
        PROVE  /\ job[k].ran \in Nat /\ job[k].beat \in Nat /\ job[k].age \in Nat
               /\ job[k].ran < config.timeout /\ job[k].beat < config.heartbeat
               /\ job'[k].ran = job[k].ran + 1 /\ job'[k].beat = job[k].beat + 1
               /\ job'[k].age = job[k].age + 1
    <2>1. k \in Jobs /\ job[k].at = "running" /\ job[k] \in Claim
      BY <1>1 DEF Running
    <2>2. job[k].ran \in Nat /\ job[k].beat \in Nat /\ job[k].age \in Nat
      BY <2>1 DEF Claim
    <2>3. job[k].ran # config.timeout /\ job[k].beat # config.heartbeat
      BY <1>0 DEF LeaseDue
    <2>4. job[k].ran <= config.timeout /\ job[k].beat <= config.heartbeat
      BY <1>t DEF RunBounds
    <2> QED BY <1>0, <1>1, <1>c, <2>1, <2>2, <2>3, <2>4
  <1>6. RunBounds'
    <2>1. Rounds * config.timeout \in Nat
      BY <1>c, LeaseFacts
    <2> SUFFICES ASSUME NEW k \in Running
                 PROVE  /\ job'[k].ran <= config.timeout /\ job'[k].beat <= config.heartbeat
                        /\ job'[k].age <= job'[k].beat + Rounds * config.timeout
      BY <1>0, <1>2 DEF RunBounds
    <2>2. job[k].age <= job[k].beat + Rounds * config.timeout
      BY <1>t DEF RunBounds
    <2> QED BY <1>5, <1>c, <2>1, <2>2
  <1>7. BatchBounds'
    <2> SUFFICES ASSUME batch # {}
                 PROVE  \E a, i \in Nat : Waited(a, i)' /\ \A k \in batch : job'[k].age = a
      BY <1>0 DEF BatchBounds
    <2>1. PICK a \in Nat, i \in Nat : Waited(a, i) /\ \A k \in batch : job[k].age = a
      BY <1>t DEF BatchBounds
    <2>2. \A k \in batch : job'[k].age = a + 1
      BY <1>t, <1>0, <1>1, <2>1 DEF LeaseTypeOK
    <2>3. StartedAfter(a, i) \in SUBSET Jobs /\ batch \in SUBSET Jobs /\ Running \in SUBSET Jobs
      BY <1>t DEF StartedAfter, Running, LeaseTypeOK
    <2>4. Cardinality(StartedAfter(a, i)) \in Nat /\ Cardinality(batch) \in Nat
          /\ Cardinality(Running) \in Nat
      BY <2>3, JobSets
    <2>5. Cardinality(Running) >= Concurrency
      BY <1>0, <2>4, LeaseFacts DEF LeaseDue
    <2> DEFINE t == config.timeout
    <2>6. i * t \in Nat /\ (i + 1) * t = i * t + t /\ (i + 1 + 1) * t = i * t + t + t
      BY <1>c, Timeouts
    <2>7. i * Concurrency \in Nat /\ (i + 1) * Concurrency = i * Concurrency + Concurrency
          /\ PollBatch \in Nat /\ Concurrency \in Nat
      BY LeaseFacts, Timeouts
    <2>w. /\ i * t <= a /\ a <= (i + 1) * t /\ t \in Nat \ {0}
          /\ Cardinality(batch) + i * Concurrency + Cardinality(StartedAfter(a, i)) <= PollBatch
      BY <1>c, <2>1 DEF Waited
    <2>8. CASE a < (i + 1) * t
      <3>0. \A k \in Running : job'[k].ran < (a + 1) - i * config.timeout <=> job[k].ran < a - i * config.timeout
        BY <1>5, <2>6
      <3>e. StartedAfter(a + 1, i)' = {k \in Running : job'[k].ran < (a + 1) - i * config.timeout}
        BY <1>u, <1>2, Zenon DEF StartedAfter
      <3>1. StartedAfter(a + 1, i)' = StartedAfter(a, i)
        BY <3>e, <3>0, Zenon DEF StartedAfter
      <3>2. i * t <= a + 1 /\ a + 1 <= (i + 1) * t
        BY <2>8, <2>w, <2>6
      <3>3. Waited(a + 1, i)'
        BY <1>0, <2>w, <3>1, <3>2 DEF Waited
      <3> QED BY <2>2, <3>3
    <2>9. CASE a = (i + 1) * t
      <3>1. StartedAfter(a, i) = Running
        BY <1>5, <2>6, <2>9, <2>w DEF StartedAfter
      <3>0. \A k \in Running : ~(job'[k].ran < (a + 1) - (i + 1) * config.timeout)
        BY <1>5, <2>6, <2>9, <2>w
      <3>e. StartedAfter(a + 1, i + 1)' = {k \in Running : job'[k].ran < (a + 1) - (i + 1) * config.timeout}
        BY <1>u, <1>2, Zenon DEF StartedAfter
      <3>2. StartedAfter(a + 1, i + 1)' = {}
        BY <3>e, <3>0, Zenon
      <3>3. Cardinality(StartedAfter(a + 1, i + 1)') = 0
        BY <3>2, FS_EmptySet
      <3>4. Cardinality(batch) + (i + 1) * Concurrency + 0 <= PollBatch
        BY <2>w, <2>4, <2>5, <2>7, <3>1
      <3>5. (i + 1) * t <= a + 1 /\ a + 1 <= (i + 1 + 1) * t
        BY <2>9, <2>w, <2>6
      <3>6. Waited(a + 1, i + 1)'
        BY <1>0, <3>3, <3>4, <3>5 DEF Waited
      <3> QED BY <2>2, <3>6
    <2> QED BY <2>8, <2>9, <2>w, <2>6
  <1>8. MarginKeepsClaims'
    BY <1>t, <1>0 DEF MarginKeepsClaims
  <1> QED BY <1>3, <1>4, <1>6, <1>7, <1>8 DEF LeaseInv

LEMMA LeaseStepInv == LeaseInv /\ [LeaseNext]_leaseVars => LeaseInv'
  <1> SUFFICES ASSUME LeaseInv, [LeaseNext]_leaseVars PROVE LeaseInv'
    OBVIOUS
  <1>1. ASSUME NEW j \in Jobs, Sweep(j) PROVE LeaseInv'
    <2>1. Lapsed(j) /\ UNCHANGED <<config, job, batch>> /\ swept' = swept \cup {j}
      BY <1>1 DEF Sweep
    <2>2. ~SafeMargin(config)
      BY <2>1, NeverLapsed DEF LeaseInv
    <2>3. LeaseTypeOK'
      BY <2>1 DEF LeaseInv, LeaseTypeOK
    <2>4. (Unstarted /\ RunBounds /\ BatchBounds)'
      BY <2>1 DEF LeaseInv, Unstarted, RunBounds, BatchBounds, Running, Waited, StartedAfter
    <2>5. MarginKeepsClaims'
      BY <2>1, <2>2 DEF MarginKeepsClaims
    <2> QED BY <2>3, <2>4, <2>5 DEF LeaseInv
  <1>2. CASE UNCHANGED leaseVars
    BY <1>2 DEF LeaseInv, LeaseTypeOK, Unstarted, RunBounds, BatchBounds, Running, Waited,
                StartedAfter, MarginKeepsClaims, leaseVars
  <1> QED BY <1>1, <1>2, LeaseClaimKeeps, DispatchKeeps, HandlerKeeps, LeaseTickKeeps DEF LeaseNext

LEMMA LeaseInitInv == LeaseInit => LeaseInv
  <1> SUFFICES ASSUME LeaseInit PROVE LeaseInv
    OBVIOUS
  <1>1. Free \in Claim /\ Free.at = "free"
    BY DEF Free, Claim
  <1>2. LeaseTypeOK
    BY <1>1 DEF LeaseInit, LeaseTypeOK
  <1>3. Unstarted /\ RunBounds
    BY <1>1 DEF LeaseInit, Unstarted, RunBounds, Running
  <1>4. BatchBounds /\ MarginKeepsClaims
    BY DEF LeaseInit, BatchBounds, MarginKeepsClaims
  <1> QED BY <1>2, <1>3, <1>4 DEF LeaseInv

\* For any finite set of jobs, batch size, concurrency and resolution of the lease
\* column, and every configuration validate accepts: if the rounds of handlers ahead of
\* the last of a batch and a heartbeat fit in the lease as stored, no claim of a worker
\* that neither dies nor stalls is ever swept.
THEOREM MarginCorrect == LeaseSpec => []MarginKeepsClaims
  <1>1. LeaseInv => MarginKeepsClaims
    BY DEF LeaseInv
  <1> QED BY <1>1, LeaseInitInv, LeaseStepInv, PTL DEF LeaseSpec

\* Type correctness; the batch is what waits for a permit, and nothing else.
THEOREM LeaseTypeCorrect == LeaseSpec => []LeaseTypeOK
  <1>1. LeaseInv => LeaseTypeOK
    BY DEF LeaseInv
  <1> QED BY <1>1, LeaseInitInv, LeaseStepInv, PTL DEF LeaseSpec
-----------------------------------------------------------------------------
\* The scheduler.  An entry's next time has an occurrence of its own to come, so a
\* fire is within the cadence whenever the loop gets to it.

LEMMA DivUnique ==
  ASSUME NEW n \in Nat \ {0}, NEW q \in Nat, NEW r \in 0..(n - 1)
  PROVE  (n * q + r) \div n = q /\ (n * q + r) % n = r
  OBVIOUS

LEMMA DivMonotone ==
  ASSUME NEW n \in Nat \ {0}, NEW a \in Nat, NEW b \in Nat, a <= b
  PROVE  a \div n <= b \div n
  BY DivFacts

LEMMA DivNext ==
  ASSUME NEW n \in Nat \ {0}, NEW a \in Nat
  PROVE  (a + n) \div n = a \div n + 1
  <1> DEFINE q == a \div n
             r == a % n
  <1>1. q \in Nat /\ r \in 0..(n - 1) /\ a = n * q + r
    BY DivFacts
  <1> HIDE DEF q, r
  <1>2. a + n = n * (q + 1) + r
    BY <1>1
  <1>3. (n * (q + 1) + r) \div n = q + 1
    BY <1>1, DivUnique
  <1> QED BY <1>2, <1>3 DEF q

\* After every moment the time of day n comes once within a day.
LEMMA DailyComes ==
  ASSUME NEW t \in Nat, NEW n \in 0..(Day - 1)
  PROVE  \E f \in (t + 1)..(t + Day) : f % Day = n
  <1>d. Day \in Nat \ {0}
    BY SchedConstants
  <1> DEFINE q == t \div Day
             r == t % Day
  <1>1. q \in Nat /\ r \in 0..(Day - 1) /\ t = Day * q + r
    BY <1>d, DivFacts
  <1> HIDE DEF q, r
  <1>2. CASE r < n
    <2>1. Day * q + n \in (t + 1)..(t + Day)
      BY <1>1, <1>2, <1>d
    <2>2. (Day * q + n) % Day = n
      BY <1>1, <1>d, DivUnique
    <2> QED BY <2>1, <2>2
  <1>3. CASE n <= r
    <2>1. Day * (q + 1) + n \in (t + 1)..(t + Day)
      BY <1>1, <1>3, <1>d
    <2>2. (Day * (q + 1) + n) % Day = n
      BY <1>1, <1>d, DivUnique
    <2> QED BY <2>1, <2>2
  <1> QED BY <1>1, <1>2, <1>3, <1>d

\* The days' times up to t, as a finite set.
LEMMA DailyFinite ==
  ASSUME NEW t \in Nat, NEW n
  PROVE  LET S == {f \in 1..t : f % Day = n} IN IsFiniteSet(S) /\ Cardinality(S) \in Nat
  <1> DEFINE S == {f \in 1..t : f % Day = n}
  <1>1. IsFiniteSet(1..t)
    BY FS_Interval
  <1>2. S \in SUBSET (1..t)
    OBVIOUS
  <1> HIDE DEF S
  <1>3. IsFiniteSet(S) /\ Cardinality(S) \in Nat
    BY <1>1, <1>2, FS_Subset, FS_CardinalityType
  <1> QED BY <1>3 DEF S

\* A later time has seen no fewer occurrences.
LEMMA OccurrencesGrow ==
  ASSUME NEW c \in Cadences, NEW s \in Nat, NEW t \in Nat, s <= t
  PROVE  /\ Occurrences(c, s) \in Nat /\ Occurrences(c, t) \in Nat
         /\ Occurrences(c, s) <= Occurrences(c, t)
  <1>1. CASE c.kind = "every"
    <2>1. c.n \in Nat \ {0}
      BY <1>1, SchedConstants DEF Cadences
    <2> QED BY <1>1, <2>1, DivMonotone, DivFacts DEF Occurrences
  <1>2. CASE c.kind # "every"
    <2> DEFINE S == {f \in 1..s : f % Day = c.n}
               T == {f \in 1..t : f % Day = c.n}
    <2>1. S \in SUBSET T
      OBVIOUS
    <2>2. IsFiniteSet(T) /\ Cardinality(T) \in Nat /\ Cardinality(S) \in Nat
      BY DailyFinite
    <2>3. Occurrences(c, s) = Cardinality(S) /\ Occurrences(c, t) = Cardinality(T)
      BY <1>2 DEF Occurrences
    <2> HIDE DEF S, T
    <2> QED BY <2>1, <2>2, <2>3, FS_Subset
  <1> QED BY <1>1, <1>2

\* compute_next_fire skips no time to come and names one that has not come yet.
LEMMA NextFireAdvances ==
  ASSUME NEW c \in Cadences, NEW t \in Nat
  PROVE  /\ ComputeNextFire(c, t) \in Nat
         /\ Occurrences(c, t) + 1 <= Occurrences(c, ComputeNextFire(c, t))
  <1>1. CASE c.kind = "every"
    <2> DEFINE n == c.n
    <2>1. n \in Nat \ {0}
      BY <1>1, SchedConstants DEF Cadences
    <2>2. ComputeNextFire(c, t) = t + n /\ Occurrences(c, t) = t \div n
          /\ Occurrences(c, t + n) = (t + n) \div n
      BY <1>1 DEF Occurrences, ComputeNextFire
    <2> HIDE DEF n
    <2>3. (t + n) \div n = t \div n + 1 /\ t \div n \in Nat
      BY <2>1, DivNext, DivFacts
    <2> QED BY <2>1, <2>2, <2>3
  <1>2. CASE c.kind # "every"
    <2>1. c.n \in 0..(Day - 1) /\ Day \in Nat
      BY <1>2, SchedConstants DEF Cadences
    <2> DEFINE g == ComputeNextFire(c, t)
    <2>2. g \in (t + 1)..(t + Day) /\ g % Day = c.n
      BY <1>2, <2>1, DailyComes DEF ComputeNextFire
    <2> HIDE DEF g
    <2> DEFINE S == {f \in 1..t : f % Day = c.n}
               T == {f \in 1..g : f % Day = c.n}
    <2>3. g \in Nat /\ S \cup {g} \in SUBSET T /\ g \notin S
      BY <2>1, <2>2
    <2>4. IsFiniteSet(T) /\ Cardinality(T) \in Nat /\ IsFiniteSet(S) /\ Cardinality(S) \in Nat
      BY <2>3, DailyFinite
    <2>5. Occurrences(c, t) = Cardinality(S) /\ Occurrences(c, g) = Cardinality(T)
      BY <1>2 DEF Occurrences
    <2> HIDE DEF S, T
    <2>6. Cardinality(S \cup {g}) = Cardinality(S) + 1
      BY <2>3, <2>4, FS_AddElement
    <2>7. Cardinality(S \cup {g}) <= Cardinality(T)
      BY <2>3, <2>4, FS_Subset
    <2>8. Occurrences(c, t) + 1 <= Occurrences(c, g) /\ g \in Nat
      BY <2>3, <2>4, <2>5, <2>6, <2>7
    <2> QED BY <2>8 DEF g
  <1> QED BY <1>1, <1>2

SchedTypeOK ==
    /\ now \in Nat
    /\ cadence \in [1..Entries -> Cadences]
    /\ nextFire \in [1..Entries -> Nat]
    /\ reading \in 0..now
    /\ cursor \in Nat \ {0}
    /\ fires \in [1..Entries -> Nat]

\* An occurrence is left for the time an entry is to fire next.
OneToCome ==
    \A e \in 1..Entries : fires[e] + 1 <= Occurrences(cadence[e], nextFire[e])

SchedInv == SchedTypeOK /\ OneToCome /\ FiresWithinCadence

LEMMA SchedInitInv == SchedInit => SchedInv
  <1> SUFFICES ASSUME SchedInit PROVE SchedInv
    OBVIOUS
  <1>1. SchedTypeOK
    BY NextFireAdvances DEF SchedInit, SchedTypeOK
  <1>2. ASSUME NEW e \in 1..Entries
        PROVE  /\ fires[e] + 1 <= Occurrences(cadence[e], nextFire[e])
               /\ fires[e] <= Occurrences(cadence[e], now)
    <2>1. cadence[e] \in Cadences /\ fires[e] = 0 /\ now = 0
          /\ nextFire[e] = ComputeNextFire(cadence[e], 0)
      BY DEF SchedInit
    <2>2. Occurrences(cadence[e], 0) \in Nat
      BY <2>1, OccurrencesGrow
    <2>3. /\ nextFire[e] \in Nat
          /\ Occurrences(cadence[e], 0) + 1 <= Occurrences(cadence[e], nextFire[e])
      BY <2>1, NextFireAdvances
    <2>4. Occurrences(cadence[e], nextFire[e]) \in Nat
      BY <2>1, <2>3, OccurrencesGrow
    <2> QED BY <2>1, <2>2, <2>3, <2>4
  <1> QED BY <1>1, <1>2 DEF SchedInv, OneToCome, FiresWithinCadence

LEMMA SchedStepInv == SchedInv /\ [SchedNext]_schedVars => SchedInv'
  <1> SUFFICES ASSUME SchedInv, [SchedNext]_schedVars PROVE SchedInv'
    OBVIOUS
  <1>t. SchedTypeOK /\ OneToCome /\ FiresWithinCadence
    BY DEF SchedInv
  <1>1. CASE SchedWake \/ SchedRound \/ SchedCancel \/ SchedEnd \/ UNCHANGED schedVars
    <2>1. UNCHANGED <<now, cadence, nextFire, fires>> /\ reading' \in {reading, now}
          /\ cursor' \in {1, cursor}
      BY <1>1 DEF SchedWake, SchedRound, SchedCancel, SchedEnd, schedVars
    <2>2. SchedTypeOK'
      BY <1>t, <2>1 DEF SchedTypeOK
    <2>3. OneToCome' /\ FiresWithinCadence'
      BY <1>t, <2>1 DEF OneToCome, FiresWithinCadence
    <2> QED BY <2>2, <2>3 DEF SchedInv
  <1>2. CASE SchedTick
    <2>1. now' = now + 1 /\ UNCHANGED <<cadence, nextFire, fires, reading, cursor>>
      BY <1>2 DEF SchedTick
    <2>2. SchedTypeOK'
      BY <1>t, <2>1 DEF SchedTypeOK
    <2>3. OneToCome'
      BY <1>t, <2>1 DEF OneToCome
    <2>4. ASSUME NEW e \in 1..Entries PROVE fires[e] <= Occurrences(cadence[e], now + 1)
      <3>1. cadence[e] \in Cadences /\ now \in Nat /\ fires[e] \in Nat
            /\ fires[e] <= Occurrences(cadence[e], now)
        BY <1>t DEF SchedTypeOK, FiresWithinCadence
      <3>2. /\ Occurrences(cadence[e], now) \in Nat /\ Occurrences(cadence[e], now + 1) \in Nat
            /\ Occurrences(cadence[e], now) <= Occurrences(cadence[e], now + 1)
        BY <3>1, OccurrencesGrow
      <3> QED BY <3>1, <3>2
    <2> QED BY <2>1, <2>2, <2>3, <2>4 DEF SchedInv, FiresWithinCadence
  <1>3. CASE SchedFire
    <2> DEFINE e == cursor
    <2>0. e \in 1..Entries /\ cursor' = cursor + 1 /\ UNCHANGED <<now, cadence, reading>>
      BY <1>t, <1>3, SchedConstants DEF SchedFire, SchedTypeOK
    <2>1. CASE ~Due(e)
      <3>1. UNCHANGED <<fires, nextFire>>
        BY <1>3, <2>1 DEF SchedFire
      <3>2. SchedTypeOK'
        BY <1>t, <2>0, <3>1 DEF SchedTypeOK
      <3> QED BY <1>t, <2>0, <3>1, <3>2 DEF SchedInv, OneToCome, FiresWithinCadence
    <2>2. CASE Due(e)
      <3> DEFINE c == cadence[e]
                 g == ComputeNextFire(c, reading)
      <3>1. /\ fires' = [fires EXCEPT ![e] = @ + 1]
            /\ nextFire' = [nextFire EXCEPT ![e] = g]
        BY <1>3, <2>2 DEF SchedFire
      <3>2. /\ c \in Cadences /\ reading \in Nat /\ now \in Nat /\ reading <= now
            /\ nextFire[e] \in Nat /\ nextFire[e] <= reading /\ fires[e] \in Nat
            /\ fires[e] + 1 <= Occurrences(c, nextFire[e])
        BY <1>t, <2>0, <2>2 DEF SchedTypeOK, OneToCome, Due
      <3> HIDE DEF c, g, e
      <3>3. /\ Occurrences(c, nextFire[e]) \in Nat /\ Occurrences(c, reading) \in Nat
            /\ Occurrences(c, nextFire[e]) <= Occurrences(c, reading)
        BY <3>2, OccurrencesGrow
      <3>4. Occurrences(c, now) \in Nat /\ Occurrences(c, reading) <= Occurrences(c, now)
        BY <3>2, OccurrencesGrow
      <3>5. g \in Nat /\ Occurrences(c, reading) + 1 <= Occurrences(c, g)
        BY <3>2, NextFireAdvances DEF g
      <3>6. Occurrences(c, g) \in Nat
        BY <3>2, <3>5, OccurrencesGrow
      <3>7. fires[e] + 1 <= Occurrences(c, now) /\ fires[e] + 2 <= Occurrences(c, g)
        BY <3>2, <3>3, <3>4, <3>5, <3>6
      <3>8. SchedTypeOK'
        BY <1>t, <2>0, <3>1, <3>5 DEF SchedTypeOK
      <3>9. OneToCome' /\ FiresWithinCadence'
        <4> SUFFICES ASSUME NEW d \in 1..Entries
                     PROVE  /\ fires'[d] + 1 <= Occurrences(cadence[d], nextFire'[d])
                            /\ fires'[d] <= Occurrences(cadence[d], now)
          BY <2>0 DEF OneToCome, FiresWithinCadence
        <4>1. CASE d = e
          <5>1. fires'[d] = fires[e] + 1 /\ nextFire'[d] = g /\ cadence[d] = c
            BY <4>1, <3>1, <1>t DEF SchedTypeOK, c
          <5> QED BY <5>1, <3>2, <3>6, <3>7
        <4>2. CASE d # e
          <5>1. fires'[d] = fires[d] /\ nextFire'[d] = nextFire[d]
            BY <4>2, <3>1, <1>t DEF SchedTypeOK
          <5> QED BY <5>1, <1>t DEF OneToCome, FiresWithinCadence
        <4> QED BY <4>1, <4>2
      <3> QED BY <3>8, <3>9 DEF SchedInv
    <2> QED BY <2>1, <2>2
  <1> QED BY <1>1, <1>2, <1>3 DEF SchedNext

\* However late the loop wakes and however long an enqueue takes, and for any number
\* of entries, cadences and length of a day: no entry is enqueued more often than its
\* cadence has come round.
THEOREM CadenceCorrect == SchedSpec => []FiresWithinCadence
  <1>1. SchedInv => FiresWithinCadence
    BY DEF SchedInv
  <1> QED BY <1>1, SchedInitInv, SchedStepInv, PTL DEF SchedSpec
-----------------------------------------------------------------------------
\* The login throttle.  As for the rate limiter, failures and what is left are counted
\* together; that one at a time overdraws nothing needs the token seen by the check.

Opened == [open : {TRUE}, email : Emails, client : Clients]
Counter == [t : Nat, u : Nat]

\* Only the clients' buckets matter for the bound, and no account's bucket is one.
ThrottleTypeOK ==
    /\ time \in Nat
    /\ \A c \in Clients : c \in DOMAIN counters => counters[c] \in Counter /\ counters[c].u <= time
    /\ attempt \in [Attempts -> {NoAttempt} \cup Opened]
    /\ failed \in [Clients -> Nat]
    /\ overdrawn \in [Clients -> Nat]
    /\ forgiven \in [Clients -> Nat]
    /\ overlapped \subseteq Clients

\* The conserved quantity: what failed and what is left.
ThrottleBudget ==
    \A c \in Clients :
        Window * failed[c] + TokensAt(c) <= Brim(c) + AddressLimit * time + overdrawn[c] + forgiven[c]

\* A client that tries one at a time: what it was checked for is still there.
OneAtATime ==
    \A c \in Clients \ overlapped :
        /\ overdrawn[c] = 0
        /\ \A a, b \in InFlight(c) : a = b
        /\ InFlight(c) # {} => TokensAt(c) >= Window

ThrottleInv == ThrottleTypeOK /\ ThrottleBudget /\ OneAtATime

LEMMA ClientQuota ==
  ASSUME NEW c \in Clients
  PROVE  /\ Limit(c) = AddressLimit /\ AddressLimit \in Nat /\ Window \in Nat \ {0}
         /\ Brim(c) \in Nat /\ Brim(c) >= Window
  <1>1. Limit(c) = AddressLimit
    BY DEF Limit
  <1>2. AddressLimit \in Nat \ {0} /\ Window \in Nat \ {0}
    BY ThrottleConstants
  <1>3. AddressLimit * Window \in Nat /\ AddressLimit * Window >= Window
    BY <1>2
  <1> QED BY <1>1, <1>2, <1>3 DEF Brim

\* The level of a bucket that is there.
LEMMA LevelRange ==
  ASSUME NEW c \in Clients, ThrottleTypeOK
  PROVE  TokensAt(c) \in Nat /\ TokensAt(c) <= Brim(c)
  <1>1. /\ Limit(c) = AddressLimit /\ AddressLimit \in Nat /\ Brim(c) \in Nat
    BY ClientQuota
  <1>2. CASE c \in DOMAIN counters
    <2>1. counters[c].t \in Nat /\ time - counters[c].u \in Nat
      BY <1>2 DEF ThrottleTypeOK, Counter
    <2>2. AddressLimit * (time - counters[c].u) \in Nat
      BY <1>1, <2>1
    <2> QED BY <1>1, <1>2, <2>1, <2>2 DEF TokensAt, Least
  <1>3. CASE c \notin DOMAIN counters
    BY <1>1, <1>3 DEF TokensAt
  <1> QED BY <1>2, <1>3

LEMMA FailureCost == ASSUME NEW n \in Nat
                     PROVE  Window * n \in Nat /\ Window * (n + 1) = Window * n + Window
  BY ThrottleConstants

\* A bucket keeps its level where neither it nor the time changes.
LEMMA LevelKept ==
  ASSUME NEW c \in Clients, time' = time, c \in DOMAIN counters' <=> c \in DOMAIN counters,
         c \in DOMAIN counters => counters'[c] = counters[c]
  PROVE  TokensAt(c)' = TokensAt(c)
  BY DEF TokensAt, Brim, Limit

LEMMA ThrottleInitInv == ThrottleInit => ThrottleInv
  <1> SUFFICES ASSUME ThrottleInit PROVE ThrottleInv
    OBVIOUS
  <1>0. DOMAIN counters = {}
    BY DEF ThrottleInit
  <1>1. ThrottleTypeOK
    BY <1>0 DEF ThrottleInit, ThrottleTypeOK
  <1>2. ASSUME NEW c \in Clients PROVE TokensAt(c) = Brim(c) /\ InFlight(c) = {}
    BY <1>0 DEF ThrottleInit, TokensAt, InFlight, NoAttempt
  <1>3. ThrottleBudget
    <2> SUFFICES ASSUME NEW c \in Clients
                 PROVE  Window * failed[c] + TokensAt(c)
                          <= Brim(c) + AddressLimit * time + overdrawn[c] + forgiven[c]
      BY DEF ThrottleBudget
    <2>1. failed[c] = 0 /\ time = 0 /\ overdrawn[c] = 0 /\ forgiven[c] = 0
      BY DEF ThrottleInit
    <2>2. Window * 0 = 0 /\ AddressLimit * 0 = 0 /\ Brim(c) \in Nat
      BY ClientQuota
    <2> QED BY <1>2, <2>1, <2>2
  <1>4. OneAtATime
    BY <1>2 DEF OneAtATime, ThrottleInit
  <1> QED BY <1>1, <1>3, <1>4 DEF ThrottleInv

\* Steps that leave every client's bucket and its history alone, and open nothing.
LEMMA ClosingKeeps ==
  ASSUME ThrottleInv, UNCHANGED <<time, failed, overdrawn, forgiven, overlapped>>,
         \A c \in Clients : /\ c \in DOMAIN counters' <=> c \in DOMAIN counters
                            /\ c \in DOMAIN counters => counters'[c] = counters[c],
         \/ attempt' = attempt
         \/ \E a \in Attempts : attempt' = [attempt EXCEPT ![a] = NoAttempt]
  PROVE  ThrottleInv'
  <1>t. ThrottleTypeOK /\ ThrottleBudget /\ OneAtATime
    BY DEF ThrottleInv
  <1>1. ThrottleTypeOK'
    BY <1>t DEF ThrottleTypeOK
  <1>2. ASSUME NEW c \in Clients PROVE TokensAt(c)' = TokensAt(c)
    BY LevelKept
  <1>3. ASSUME NEW c \in Clients PROVE InFlight(c)' \subseteq InFlight(c)
    BY <1>t DEF InFlight, ThrottleTypeOK, NoAttempt
  <1>4. ThrottleBudget'
    BY <1>t, <1>2 DEF ThrottleBudget, Brim, Limit
  <1>5. OneAtATime'
    BY <1>t, <1>2, <1>3 DEF OneAtATime
  <1> QED BY <1>1, <1>4, <1>5 DEF ThrottleInv

LEMMA ThrottleStepInv == ThrottleInv /\ [ThrottleNext]_throttleVars => ThrottleInv'
  <1> SUFFICES ASSUME ThrottleInv, [ThrottleNext]_throttleVars PROVE ThrottleInv'
    OBVIOUS
  <1>t. ThrottleTypeOK /\ ThrottleBudget /\ OneAtATime
    BY DEF ThrottleInv
  <1>1. ASSUME NEW a \in Attempts, NEW e \in Emails, NEW c \in Clients, ThrottleCheck(a, e, c)
        PROVE  ThrottleInv'
    <2>0. UNCHANGED <<time, counters, failed, overdrawn, forgiven>> /\ ~attempt[a].open
      BY <1>1 DEF ThrottleCheck
    <2>1. CASE attempt' = attempt /\ overlapped' = overlapped
      BY <2>0, <2>1, ClosingKeeps
    <2>2. CASE ~(attempt' = attempt /\ overlapped' = overlapped)
      <3> DEFINE new == [open |-> TRUE, email |-> e, client |-> c]
      <3>1. /\ TokensAt(c) >= Window /\ attempt' = [attempt EXCEPT ![a] = new]
            /\ overlapped' = IF InFlight(c) # {} THEN overlapped \cup {c} ELSE overlapped
        BY <1>1, <2>2 DEF ThrottleCheck
      <3>2. new \in Opened /\ new.open /\ new.client = c
        BY DEF Opened
      <3> HIDE DEF new
      <3>3. ThrottleTypeOK'
        BY <1>t, <2>0, <3>1, <3>2 DEF ThrottleTypeOK
      <3>4. ASSUME NEW d \in Clients PROVE TokensAt(d)' = TokensAt(d)
        BY <2>0, LevelKept
      <3>5. ThrottleBudget'
        BY <1>t, <2>0, <3>4 DEF ThrottleBudget, Brim, Limit
      <3>6. OneAtATime'
        <4> SUFFICES ASSUME NEW d \in Clients, d \notin overlapped'
                     PROVE  /\ overdrawn[d] = 0
                            /\ \A x, y \in InFlight(d)' : x = y
                            /\ InFlight(d)' # {} => TokensAt(d) >= Window
          BY <2>0, <3>4 DEF OneAtATime
        <4>0. d \notin overlapped
          BY <3>1
        <4>1. CASE d = c
          <5>1. InFlight(d) = {}
            BY <4>1, <3>1
          <5>2. InFlight(d)' \subseteq {a}
            BY <5>1, <3>1, <1>t DEF InFlight, ThrottleTypeOK
          <5> QED BY <4>0, <4>1, <5>2, <3>1, <1>t DEF OneAtATime
        <4>2. CASE d # c
          <5>1. InFlight(d)' \subseteq InFlight(d)
            BY <4>2, <3>1, <3>2, <1>t DEF InFlight, ThrottleTypeOK
          <5> QED BY <4>0, <5>1, <1>t DEF OneAtATime
        <4> QED BY <4>1, <4>2
      <3> QED BY <3>3, <3>5, <3>6 DEF ThrottleInv
    <2> QED BY <2>1, <2>2
  <1>2. ASSUME NEW a \in Attempts, RecordFailure(a) PROVE ThrottleInv'
    <2>1. attempt[a] \in Opened
      BY <1>t, <1>2 DEF ThrottleTypeOK, NoAttempt, RecordFailure
    <2>2. PICK c \in Clients, e \in Emails : attempt[a].client = c /\ attempt[a].email = e
      BY <2>1 DEF Opened
    <2> DEFINE Left(key) == IF key \in Forgotten THEN Brim(key) ELSE TokensAt(key)
    <2>0. /\ attempt[a].open
          /\ counters' = [key \in ((DOMAIN counters) \ Forgotten) \cup Charged(e, c) |->
                 IF key \in Charged(e, c) THEN [t |-> Most(0, Left(key) - Window), u |-> time]
                 ELSE counters[key]]
          /\ failed' = [failed EXCEPT ![c] = @ + 1]
          /\ overdrawn' = [overdrawn EXCEPT ![c] = @ + Most(0, Window - Left(c))]
          /\ forgiven' = [d \in Clients |->
                 IF d \in Forgotten THEN forgiven[d] + Brim(d) - TokensAt(d) ELSE forgiven[d]]
          /\ attempt' = [attempt EXCEPT ![a] = NoAttempt]
          /\ time' = time /\ overlapped' = overlapped
      BY <1>2, <2>2 DEF RecordFailure
    <2>i. a \in InFlight(c)
      BY <2>0, <2>2 DEF InFlight
    <2>3. \A d \in Clients : d \in Charged(e, c) <=> d = c
      BY <2>2, ThrottleConstants DEF Charged
    <2>f. Forgotten \subseteq DOMAIN counters
      BY DEF Forgotten
    <2>4. ASSUME NEW d \in Clients
          PROVE  /\ TokensAt(d) \in Nat /\ TokensAt(d) <= Brim(d) /\ Brim(d) \in Nat
                 /\ Left(d) \in Nat /\ TokensAt(d) <= Left(d) /\ Left(d) <= Brim(d)
                 /\ forgiven'[d] = forgiven[d] + (Left(d) - TokensAt(d))
                 /\ forgiven[d] \in Nat
      <3>1. TokensAt(d) \in Nat /\ TokensAt(d) <= Brim(d) /\ Brim(d) \in Nat
        BY <1>t, LevelRange, ClientQuota
      <3>2. forgiven[d] \in Nat
        BY <1>t DEF ThrottleTypeOK
      <3> QED BY <3>1, <3>2, <2>0
    <2> HIDE DEF Left
    <2>5. /\ c \in DOMAIN counters' /\ counters'[c] = [t |-> Most(0, Left(c) - Window), u |-> time]
      BY <2>0, <2>2, <2>3
    <2>6. ASSUME NEW d \in Clients, d # c
          PROVE  /\ d \in DOMAIN counters' <=> d \in DOMAIN counters /\ d \notin Forgotten
                 /\ d \in DOMAIN counters' => counters'[d] = counters[d]
      BY <2>0, <2>3, <2>6
    <2>w. Window \in Nat \ {0} /\ time \in Nat /\ AddressLimit \in Nat
      BY <1>t, ThrottleConstants DEF ThrottleTypeOK
    <2>7. TokensAt(c)' = Most(0, Left(c) - Window)
      <3>1. Limit(c)' = AddressLimit /\ Brim(c)' = Brim(c)
        BY ClientQuota DEF Limit, Brim
      <3>2. counters'[c].t = Most(0, Left(c) - Window) /\ counters'[c].u = time
        BY <2>5
      <3>3. AddressLimit * (time - time) = 0
        BY <2>w
      <3>4. Most(0, Left(c) - Window) \in Nat /\ Most(0, Left(c) - Window) <= Brim(c)
        BY <2>2, <2>4, <2>w DEF Most
      <3>5. TokensAt(c)' = Least(Brim(c), counters'[c].t + AddressLimit * (time' - counters'[c].u))
        BY <2>5, <3>1 DEF TokensAt
      <3> QED BY <3>2, <3>3, <3>4, <3>5, <2>0, <2>2, <2>4 DEF Least
    <2>8. ASSUME NEW d \in Clients, d # c PROVE TokensAt(d)' = Left(d)
      <3>1. CASE d \in Forgotten
        <4>1. d \notin DOMAIN counters'
          BY <3>1, <2>8, <2>6
        <4> QED BY <4>1, <3>1 DEF TokensAt, Left, Brim, Limit
      <3>2. CASE d \notin Forgotten
        BY <3>2, <2>8, <2>6, <2>0, LevelKept DEF Left
      <3> QED BY <3>1, <3>2
    <2>9. ThrottleTypeOK'
      <3>1. attempt' \in [Attempts -> {NoAttempt} \cup Opened]
        BY <1>t, <2>0 DEF ThrottleTypeOK
      <3>2. failed' \in [Clients -> Nat]
        BY <1>t, <2>0 DEF ThrottleTypeOK
      <3>3. Most(0, Window - Left(c)) \in Nat
        BY <2>2, <2>4, <2>w DEF Most
      <3>4. overdrawn' \in [Clients -> Nat]
        BY <1>t, <2>0, <3>3 DEF ThrottleTypeOK
      <3>5. forgiven' \in [Clients -> Nat]
        <4>1. \A d \in Clients : forgiven'[d] \in Nat
          BY <2>4
        <4> QED BY <4>1, <2>0
      <3>6. Most(0, Left(c) - Window) \in Nat
        BY <2>2, <2>4, <2>w DEF Most
      <3>7. \A d \in Clients : d \in DOMAIN counters' => counters'[d] \in Counter /\ counters'[d].u <= time
        <4> SUFFICES ASSUME NEW d \in Clients, d \in DOMAIN counters'
                     PROVE  counters'[d] \in Counter /\ counters'[d].u <= time
          OBVIOUS
        <4>1. CASE d = c
          BY <4>1, <2>5, <3>6, <2>w DEF Counter
        <4>2. CASE d # c
          BY <4>2, <2>6, <1>t DEF ThrottleTypeOK
        <4> QED BY <4>1, <4>2
      <3> QED BY <1>t, <2>0, <3>1, <3>2, <3>4, <3>5, <3>7 DEF ThrottleTypeOK
    <2>10. ThrottleBudget'
      <3> SUFFICES ASSUME NEW d \in Clients
                   PROVE  Window * failed'[d] + TokensAt(d)'
                            <= Brim(d) + AddressLimit * time + overdrawn'[d] + forgiven'[d]
        BY <2>0 DEF ThrottleBudget, Brim, Limit
      <3>1. /\ Window * failed[d] + TokensAt(d)
                 <= Brim(d) + AddressLimit * time + overdrawn[d] + forgiven[d]
            /\ failed[d] \in Nat /\ overdrawn[d] \in Nat
        BY <1>t DEF ThrottleBudget, ThrottleTypeOK
      <3>2. /\ Window * failed[d] \in Nat /\ Window * (failed[d] + 1) = Window * failed[d] + Window
            /\ AddressLimit * time \in Nat
        <4>1. failed[d] \in Nat
          BY <3>1
        <4>2. Window * failed[d] \in Nat /\ Window * (failed[d] + 1) = Window * failed[d] + Window
          BY ONLY <4>1, FailureCost
        <4>3. AddressLimit \in Nat /\ time \in Nat
          BY <2>w
        <4>4. AddressLimit * time \in Nat
          BY ONLY <4>3
        <4> QED BY ONLY <4>2, <4>4
      <3>3. CASE d = c
        <4>1. /\ failed'[d] = failed[d] + 1
              /\ overdrawn'[d] = overdrawn[d] + Most(0, Window - Left(d))
              /\ TokensAt(d)' = Most(0, Left(d) - Window)
          BY <3>3, <2>0, <2>7, <1>t DEF ThrottleTypeOK
        <4>2. Window + Most(0, Left(d) - Window) = Left(d) + Most(0, Window - Left(d))
          BY <2>4, <2>w DEF Most
        <4>3. Most(0, Left(d) - Window) \in Nat /\ Most(0, Window - Left(d)) \in Nat
          BY <2>4, <2>w DEF Most
        <4> QED BY <4>1, <4>2, <4>3, <3>1, <3>2, <2>4, <2>w
      <3>4. CASE d # c
        <4>1. failed'[d] = failed[d] /\ overdrawn'[d] = overdrawn[d] /\ TokensAt(d)' = Left(d)
          BY <3>4, <2>0, <2>8, <1>t DEF ThrottleTypeOK
        <4> QED BY <4>1, <3>1, <3>2, <2>4
      <3> QED BY <3>3, <3>4
    <2>11. OneAtATime'
      <3> SUFFICES ASSUME NEW d \in Clients, d \notin overlapped
                   PROVE  /\ overdrawn'[d] = 0
                          /\ \A x, y \in InFlight(d)' : x = y
                          /\ InFlight(d)' # {} => TokensAt(d)' >= Window
        BY <2>0 DEF OneAtATime
      <3>1. /\ overdrawn[d] = 0 /\ \A x, y \in InFlight(d) : x = y
            /\ InFlight(d) # {} => TokensAt(d) >= Window
        BY <1>t DEF OneAtATime
      <3>2. InFlight(d)' \subseteq InFlight(d) \ {a}
        BY <2>0, <1>t DEF InFlight, ThrottleTypeOK, NoAttempt
      <3>3. CASE d = c
        <4>1. InFlight(d)' = {}
          BY <3>1, <3>2, <3>3, <2>i
        <4>2. Left(d) >= Window
          BY <3>1, <3>3, <2>i, <2>4, <2>w
        <4>3. overdrawn'[d] = 0 + Most(0, Window - Left(d))
          BY <3>1, <3>3, <2>0, <1>t DEF ThrottleTypeOK
        <4> QED BY <4>1, <4>2, <4>3, <2>4, <2>w DEF Most
      <3>4. CASE d # c
        <4>1. overdrawn'[d] = 0
          BY <3>1, <3>4, <2>0, <1>t DEF ThrottleTypeOK
        <4> QED BY <4>1, <3>1, <3>2, <3>4, <2>4, <2>8, <2>w
      <3> QED BY <3>3, <3>4
    <2> QED BY <2>9, <2>10, <2>11 DEF ThrottleInv
  <1>3. ASSUME NEW a \in Attempts, RecordSuccess(a) \/ Abandon(a) PROVE ThrottleInv'
    <2>1. UNCHANGED <<time, failed, overdrawn, forgiven, overlapped>>
          /\ attempt' = [attempt EXCEPT ![a] = NoAttempt] /\ attempt[a].open
      BY <1>3 DEF RecordSuccess, Abandon
    <2>o. attempt[a] \in Opened
      BY <1>t, <2>1 DEF ThrottleTypeOK, NoAttempt
    <2>2. attempt[a].email \in Emails /\ attempt[a].client \in Clients
      BY <2>o DEF Opened
    <2>3. \A c \in Clients : c \notin Cleared(attempt[a].email, attempt[a].client)
      BY <2>2, ThrottleConstants DEF Cleared
    <2>4. ASSUME NEW c \in Clients
          PROVE  /\ c \in DOMAIN counters' <=> c \in DOMAIN counters
                 /\ c \in DOMAIN counters => counters'[c] = counters[c]
      BY <1>3, <2>3 DEF RecordSuccess, Abandon
    <2> QED BY <2>1, <2>4, ClosingKeeps
  <1>4. CASE ThrottleTick
    <2>0. time' = time + 1
          /\ UNCHANGED <<counters, attempt, failed, overdrawn, forgiven, overlapped>>
      BY <1>4 DEF ThrottleTick
    <2>1. ThrottleTypeOK'
      BY <1>t, <2>0 DEF ThrottleTypeOK, Counter
    <2>2. ASSUME NEW c \in Clients
          PROVE  /\ TokensAt(c) \in Nat /\ TokensAt(c)' \in Nat
                 /\ TokensAt(c) <= TokensAt(c)' /\ TokensAt(c)' <= TokensAt(c) + AddressLimit
      <3>1. /\ Limit(c) = AddressLimit /\ Limit(c)' = AddressLimit /\ Brim(c)' = Brim(c)
            /\ AddressLimit \in Nat /\ Brim(c) \in Nat
        BY ClientQuota DEF Brim, Limit
      <3>2. CASE c \in DOMAIN counters
        <4> DEFINE x == time - counters[c].u
        <4>1. x \in Nat /\ counters[c].t \in Nat /\ time' - counters'[c].u = x + 1
          BY <3>2, <2>0, <1>t DEF ThrottleTypeOK, Counter
        <4>2. TokensAt(c) = Least(Brim(c), counters[c].t + AddressLimit * x)
              /\ TokensAt(c)' = Least(Brim(c), counters[c].t + AddressLimit * (x + 1))
          BY <3>1, <3>2, <2>0, <4>1 DEF TokensAt
        <4> HIDE DEF x
        <4>3. AddressLimit * x \in Nat /\ AddressLimit * (x + 1) = AddressLimit * x + AddressLimit
          BY <4>1, <3>1
        <4> QED BY <4>1, <4>2, <4>3, <3>1 DEF Least
      <3>3. CASE c \notin DOMAIN counters
        BY <3>1, <3>3, <2>0 DEF TokensAt
      <3> QED BY <3>2, <3>3
    <2>3. ThrottleBudget'
      <3> SUFFICES ASSUME NEW c \in Clients
                   PROVE  Window * failed[c] + TokensAt(c)'
                            <= Brim(c) + AddressLimit * (time + 1) + overdrawn[c] + forgiven[c]
        BY <2>0 DEF ThrottleBudget, Brim, Limit
      <3>1. /\ Window * failed[c] + TokensAt(c)
                 <= Brim(c) + AddressLimit * time + overdrawn[c] + forgiven[c]
            /\ failed[c] \in Nat /\ overdrawn[c] \in Nat /\ forgiven[c] \in Nat /\ time \in Nat
        BY <1>t DEF ThrottleBudget, ThrottleTypeOK
      <3>2. /\ AddressLimit \in Nat /\ Brim(c) \in Nat /\ Window * failed[c] \in Nat
        BY <3>1, ClientQuota, FailureCost
      <3>3. AddressLimit * (time + 1) = AddressLimit * time + AddressLimit /\ AddressLimit * time \in Nat
        BY <3>1, <3>2
      <3> QED BY <3>1, <3>2, <3>3, <2>2
    <2>4. OneAtATime'
      <3>1. Window \in Nat
        BY ThrottleConstants
      <3>2. \A c \in Clients : InFlight(c)' = InFlight(c)
        BY <2>0 DEF InFlight
      <3>3. \A c \in Clients : TokensAt(c) >= Window => TokensAt(c)' >= Window
        BY <3>1, <2>2
      <3> QED BY <1>t, <2>0, <3>2, <3>3 DEF OneAtATime
    <2> QED BY <2>1, <2>3, <2>4 DEF ThrottleInv
  <1>5. CASE UNCHANGED throttleVars
    BY <1>5, ClosingKeeps DEF throttleVars
  <1> QED BY <1>1, <1>2, <1>3, <1>4, <1>5 DEF ThrottleNext

\* For any accounts, clients, limits, window, sweep threshold and number of sign-ins in
\* flight: a client's failures are paid for by its bucket, by time, by what the sweep
\* forgave and by what overlapping sign-ins overdrew, and one at a time overdraws nothing.
THEOREM FailuresCorrect == ThrottleSpec => []FailuresPaidFor
  <1>1. ThrottleInv => FailuresPaidFor
    <2> SUFFICES ASSUME ThrottleInv, NEW c \in Clients
                 PROVE  /\ Window * failed[c] <= Brim(c) + AddressLimit * time + overdrawn[c] + forgiven[c]
                        /\ c \notin overlapped => overdrawn[c] = 0
      BY DEF FailuresPaidFor
    <2>1. /\ Window * failed[c] + TokensAt(c)
                 <= Brim(c) + AddressLimit * time + overdrawn[c] + forgiven[c]
          /\ failed[c] \in Nat /\ overdrawn[c] \in Nat /\ forgiven[c] \in Nat /\ time \in Nat
          /\ c \notin overlapped => overdrawn[c] = 0
      BY DEF ThrottleInv, ThrottleBudget, ThrottleTypeOK, OneAtATime
    <2>2. TokensAt(c) \in Nat /\ Brim(c) \in Nat /\ AddressLimit \in Nat /\ Window * failed[c] \in Nat
      BY <2>1, LevelRange, ClientQuota, FailureCost DEF ThrottleInv
    <2>3. AddressLimit * time \in Nat
      BY <2>1, <2>2
    <2> QED BY <2>1, <2>2, <2>3
  <1> QED BY <1>1, ThrottleInitInv, ThrottleStepInv, PTL DEF ThrottleSpec
=============================================================================
