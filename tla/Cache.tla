-------------------------------- MODULE Cache --------------------------------
(***************************************************************************)
(* The cache facade over Redis (cache/store.rs): one key that remember      *)
(* fills while the value it caches is changed and invalidated, and one key  *)
(* that set_if_absent_with_ttl makes a lease of.  Operations name one key   *)
(* each, so two keys are enough.                                           *)
(*                                                                         *)
(* Time passes in ticks, TicksPerSecond to a second.  A Duration is a       *)
(* number of ticks; Redis is told whole seconds.                           *)
(***************************************************************************)
EXTENDS Integers

CONSTANTS Callers,         \* calls of remember in flight at once
          Writers,         \* requests that change the value and invalidate it
          Ttl,             \* the time-to-live remember, put and expire are given
          Holders,         \* processes that take the lease
          LeaseTtl,        \* the time-to-live they take it for
          TicksPerSecond,
          MaxVersion,      \* bound: changes of the value
          MaxCacheTime     \* bound: ticks

ASSUME CacheConstants ==
    /\ Ttl \in Nat \ {0} /\ LeaseTtl \in Nat \ {0} /\ TicksPerSecond \in Nat \ {0}
    /\ MaxVersion \in Nat /\ MaxCacheTime \in Nat

VARIABLES cacheTime,
          truth,     \* the version of the value where it really lives
          entry,     \* the remembered key in Redis
          caller,    \* each call of remember
          writer,    \* each request that changes the value
          lease,     \* the deadline of the lease's key, 0 when it is absent
          holder,    \* until when each holder asked for the lease, 0 when it does not hold it
          late       \* history: a holder forgot the lease after its own time

valueVars == <<truth, entry, caller, writer>>
leaseKeyVars == <<lease, holder, late>>
cacheVars == <<cacheTime, valueVars, leaseKeyVars>>

\* An entry remembers whether its value was overtaken: the key was invalidated
\* while the caller held it, or the invalidation of its change never came.
Gone == [kind |-> "gone"]
Entry(value, expires, overtaken) ==
    [kind |-> "value", value |-> value, expires |-> expires, overtaken |-> overtaken]

Idle == [at |-> "idle"]
Holding(value) == [at |-> "loaded", value |-> value, overtaken |-> FALSE]

CacheInit ==
    /\ cacheTime = 0
    /\ truth = 1
    /\ entry = Gone
    /\ caller = [c \in Callers |-> Idle]
    /\ writer = [w \in Writers |-> Idle]
    /\ lease = 0
    /\ holder = [p \in Holders |-> 0]
    /\ late = FALSE
-----------------------------------------------------------------------------
\* ttl.as_secs(), and the deadline Redis keeps.  Zero seconds are refused by SETEX
\* and SET EX, and delete the key in EXPIRE.
AsSecs(ttl) == ttl \div TicksPerSecond
Deadline(ttl) == cacheTime + AsSecs(ttl) * TicksPerSecond

\* remember, up to its get: a hit returns and changes nothing, a miss runs the
\* loader.  A backend error, or bytes that do not decode, return before it.
RememberGet(c) ==
    /\ caller[c] = Idle
    /\ entry = Gone
    /\ caller' = [caller EXCEPT ![c] = [at |-> "loading"]]
    /\ UNCHANGED <<cacheTime, truth, entry, writer, leaseKeyVars>>

\* The loader reads the value.
LoaderReads(c) ==
    /\ caller[c].at = "loading"
    /\ caller' = [caller EXCEPT ![c] = Holding(truth)]
    /\ UNCHANGED <<cacheTime, truth, entry, writer, leaseKeyVars>>

\* remember's put, over whatever the key holds by now.
RememberPut(c) ==
    /\ caller[c].at = "loaded"
    /\ caller' = [caller EXCEPT ![c] = Idle]
    /\ entry' = IF AsSecs(Ttl) = 0 THEN entry
                ELSE Entry(caller[c].value, Deadline(Ttl), caller[c].overtaken)
    /\ UNCHANGED <<cacheTime, truth, writer, leaseKeyVars>>

\* The loader or the put fails, or the request is dropped.
RememberEnds(c) ==
    /\ caller[c] # Idle
    /\ caller' = [caller EXCEPT ![c] = Idle]
    /\ UNCHANGED <<cacheTime, truth, entry, writer, leaseKeyVars>>

\* A request changes the value; next it forgets the key, or puts what it wrote.
Change(w) ==
    /\ writer[w] = Idle
    /\ truth < MaxVersion
    /\ truth' = truth + 1
    /\ writer' = [writer EXCEPT ![w] = Holding(truth + 1)]
    /\ UNCHANGED <<cacheTime, entry, caller, leaseKeyVars>>

\* Those who hold an old value when the key is invalidated.
Overtake(calls) == [c \in DOMAIN calls |->
    IF calls[c].at = "loaded" /\ calls[c].value # truth
    THEN [calls[c] EXCEPT !.overtaken = TRUE] ELSE calls[c]]

Invalidated(w) ==
    /\ caller' = Overtake(caller)
    /\ writer' = Overtake([writer EXCEPT ![w] = Idle])
    /\ UNCHANGED <<cacheTime, truth, leaseKeyVars>>

\* Mutant: forget resolves another key than remember did.
ForgetElsewhere(w) ==
    /\ writer[w].at = "loaded"
    /\ UNCHANGED entry
    /\ Invalidated(w)

\* forget.
Forget(w) ==
    /\ writer[w].at = "loaded"
    /\ entry' = Gone
    /\ Invalidated(w)

\* put by the request that changed the value.
WriteThrough(w) ==
    /\ writer[w].at = "loaded"
    /\ AsSecs(Ttl) > 0
    /\ entry' = Entry(writer[w].value, Deadline(Ttl), writer[w].overtaken)
    /\ Invalidated(w)

\* The forget or the put is refused by the backend, or never made.
InvalidationLost(w) ==
    /\ writer[w].at = "loaded"
    /\ entry' = IF entry = Gone THEN Gone
                ELSE [entry EXCEPT !.overtaken = @ \/ entry.value # truth]
    /\ Invalidated(w)

\* expire.
SetExpiry ==
    /\ entry # Gone
    /\ entry' = IF AsSecs(Ttl) = 0 THEN Gone ELSE [entry EXCEPT !.expires = Deadline(Ttl)]
    /\ UNCHANGED <<cacheTime, truth, caller, writer, leaseKeyVars>>
-----------------------------------------------------------------------------
\* Mutant: the key is set whether or not it is there.
AcquireOver(p) ==
    /\ holder[p] = 0
    /\ AsSecs(LeaseTtl) > 0
    /\ lease' = Deadline(LeaseTtl)
    /\ holder' = [holder EXCEPT ![p] = cacheTime + LeaseTtl]
    /\ UNCHANGED <<cacheTime, valueVars, late>>

\* set_if_absent_with_ttl that answers true: SET NX EX.
Acquire(p) ==
    /\ holder[p] = 0
    /\ lease = 0
    /\ AsSecs(LeaseTtl) > 0
    /\ lease' = Deadline(LeaseTtl)
    /\ holder' = [holder EXCEPT ![p] = cacheTime + LeaseTtl]
    /\ UNCHANGED <<cacheTime, valueVars, late>>

\* The key is set and the answer lost: a lease nobody holds.
AcquireLost ==
    /\ lease = 0
    /\ AsSecs(LeaseTtl) > 0
    /\ lease' = Deadline(LeaseTtl)
    /\ UNCHANGED <<cacheTime, valueVars, holder, late>>

\* The holder forgets the key, or stops without doing so.  forget compares nothing:
\* it deletes whoever's lease the key is by now.
Release(p, forgets) ==
    /\ holder[p] # 0
    /\ holder' = [holder EXCEPT ![p] = 0]
    /\ lease' = IF forgets THEN 0 ELSE lease
    /\ late' = (late \/ (forgets /\ cacheTime >= holder[p]))
    /\ UNCHANGED <<cacheTime, valueVars>>
-----------------------------------------------------------------------------
\* Time passes, and Redis drops a key at its deadline.
CacheTick ==
    /\ cacheTime < MaxCacheTime
    /\ cacheTime' = cacheTime + 1
    /\ entry' = IF entry # Gone /\ entry.expires = cacheTime + 1 THEN Gone ELSE entry
    /\ lease' = IF lease = cacheTime + 1 THEN 0 ELSE lease
    /\ UNCHANGED <<truth, caller, writer, holder, late>>

CacheNext ==
    \/ \E c \in Callers : RememberGet(c) \/ LoaderReads(c) \/ RememberPut(c) \/ RememberEnds(c)
    \/ \E w \in Writers : Change(w) \/ Forget(w) \/ WriteThrough(w) \/ InvalidationLost(w)
    \/ SetExpiry
    \/ \E p \in Holders : Acquire(p) \/ \E forgets \in BOOLEAN : Release(p, forgets)
    \/ AcquireLost
    \/ CacheTick

CacheSpec == CacheInit /\ [][CacheNext]_cacheVars
-----------------------------------------------------------------------------
\* Once every change has been followed by its forget or its put, an old value is
\* served only when somebody held it across an invalidation (a remember that had
\* loaded it, a slower writer) or when an invalidation was lost.
StaleOnlyIfOvertaken ==
    (entry # Gone /\ (\A w \in Writers : writer[w] = Idle) /\ entry.value # truth)
    => entry.overtaken

\* What a reader of "forget" would rather expect: no old value after it.
NeverStale ==
    (entry # Gone /\ \A w \in Writers : writer[w] = Idle) => entry.value = truth

\* Two holders are never inside the time they took the lease for, as long as nobody
\* forgets the key after its own time and the time is in whole seconds.
LeaseExclusive ==
    (~late /\ LeaseTtl % TicksPerSecond = 0)
    => \A p, q \in Holders : (holder[p] > cacheTime /\ holder[q] > cacheTime) => p = q

\* The same for any time-to-live: what "the atomic lease/lock primitive" promises.
LeaseForItsTime ==
    ~late => \A p, q \in Holders : (holder[p] > cacheTime /\ holder[q] > cacheTime) => p = q
=============================================================================
