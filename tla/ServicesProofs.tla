--------------------------- MODULE ServicesProofs ---------------------------
(***************************************************************************)
(* The cache, notifications and the store migrations, for any number of     *)
(* callers, replicas, connections, versions and ticks.  They share no       *)
(* state; each part below has its own invariant.                           *)
(***************************************************************************)
EXTENDS Cache, Notifications, Migrations, FiniteSetTheorems, TLAPS

Value == [at : {"loaded"}, value : Nat, overtaken : BOOLEAN]
Stored == [kind : {"value"}, value : Nat, expires : Nat, overtaken : BOOLEAN]

ValueTypeOK ==
    /\ cacheTime \in Nat /\ truth \in Nat
    /\ entry \in {Gone} \cup Stored
    /\ caller \in [Callers -> {Idle, [at |-> "loading"]} \cup Value]
    /\ writer \in [Writers -> {Idle} \cup Value]

\* The request that wrote the value of today has still to invalidate the key.
Pending == \E w \in Writers : writer[w].at = "loaded" /\ writer[w].value = truth

\* What holds an old value, the key itself, a call or a slower writer, was
\* overtaken, unless an invalidation is still to come.
StaleInv ==
    \/ Pending
    \/ /\ entry # Gone => entry.value = truth \/ entry.overtaken
       /\ \A c \in Callers : caller[c].at = "loaded" => caller[c].value = truth \/ caller[c].overtaken
       /\ \A w \in Writers : writer[w].at = "loaded" => writer[w].value = truth \/ writer[w].overtaken

ValueInv == ValueTypeOK /\ StaleInv

LEMMA AsSecsType == \A ttl \in Nat : AsSecs(ttl) \in Nat
  BY CacheConstants DEF AsSecs

LEMMA DeadlineType == cacheTime \in Nat => \A ttl \in Nat : Deadline(ttl) \in Nat
<1> SUFFICES ASSUME cacheTime \in Nat, NEW ttl \in Nat PROVE Deadline(ttl) \in Nat
  OBVIOUS
<1>1. AsSecs(ttl) \in Nat /\ TicksPerSecond \in Nat
  BY AsSecsType, CacheConstants
<1> QED BY <1>1 DEF Deadline

LEMMA ValueInvInit == CacheInit => ValueInv
  BY DEF CacheInit, ValueInv, ValueTypeOK, StaleInv, Gone, Idle

\* An invalidation: nobody is left with an old value that was not overtaken.
LEMMA InvalidatedKeeps ==
    ASSUME ValueInv, NEW w \in Writers, writer[w].at = "loaded", Invalidated(w),
           entry' \in {Gone} \cup Stored,
           entry' # Gone => \/ entry'.value = truth \/ entry'.overtaken
                            \/ entry'.value = writer[w].value /\ entry'.overtaken = writer[w].overtaken
    PROVE  ValueInv'
<1>1. /\ truth \in Nat /\ cacheTime \in Nat /\ truth' = truth /\ cacheTime' = cacheTime
      /\ caller \in [Callers -> {Idle, [at |-> "loading"]} \cup Value]
      /\ writer \in [Writers -> {Idle} \cup Value]
      /\ writer[w] \in Value
  BY DEF ValueInv, ValueTypeOK, Invalidated, Idle
<1> DEFINE old(v) == v.at = "loaded" /\ v.value # truth
           over(v) == [v EXCEPT !.overtaken = TRUE]
<1>2. /\ \A v \in Value : over(v) \in Value /\ over(v).value = v.value /\ over(v).overtaken = TRUE
      /\ \A v \in Value : v.at = "loaded" /\ over(v).at = "loaded"
      /\ Idle.at # "loaded" /\ [at |-> "loading"].at # "loaded"
  BY DEF Value, Idle
<1>3. /\ DOMAIN caller' = Callers /\ DOMAIN writer' = Writers
      /\ caller' = [c \in Callers |-> IF old(caller[c]) THEN over(caller[c]) ELSE caller[c]]
      /\ writer' = [x \in Writers |-> IF x = w THEN Idle
                                      ELSE IF old(writer[x]) THEN over(writer[x]) ELSE writer[x]]
  <2>1. caller' = [c \in Callers |-> IF old(caller[c]) THEN over(caller[c]) ELSE caller[c]]
    BY <1>1 DEF Invalidated, Overtake
  <2> DEFINE wr == [writer EXCEPT ![w] = Idle]
  <2>2. DOMAIN wr = Writers /\ \A x \in Writers : wr[x] = IF x = w THEN Idle ELSE writer[x]
    BY <1>1
  <2>3. writer' = [x \in Writers |-> IF old(wr[x]) THEN over(wr[x]) ELSE wr[x]]
    BY <2>2 DEF Invalidated, Overtake
  <2> HIDE DEF wr
  <2>4. \A x \in Writers : (IF old(wr[x]) THEN over(wr[x]) ELSE wr[x]) =
                              (IF x = w THEN Idle
                               ELSE IF old(writer[x]) THEN over(writer[x]) ELSE writer[x])
    BY <1>2, <2>2
  <2> QED BY <2>1, <2>3, <2>4
<1> HIDE DEF over
<1>4. ValueTypeOK'
  <2>1. caller' \in [Callers -> {Idle, [at |-> "loading"]} \cup Value]
    BY <1>1, <1>2, <1>3
  <2>2. writer' \in [Writers -> {Idle} \cup Value]
    BY <1>1, <1>2, <1>3
  <2> QED BY <1>1, <2>1, <2>2 DEF ValueTypeOK
<1>5. \A c \in Callers : caller'[c].at = "loaded" => caller'[c].value = truth \/ caller'[c].overtaken
  BY <1>1, <1>2, <1>3
<1>6. \A x \in Writers : writer'[x].at = "loaded" => writer'[x].value = truth \/ writer'[x].overtaken
  BY <1>1, <1>2, <1>3
<1>7. Pending' \/ (entry' # Gone => entry'.value = truth \/ entry'.overtaken)
  <2>1. CASE writer[w].value = truth \/ writer[w].overtaken
    BY <2>1
  <2>2. CASE ~(writer[w].value = truth \/ writer[w].overtaken)
    <3>1. Pending
      BY <2>2 DEF ValueInv, StaleInv
    <3>2. PICK x \in Writers : writer[x].at = "loaded" /\ writer[x].value = truth
      BY <3>1 DEF Pending
    <3>3. writer'[x] = writer[x]
      BY <1>3, <2>2, <3>2
    <3> QED BY <1>1, <3>2, <3>3 DEF Pending
  <2> QED BY <2>1, <2>2
<1>8. StaleInv'
  BY <1>1, <1>5, <1>6, <1>7 DEF StaleInv
<1> QED BY <1>4, <1>8 DEF ValueInv

LEMMA ValueInvStep == ValueInv /\ [CacheNext]_cacheVars => ValueInv'
<1> SUFFICES ASSUME ValueInv, [CacheNext]_cacheVars PROVE ValueInv'
  OBVIOUS
<1> USE DEF ValueInv
<1>0. /\ truth \in Nat /\ cacheTime \in Nat /\ entry \in {Gone} \cup Stored
      /\ caller \in [Callers -> {Idle, [at |-> "loading"]} \cup Value]
      /\ writer \in [Writers -> {Idle} \cup Value]
  BY DEF ValueTypeOK
<1>a. \A c \in Callers : caller[c].at = "loaded" => caller[c] \in Value
  BY <1>0 DEF Idle
<1>b. \A w \in Writers : writer[w].at = "loaded" => writer[w] \in Value
  BY <1>0 DEF Idle
<1>c. \A n \in Nat : Holding(n) \in Value /\ Holding(n).value = n /\ Holding(n).at = "loaded"
  BY DEF Holding, Value
<1>1. ASSUME NEW c \in Callers, RememberGet(c) PROVE ValueInv'
  BY <1>0, <1>1 DEF RememberGet, ValueTypeOK, StaleInv, Pending
<1>2. ASSUME NEW c \in Callers, LoaderReads(c) PROVE ValueInv'
  <2>1. UNCHANGED <<cacheTime, truth, entry, writer>> /\ caller' = [caller EXCEPT ![c] = Holding(truth)]
    BY <1>2 DEF LoaderReads
  <2>2. ValueTypeOK'
    BY <1>0, <1>c, <2>1 DEF ValueTypeOK
  <2> QED BY <1>0, <1>c, <2>1, <2>2 DEF StaleInv, Pending
<1>3. ASSUME NEW c \in Callers, RememberPut(c) PROVE ValueInv'
  <2> DEFINE e == Entry(caller[c].value, Deadline(Ttl), caller[c].overtaken)
  <2>1. /\ UNCHANGED <<cacheTime, truth, writer>> /\ caller' = [caller EXCEPT ![c] = Idle]
        /\ entry' = entry \/ (entry' = e /\ caller[c] \in Value /\ caller[c].at = "loaded")
    BY <1>3, <1>a DEF RememberPut
  <2>2. caller[c] \in Value =>
          e \in Stored /\ e # Gone /\ e.value = caller[c].value /\ e.overtaken = caller[c].overtaken
    BY <1>0, DeadlineType, CacheConstants DEF Entry, Stored, Value, Gone
  <2> HIDE DEF e
  <2>3. ValueTypeOK'
    BY <1>0, <2>1, <2>2 DEF ValueTypeOK
  <2> QED BY <1>0, <2>1, <2>2, <2>3 DEF StaleInv, Pending, Idle
<1>4. ASSUME NEW c \in Callers, RememberEnds(c) PROVE ValueInv'
  BY <1>0, <1>4 DEF RememberEnds, ValueTypeOK, StaleInv, Pending, Idle
<1>5. ASSUME NEW w \in Writers, Change(w) PROVE ValueInv'
  <2>1. /\ UNCHANGED <<cacheTime, entry, caller>> /\ truth' = truth + 1
        /\ writer' = [writer EXCEPT ![w] = Holding(truth + 1)]
    BY <1>5 DEF Change
  <2>2. ValueTypeOK'
    BY <1>0, <1>c, <2>1 DEF ValueTypeOK
  <2>3. Pending'
    BY <1>0, <1>c, <2>1 DEF Pending
  <2> QED BY <2>2, <2>3 DEF StaleInv
<1>6. ASSUME NEW w \in Writers, Forget(w) PROVE ValueInv'
  BY <1>6, InvalidatedKeeps DEF Forget
<1>7. ASSUME NEW w \in Writers, WriteThrough(w) PROVE ValueInv'
  <2>1. /\ entry' \in Stored /\ entry'.value = writer[w].value
        /\ entry'.overtaken = writer[w].overtaken
    BY <1>0, <1>b, <1>7, DeadlineType, CacheConstants DEF WriteThrough, Entry, Stored, Value
  <2> QED BY <1>7, <2>1, InvalidatedKeeps DEF WriteThrough
<1>8. ASSUME NEW w \in Writers, InvalidationLost(w) PROVE ValueInv'
  <2>1. \/ entry' = Gone
        \/ /\ entry' \in Stored /\ entry # Gone /\ entry \in Stored
           /\ entry'.value = truth \/ entry'.overtaken
    <3>1. CASE entry = Gone
      BY <1>8, <3>1 DEF InvalidationLost
    <3>2. CASE entry # Gone
      <4>1. entry \in Stored /\ entry' = [entry EXCEPT !.overtaken = entry.overtaken \/ entry.value # truth]
        BY <1>0, <1>8, <3>2 DEF InvalidationLost
      <4>2. (entry.overtaken \/ entry.value # truth) \in BOOLEAN
        OBVIOUS
      <4>3. entry' \in Stored /\ entry'.value = entry.value
        BY <4>1, <4>2 DEF Stored
      <4>4. entry'.overtaken = (entry.overtaken \/ entry.value # truth)
        BY <4>1 DEF Stored
      <4> QED BY <3>2, <4>1, <4>3, <4>4
    <3> QED BY <3>1, <3>2
  <2> QED BY <1>8, <2>1, InvalidatedKeeps DEF InvalidationLost
<1>9. ASSUME SetExpiry PROVE ValueInv'
  <2>1. /\ UNCHANGED <<cacheTime, truth, caller, writer>> /\ entry \in Stored
        /\ entry' = Gone \/ entry' = [entry EXCEPT !.expires = Deadline(Ttl)]
    BY <1>0, <1>9 DEF SetExpiry
  <2>2. Deadline(Ttl) \in Nat
    BY <1>0, DeadlineType, CacheConstants
  <2>3. entry' = Gone \/ (entry' \in Stored /\ entry'.value = entry.value /\ entry'.overtaken = entry.overtaken)
    BY <2>1, <2>2 DEF Stored
  <2>4. entry # Gone
    BY <1>9 DEF SetExpiry
  <2> QED BY <2>1, <2>3, <2>4 DEF ValueTypeOK, StaleInv, Pending
<1>10. ASSUME CacheTick PROVE ValueInv'
  BY <1>10 DEF CacheTick, ValueTypeOK, StaleInv, Pending
<1>11. CASE UNCHANGED <<cacheTime, valueVars>>
  BY <1>11 DEF valueVars, ValueTypeOK, StaleInv, Pending
<1>12. ASSUME NEW p \in Holders, \/ Acquire(p) \/ \E forgets \in BOOLEAN : Release(p, forgets)
                                \/ AcquireLost
       PROVE  UNCHANGED <<cacheTime, valueVars>>
  BY <1>12 DEF Acquire, Release, AcquireLost
<1>13. AcquireLost => UNCHANGED <<cacheTime, valueVars>>
  BY DEF AcquireLost
<1> QED BY <1>1, <1>2, <1>3, <1>4, <1>5, <1>6, <1>7, <1>8, <1>9, <1>10, <1>11, <1>12, <1>13
        DEF CacheNext, cacheVars

\* However many calls of remember and writers race, an old value is served after
\* the invalidations only when somebody held it across one, or one was lost.
THEOREM StaleCorrect == CacheSpec => []StaleOnlyIfOvertaken
<1>1. ValueInv => StaleOnlyIfOvertaken
  BY DEF ValueInv, StaleInv, StaleOnlyIfOvertaken, Pending, Idle
<1> QED BY ValueInvInit, ValueInvStep, <1>1, PTL DEF CacheSpec
-----------------------------------------------------------------------------
\* As long as nobody forgot the key late, whoever is inside its time holds the key,
\* and nobody else does.
LeaseInv ==
    /\ cacheTime \in Nat /\ holder \in [Holders -> Nat] /\ lease \in Nat
    /\ (~late /\ LeaseTtl % TicksPerSecond = 0) =>
          /\ \A p \in Holders : holder[p] > cacheTime => lease = holder[p]
          /\ \A p, q \in Holders : (holder[p] > cacheTime /\ holder[q] > cacheTime) => p = q

LEMMA WholeSeconds ==
    LeaseTtl % TicksPerSecond = 0 => AsSecs(LeaseTtl) * TicksPerSecond = LeaseTtl
<1>1. LeaseTtl \in Nat /\ TicksPerSecond \in Nat \ {0}
  BY CacheConstants
<1> QED BY <1>1 DEF AsSecs

LEMMA LeaseInvStep == LeaseInv /\ [CacheNext]_cacheVars => LeaseInv'
<1> SUFFICES ASSUME LeaseInv, [CacheNext]_cacheVars PROVE LeaseInv'
  OBVIOUS
<1> USE DEF LeaseInv
<1>0. Deadline(LeaseTtl) \in Nat /\ LeaseTtl \in Nat \ {0}
      /\ (LeaseTtl % TicksPerSecond = 0 => Deadline(LeaseTtl) = cacheTime + LeaseTtl)
  BY DeadlineType, WholeSeconds, CacheConstants DEF Deadline
<1>1. ASSUME NEW p \in Holders, Acquire(p) PROVE LeaseInv'
  BY <1>0, <1>1 DEF Acquire
<1>2. ASSUME NEW p \in Holders, NEW forgets \in BOOLEAN, Release(p, forgets) PROVE LeaseInv'
  <2>1. /\ cacheTime' = cacheTime /\ holder[p] # 0
        /\ holder' = [holder EXCEPT ![p] = 0]
        /\ lease' = 0 \/ lease' = lease
    BY <1>2 DEF Release
  <2>3. ASSUME ~late' PROVE ~late /\ (lease' = lease \/ holder[p] > cacheTime)
    <3>1. ~late /\ ~(forgets /\ cacheTime >= holder[p])
      BY <1>2, <2>3 DEF Release
    <3>2. CASE forgets
      BY <3>1, <3>2
    <3>3. CASE ~forgets
      BY <1>2, <3>1, <3>3 DEF Release
    <3> QED BY <3>2, <3>3
  <2> QED BY <2>1, <2>3
<1>3. ASSUME AcquireLost PROVE LeaseInv'
  BY <1>0, <1>3 DEF AcquireLost
<1>4. ASSUME CacheTick PROVE LeaseInv'
  BY <1>4 DEF CacheTick
<1>5. CASE UNCHANGED <<cacheTime, leaseKeyVars>>
  BY <1>5 DEF leaseKeyVars
<1>6. ASSUME NEW c \in Callers, RememberGet(c) \/ LoaderReads(c) \/ RememberPut(c) \/ RememberEnds(c)
      PROVE  UNCHANGED <<cacheTime, leaseKeyVars>>
  BY <1>6 DEF RememberGet, LoaderReads, RememberPut, RememberEnds
<1>7. ASSUME NEW w \in Writers, Change(w) \/ Forget(w) \/ WriteThrough(w) \/ InvalidationLost(w)
      PROVE  UNCHANGED <<cacheTime, leaseKeyVars>>
  BY <1>7 DEF Change, Forget, WriteThrough, InvalidationLost, Invalidated
<1>8. SetExpiry => UNCHANGED <<cacheTime, leaseKeyVars>>
  BY DEF SetExpiry
<1> QED BY <1>1, <1>2, <1>3, <1>4, <1>5, <1>6, <1>7, <1>8 DEF CacheNext, cacheVars

\* A lease for whole seconds is exclusive for its time, unless a holder forgets the
\* key after its own time is over.
THEOREM LeaseCorrect == CacheSpec => []LeaseExclusive
<1>1. CacheInit => LeaseInv
  BY DEF CacheInit, LeaseInv
<1>2. LeaseInv => LeaseExclusive
  BY DEF LeaseInv, LeaseExclusive
<1> QED BY LeaseInvStep, <1>1, <1>2, PTL DEF CacheSpec
-----------------------------------------------------------------------------
Channel == {"database", "broadcast", "mail"}
Made == [at : Channel \cup {"publish", "ok", "failed"}, key : Keys, wants : SUBSET Channel,
         queued : BOOLEAN, channel : Nat]
Joined == [key : Keys, channel : Nat \ {0}]

NoteTypeOK ==
    /\ call \in [Calls -> {Fresh} \cup Made]
    /\ DOMAIN row = Calls
    /\ channels \in [Keys -> Nat] /\ created \in Nat
    /\ subscribed \in [Connections -> {Off} \cup Joined]

\* The row is there, or its recipient is done with it.
Kept(c) == row[c] # "none" \/ <<c, call[c].key>> \in dismissed

\* A call that has passed the inbox left its row there; nothing goes out before it; and
\* a row is read only if its recipient marked it.
InboxInv ==
    /\ \A c \in Calls :
          /\ call[c].at \in {"none", "database"} => c \notin out /\ row[c] = "none"
          /\ call[c].at \in {"broadcast", "publish", "mail", "ok"} /\ "database" \in call[c].wants
                => Kept(c)
          /\ row[c] = "read" => <<c, call[c].key>> \in dismissed
    /\ InboxKeeps

NoteInv == NoteTypeOK /\ InboxInv /\ SubscribersReachable

\* The steps of a call that only move it on.
LEMMA CallMoves ==
    ASSUME NoteInv, NEW c \in Calls, NEW v \in Made, call[c] \in Made, DOMAIN row' = Calls,
           call' = [call EXCEPT ![c] = v], v.key = call[c].key,
           call[c].at \in {"database", "broadcast", "publish", "mail"}, v.at # "database",
           "database" \in v.wants => "database" \in call[c].wants,
           \A d \in Calls : d # c => (row'[d] = row[d] /\ (d \in out' <=> d \in out)),
           call[c].at = "database" => /\ out' = out /\ row'[c] \in {"none", "unread"}
                                      /\ v.at # "failed" /\ "database" \in v.wants => row'[c] = "unread",
           call[c].at # "database" => row'[c] = row[c],
           UNCHANGED <<dismissed, channels, created, subscribed>>
    PROVE  NoteInv'
<1> USE DEF NoteInv
<1>1. NoteTypeOK'
  BY DEF NoteTypeOK
<1>2. SubscribersReachable'
  BY DEF SubscribersReachable
<1>3. \A d \in Calls : d # c => call'[d] = call[d]
  BY DEF NoteTypeOK
<1>4. call'[c] = v /\ v.at \in {"broadcast", "publish", "mail", "ok", "failed"}
  BY DEF NoteTypeOK, Made, Channel
<1>6. InboxInv'
  <2> SUFFICES ASSUME NEW d \in Calls
               PROVE  /\ call'[d].at \in {"none", "database"} => d \notin out' /\ row'[d] = "none"
                      /\ call'[d].at \in {"broadcast", "publish", "mail", "ok"} /\ "database" \in call'[d].wants
                            => row'[d] # "none" \/ <<d, call'[d].key>> \in dismissed
                      /\ row'[d] = "read" => <<d, call'[d].key>> \in dismissed
                      /\ call'[d] # Fresh /\ "database" \in call'[d].wants /\ d \in out'
                            => row'[d] # "none" \/ <<d, call'[d].key>> \in dismissed
    BY DEF InboxInv, InboxKeeps, Kept
  <2>1. CASE d # c
    BY <1>3, <2>1 DEF InboxInv, InboxKeeps, Kept
  <2>2. CASE d = c
    <3>1. CASE call[c].at = "database"
      <4>1. c \notin out'
        BY <3>1 DEF InboxInv
      <4> QED BY <1>4, <2>2, <3>1, <4>1
    <3>2. CASE call[c].at # "database"
      <4>1. /\ "database" \in v.wants => row'[c] # "none" \/ <<c, v.key>> \in dismissed
            /\ row'[c] = "read" => <<c, v.key>> \in dismissed
        BY <3>2 DEF InboxInv, Kept
      <4> QED BY <1>4, <2>2, <4>1
    <3> QED BY <3>1, <3>2
  <2> QED BY <2>1, <2>2
<1> QED BY <1>1, <1>2, <1>6

\* The inbox operations, and the mail job: calls stay, and a row goes, or is read, only
\* with its recipient's doing.
LEMMA InboxMoves ==
    ASSUME NoteInv, DOMAIN row' = Calls, UNCHANGED <<call, out, channels, created, subscribed>>,
           dismissed \subseteq dismissed',
           \A c \in Calls : \/ row'[c] = row[c]
                            \/ row[c] # "none" /\ <<c, call[c].key>> \in dismissed'
    PROVE  NoteInv'
<1> USE DEF NoteInv
<1>1. NoteTypeOK' /\ SubscribersReachable'
  BY DEF NoteTypeOK, SubscribersReachable
<1>2. InboxInv'
  BY DEF InboxInv, InboxKeeps, Kept
<1> QED BY <1>1, <1>2

LEMMA NoteInvStep == NoteInv /\ [NoteNext]_noteVars => NoteInv'
<1> SUFFICES ASSUME NoteInv, [NoteNext]_noteVars PROVE NoteInv'
  OBVIOUS
<1>0. /\ call \in [Calls -> {Fresh} \cup Made] /\ DOMAIN row = Calls
      /\ channels \in [Keys -> Nat] /\ created \in Nat
      /\ subscribed \in [Connections -> {Off} \cup Joined]
  BY DEF NoteInv, NoteTypeOK
<1>1. \A c \in Calls : call[c].at # "none" => call[c] \in Made
  BY <1>0 DEF Fresh
<1>2. ASSUME NEW c \in Calls, NEW key \in Keys, NEW wants \in SUBSET Channel, NEW queued \in BOOLEAN,
             BeginSend(c, key, wants, queued)
      PROVE  NoteInv'
  <2> DEFINE v == [at |-> "database", key |-> key, wants |-> wants, queued |-> queued, channel |-> 0]
  <2>1. v \in Made /\ v.at = "database"
    BY DEF Made, Channel
  <2>2. /\ call' = [call EXCEPT ![c] = v] /\ call[c] = Fresh
        /\ UNCHANGED <<row, out, dismissed, channels, created, subscribed>>
    BY <1>2 DEF BeginSend
  <2>3. c \notin out /\ row[c] = "none"
    <3>1. call[c].at = "none"
      BY <2>2 DEF Fresh
    <3>2. \A d \in Calls : call[d].at \in {"none", "database"} => d \notin out /\ row[d] = "none"
      BY DEF NoteInv, InboxInv
    <3> QED BY <3>1, <3>2
  <2> HIDE DEF v
  <2>4. NoteTypeOK' /\ SubscribersReachable'
    BY <2>1, <2>2 DEF NoteInv, NoteTypeOK, SubscribersReachable
  <2>5. InboxInv'
    BY <1>0, <2>1, <2>2, <2>3 DEF NoteInv, InboxInv, InboxKeeps, Kept
  <2> QED BY <2>4, <2>5 DEF NoteInv
<1>3. ASSUME NEW c \in Calls, NEW result \in {"ok", "failed"}, call[c] \in Made
      PROVE  /\ Returned(call[c], result) \in Made /\ Returned(call[c], result).at = result
             /\ Returned(call[c], result).key = call[c].key
             /\ "database" \in Returned(call[c], result).wants => "database" \in call[c].wants
  BY <1>3 DEF Returned, Made
<1>4. ASSUME NEW c \in Calls, ChannelFails(c) PROVE NoteInv'
  <2> DEFINE v == Returned(call[c], "failed")
  <2>1. /\ call' = [call EXCEPT ![c] = v] /\ UNCHANGED <<dismissed, channels, created, subscribed>>
        /\ call[c] \in Made /\ call[c].at \in {"database", "broadcast", "mail"}
    BY <1>1, <1>4 DEF ChannelFails
  <2>2. v \in Made /\ v.at = "failed" /\ v.key = call[c].key
        /\ ("database" \in v.wants => "database" \in call[c].wants)
    BY <1>3, <2>1
  <2>3. /\ DOMAIN row' = Calls
        /\ \A d \in Calls : d # c => (row'[d] = row[d] /\ (d \in out' <=> d \in out))
        /\ call[c].at = "database" => out' = out /\ row'[c] \in {row[c], "unread"}
        /\ call[c].at # "database" => row'[c] = row[c]
    BY <1>0, <1>4 DEF ChannelFails, Inboxed, Mailed
  <2>4. call[c].at = "database" => row[c] = "none"
    BY DEF NoteInv, InboxInv
  <2> HIDE DEF v
  <2> QED BY <2>1, <2>2, <2>3, <2>4, CallMoves
<1>5. ASSUME NEW c \in Calls, StoreRow(c) PROVE NoteInv'
  <2> DEFINE v == [call[c] EXCEPT !.at = "broadcast"]
  <2>1. /\ call[c] \in Made /\ call[c].at = "database" /\ call' = [call EXCEPT ![c] = v] /\ out' = out
        /\ UNCHANGED <<dismissed, channels, created, subscribed>>
    BY <1>1, <1>5 DEF StoreRow
  <2>2. v \in Made /\ v.at = "broadcast" /\ v.wants = call[c].wants /\ v.key = call[c].key
    BY <2>1 DEF Made, Channel
  <2>3. /\ DOMAIN row' = Calls /\ \A d \in Calls : d # c => row'[d] = row[d]
        /\ row'[c] \in {row[c], "unread"} /\ ("database" \in call[c].wants => row'[c] = "unread")
    BY <1>0, <1>5 DEF StoreRow, Inboxed
  <2>4. row[c] = "none"
    BY <2>1 DEF NoteInv, InboxInv
  <2> HIDE DEF v
  <2> QED BY <2>1, <2>2, <2>3, <2>4, CallMoves
<1>6. ASSUME NEW c \in Calls, FindChannel(c) PROVE NoteInv'
  <2> DEFINE at == IF "broadcast" \in call[c].wants /\ channels[call[c].key] # 0 THEN "publish" ELSE "mail"
             channel == IF "broadcast" \in call[c].wants THEN channels[call[c].key] ELSE 0
             v == [call[c] EXCEPT !.at = at, !.channel = channel]
  <2>1. /\ call[c] \in Made /\ call[c].at = "broadcast"
        /\ UNCHANGED <<row, out, dismissed, channels, created, subscribed>>
    BY <1>1, <1>6 DEF FindChannel
  <2>2. call' = [call EXCEPT ![c] = v]
    BY <1>0, <1>6 DEF FindChannel
  <2>3. at \in {"publish", "mail"} /\ channel \in Nat
    BY <1>0, <2>1 DEF Made
  <2> HIDE DEF at, channel
  <2>4. v \in Made /\ v.at = at /\ v.wants = call[c].wants /\ v.key = call[c].key
    BY <2>1, <2>3 DEF Made, Channel
  <2> HIDE DEF v
  <2> QED BY <1>0, <2>1, <2>2, <2>3, <2>4, CallMoves
<1>7. ASSUME NEW c \in Calls, Publish(c) PROVE NoteInv'
  <2> DEFINE v == [call[c] EXCEPT !.at = "mail", !.channel = 0]
  <2>1. /\ call[c] \in Made /\ call[c].at = "publish" /\ out' \in {out, out \cup {c}}
        /\ UNCHANGED <<row, dismissed, channels, created, subscribed>>
    BY <1>1, <1>7 DEF Publish
  <2>2. call' = [call EXCEPT ![c] = v]
    BY <1>0, <1>7 DEF Publish
  <2>3. v \in Made /\ v.at = "mail" /\ v.wants = call[c].wants /\ v.key = call[c].key
    BY <2>1 DEF Made, Channel
  <2> HIDE DEF v
  <2> QED BY <1>0, <2>1, <2>2, <2>3, CallMoves
<1>8. ASSUME NEW c \in Calls, SendMail(c) PROVE NoteInv'
  <2> DEFINE v == Returned(call[c], "ok")
  <2>1. /\ call' = [call EXCEPT ![c] = v] /\ call[c] \in Made /\ call[c].at = "mail"
        /\ out' \in {out, out \cup {c}} /\ UNCHANGED <<row, dismissed, channels, created, subscribed>>
    BY <1>1, <1>8 DEF SendMail, Mailed
  <2>2. v \in Made /\ v.at = "ok" /\ v.key = call[c].key /\ ("database" \in v.wants => "database" \in call[c].wants)
    BY <1>3, <2>1
  <2> HIDE DEF v
  <2> QED BY <1>0, <2>1, <2>2, CallMoves
<1>9. ASSUME NEW c \in Calls, NEW o, RunMailJob(c, o) PROVE NoteInv'
  BY <1>0, <1>9, InboxMoves DEF RunMailJob
<1>10. ASSUME NEW k \in Keys, NEW rows \in SUBSET Calls, MarkRead(k, rows) \/ DeleteRows(k, rows)
       PROVE  NoteInv'
  <2>1. \A c \in rows : row[c] # "none" /\ call[c].key = k
    BY <1>10 DEF MarkRead, DeleteRows, InboxOf
  <2> QED BY <1>10, <2>1, InboxMoves DEF MarkRead, DeleteRows
<1>11. ASSUME NEW old \in SUBSET Calls, PruneRead(old) PROVE NoteInv'
  <2>1. \A c \in Calls : row[c] = "read" => <<c, call[c].key>> \in dismissed
    BY DEF NoteInv, InboxInv
  <2> QED BY <1>11, <2>1, InboxMoves DEF PruneRead
<1>12. ASSUME UNCHANGED <<call, row, out, dismissed>>, NoteTypeOK', SubscribersReachable' PROVE NoteInv'
  BY <1>12 DEF NoteInv, InboxInv, InboxKeeps, Kept
<1>13. ASSUME NEW x \in Connections, Disconnect(x) PROVE NoteInv'
  <2>1. UNCHANGED <<call, row, out, dismissed, channels, created>> /\ subscribed' = [subscribed EXCEPT ![x] = Off]
    BY <1>13 DEF Disconnect
  <2>2. NoteTypeOK' /\ SubscribersReachable'
    BY <1>0, <2>1 DEF NoteInv, NoteTypeOK, SubscribersReachable
  <2> QED BY <1>12, <2>1, <2>2
<1>14. ASSUME NEW x \in Connections, NEW k \in Keys, Subscribe(x, k) PROVE NoteInv'
  <2> DEFINE ch == ChannelOf(k)
             j == [key |-> k, channel |-> ch]
  <2>1. ch \in Nat \ {0} /\ (channels[k] # 0 => ch = channels[k])
    BY <1>0 DEF ChannelOf
  <2>2. /\ UNCHANGED <<call, row, out, dismissed>> /\ created' \in {ch, created}
        /\ channels' = [i \in Keys |-> IF i = k THEN ch
                          ELSE IF Subscribers(channels[i]) = {} THEN 0 ELSE channels[i]]
        /\ subscribed' = [subscribed EXCEPT ![x] = j]
    BY <1>14 DEF Subscribe
  <2> HIDE DEF ch
  <2>3. j \in Joined /\ j.key = k /\ j.channel = ch
    BY <2>1 DEF Joined
  <2>4. channels' \in [Keys -> Nat] /\ channels'[k] = ch
    BY <1>0, <2>1, <2>2
  <2> HIDE DEF j
  <2>5. NoteTypeOK'
    BY <1>0, <2>1, <2>2, <2>3, <2>4 DEF NoteTypeOK
  <2>6. SubscribersReachable'
    <3> SUFFICES ASSUME NEW y \in Connections, subscribed'[y] # Off
                 PROVE  subscribed'[y].channel = channels'[subscribed'[y].key]
      BY DEF SubscribersReachable
    <3>1. CASE y = x
      BY <1>0, <2>2, <2>3, <2>4, <3>1
    <3>2. CASE y # x
      <4>1. subscribed'[y] = subscribed[y] /\ subscribed[y] \in Joined
        BY <1>0, <2>2, <3>2
      <4>2. /\ subscribed[y].channel = channels[subscribed[y].key]
            /\ subscribed[y].channel # 0 /\ subscribed[y].key \in Keys
        BY <4>1 DEF NoteInv, SubscribersReachable, Joined
      <4>3. Subscribers(channels[subscribed[y].key]) # {}
        BY <4>2 DEF Subscribers
      <4> QED BY <2>1, <2>2, <4>1, <4>2, <4>3
    <3> QED BY <3>1, <3>2
  <2> QED BY <1>12, <2>2, <2>5, <2>6
<1>15. CASE UNCHANGED noteVars
  BY <1>0, <1>15, InboxMoves DEF noteVars
<1> QED BY <1>2, <1>4, <1>5, <1>6, <1>7, <1>8, <1>9, <1>10, <1>11, <1>13, <1>14, <1>15
        DEF NoteNext, Channel

\* The invariant of the calls, the inbox and the channels holds throughout.
THEOREM NoteInvariant == NoteSpec => []NoteInv
<1>1. NoteInit => NoteInv
  <2> SUFFICES ASSUME NoteInit PROVE NoteInv
    OBVIOUS
  <2>1. NoteTypeOK
    BY DEF NoteInit, NoteTypeOK
  <2>2. InboxInv
    BY DEF NoteInit, InboxInv, InboxKeeps, Kept, Fresh
  <2>3. SubscribersReachable
    BY DEF NoteInit, SubscribersReachable
  <2> QED BY <2>1, <2>2, <2>3 DEF NoteInv
<1> QED BY NoteInvStep, <1>1, PTL DEF NoteSpec

\* What went out is in the inbox if it was meant for it, whatever failed after it.
THEOREM InboxCorrect == NoteSpec => []InboxKeeps
<1>1. NoteInv => InboxKeeps
  BY DEF NoteInv, InboxInv
<1> QED BY NoteInvariant, <1>1, PTL

\* A subscribed connection is on the channel a push finds.
THEOREM SubscribersCorrect == NoteSpec => []SubscribersReachable
<1>1. NoteInv => SubscribersReachable
  BY DEF NoteInv
<1> QED BY NoteInvariant, <1>1, PTL
-----------------------------------------------------------------------------
\* The statements 1..n have been run.
Segment(S) == \E n \in 0..Statements : S = 1..n

Places == {"history", "creating", "lock", "count", "apply", "unlock", "commit", "ok"}
Under == [at : Places, tx : BOOLEAN, made : SUBSET (1..Statements), record : BOOLEAN,
          mine : BOOLEAN]

\* What a call sees is a beginning of the migration, and the whole of it once it is
\* about to let go of the lock; what its transaction records comes after that.
CallOk(v, tables) ==
    /\ Segment(tables \cup v.made)
    /\ ~(v.tx /\ dialect # "mysql") => v.made = {}
    /\ v.record => v.at \in {"unlock", "commit", "ok"}
    /\ v.at \in {"unlock", "commit"} => tables \cup v.made = 1..Statements
    /\ v.at = "ok" => tables = 1..Statements

\* The committed schema is a beginning of the migration, and all of it once the
\* version is recorded.
MigrateInv ==
    /\ replica \in [Replicas -> {[at |-> "idle"], [at |-> "failed"]} \cup Under]
    /\ Segment(schema)
    /\ recorded => schema = 1..Statements
    /\ \A r \in Replicas : replica[r] \in Under => CallOk(replica[r], schema)

LEMMA SegmentFacts ==
    /\ Segment({}) /\ Segment(1..Statements)
    /\ \A S, T : Segment(S) /\ Segment(T) => Segment(S \cup T)
    /\ \A S : Segment(S) => S \subseteq 1..Statements /\ Cardinality(S) \in 0..Statements /\ S = 1..Cardinality(S)
<1>0. Statements \in Nat \ {0}
  BY MigrationConstants
<1>1. Segment({}) /\ Segment(1..Statements)
  BY <1>0 DEF Segment
<1>2. ASSUME NEW S, NEW T, Segment(S), Segment(T) PROVE Segment(S \cup T)
  <2>1. PICK m \in 0..Statements, n \in 0..Statements : S = 1..m /\ T = 1..n
    BY <1>2 DEF Segment
  <2>2. CASE m <= n
    BY <1>0, <2>1, <2>2 DEF Segment
  <2>3. CASE n <= m
    BY <1>0, <2>1, <2>3 DEF Segment
  <2> QED BY <1>0, <2>1, <2>2, <2>3
<1>3. ASSUME NEW S, Segment(S)
      PROVE  S \subseteq 1..Statements /\ Cardinality(S) \in 0..Statements /\ S = 1..Cardinality(S)
  <2>1. PICK n \in 0..Statements : S = 1..n
    BY <1>3 DEF Segment
  <2>2. Cardinality(1..n) = n
    BY <1>0, FS_Interval
  <2> QED BY <1>0, <2>1, <2>2
<1> QED BY <1>1, <1>2, <1>3

\* The schema grows under a call: what it saw stays a beginning.
LEMMA CallKept ==
    ASSUME NEW v, NEW S, NEW T, CallOk(v, S), Segment(T), S \subseteq T
    PROVE  CallOk(v, T)
<1>1. T \cup v.made = T \cup (S \cup v.made) /\ Segment(T \cup v.made)
  BY SegmentFacts DEF CallOk
<1>2. T \cup v.made \subseteq 1..Statements /\ T \subseteq 1..Statements
  BY <1>1, SegmentFacts
<1> QED BY <1>1, <1>2 DEF CallOk

\* One replica moves to v, and the schema may grow.
LEMMA ReplicaMoves ==
    ASSUME MigrateInv, NEW r \in Replicas, NEW v,
           v \in {[at |-> "idle"], [at |-> "failed"]} \cup Under,
           replica' = [replica EXCEPT ![r] = v], dialect' = dialect,
           Segment(schema'), schema \subseteq schema',
           recorded' => schema' = 1..Statements,
           v \in Under => CallOk(v, schema')
    PROVE  MigrateInv'
<1>1. \A q \in Replicas : replica'[q] \in Under => CallOk(replica'[q], schema')
  <2> SUFFICES ASSUME NEW q \in Replicas, replica'[q] \in Under PROVE CallOk(replica'[q], schema')
    OBVIOUS
  <2>1. CASE q = r
    BY <2>1 DEF MigrateInv
  <2>2. CASE q # r
    <3>1. replica'[q] = replica[q] /\ CallOk(replica[q], schema)
      BY <2>2 DEF MigrateInv
    <3> QED BY <3>1, CallKept
  <2> QED BY <2>1, <2>2
<1>2. \A q \in Replicas : replica'[q] \in Under => CallOk(replica[q], schema)'
  BY <1>1 DEF CallOk
<1>3. replica' \in [Replicas -> {[at |-> "idle"], [at |-> "failed"]} \cup Under]
  BY DEF MigrateInv
<1>4. Segment(schema)'
  BY DEF Segment
<1> QED BY <1>2, <1>3, <1>4 DEF MigrateInv

LEMMA MigrateInvStep == MigrateInv /\ [MigrateNext]_migrateVars => MigrateInv'
<1> SUFFICES ASSUME MigrateInv, [MigrateNext]_migrateVars PROVE MigrateInv'
  OBVIOUS
<1>0. /\ replica \in [Replicas -> {[at |-> "idle"], [at |-> "failed"]} \cup Under]
      /\ Segment(schema)
      /\ recorded => schema = 1..Statements
  BY DEF MigrateInv
<1>1. CASE UNCHANGED migrateVars
  BY <1>1 DEF migrateVars, MigrateInv, CallOk, Segment
<1>2. ASSUME NEW r \in Replicas, \/ \E tx \in BOOLEAN : BeginMigrate(r, tx)
                                \/ FindHistory(r) \/ CreateHistory(r) \/ TakeLock(r) \/ CountApplied(r)
                                \/ Apply(r) \/ Unlock(r) \/ Commit(r)
                                \/ StatementFails(r) \/ DropMigrate(r) \/ CrashReplica(r)
      PROVE  MigrateInv'
  <2> DEFINE u == replica[r]
  <2>1. u.at \in Places => u \in Under /\ CallOk(u, schema)
    BY <1>0 DEF MigrateInv, Places
  \* A move within the call that writes nothing.
  <2>2. ASSUME NEW at \in Places, u.at \in Places, u.at \notin {"unlock", "commit", "ok"},
               at \notin {"ok", "commit"}, at = "unlock" => recorded,
               Goto(r, at), UNCHANGED <<dialect, schema, recorded>>
        PROVE  MigrateInv'
    <3> DEFINE v == [u EXCEPT !.at = at]
    <3>1. u \in Under /\ CallOk(u, schema)
      BY <2>1, <2>2
    <3>2. v \in Under /\ v.at = at /\ v.made = u.made /\ v.tx = u.tx /\ v.record = u.record
      BY <2>2, <3>1 DEF Under
    <3>3. replica' = [replica EXCEPT ![r] = v]
      BY <2>2 DEF Goto
    <3> HIDE DEF v
    <3>4. schema \cup u.made \subseteq 1..Statements
      BY <3>1, SegmentFacts DEF CallOk
    <3>5. CallOk(v, schema)
      BY <1>0, <2>2, <3>1, <3>2, <3>4 DEF CallOk
    <3> QED BY <1>0, <2>2, <3>2, <3>3, <3>5, ReplicaMoves
  <2>3. ASSUME NEW v \in {[at |-> "idle"], [at |-> "failed"]},
               replica' = [replica EXCEPT ![r] = v], UNCHANGED <<dialect, schema, recorded>>
        PROVE  MigrateInv'
    <3>1. v \notin Under
      BY DEF Under, Places
    <3> QED BY <1>0, <2>3, <3>1, ReplicaMoves
  <2>4. ASSUME NEW tx \in BOOLEAN, BeginMigrate(r, tx) PROVE MigrateInv'
    <3>1. /\ Start(tx) \in Under /\ Start(tx).made = {} /\ Start(tx).at = "history"
          /\ Start(tx).record = FALSE
      BY DEF Start, Under, Places
    <3>2. schema \cup Start(tx).made = schema
      BY <3>1
    <3>3. CallOk(Start(tx), schema)
      BY <1>0, <3>1, <3>2 DEF CallOk
    <3> QED BY <1>0, <2>4, <3>1, <3>3, ReplicaMoves DEF BeginMigrate
  <2>5. CASE FindHistory(r)
    BY <2>2, <2>5 DEF FindHistory, At, AfterHistory, HasLock, Places
  <2>6. CASE CreateHistory(r)
    <3>1. CASE history /\ dialect = "postgres"
      BY <2>3, <2>6, <3>1 DEF CreateHistory
    <3>2. CASE ~(history /\ dialect = "postgres")
      <4>1. Goto(r, AfterHistory)
        BY <2>6, <3>2 DEF CreateHistory, Goto
      <4> QED BY <2>2, <2>6, <4>1 DEF CreateHistory, At, AfterHistory, HasLock, Places
    <3> QED BY <3>1, <3>2
  <2>7. CASE TakeLock(r)
    <3> DEFINE b == lockedBy = None
               v == [u EXCEPT !.at = "count", !.mine = b]
    <3>1. b \in BOOLEAN /\ "count" \in Places
      BY DEF Places
    <3>2. /\ u.at = "lock" /\ u \in Under /\ CallOk(u, schema)
          /\ replica' = [replica EXCEPT ![r] = v] /\ UNCHANGED <<dialect, schema, recorded>>
      BY <2>1, <2>7 DEF TakeLock, At, Places
    <3> HIDE DEF b
    <3>3. v \in Under /\ v.at = "count" /\ v.made = u.made /\ v.tx = u.tx /\ v.record = u.record
      BY <3>1, <3>2 DEF Under
    <3> HIDE DEF v
    <3>4. CallOk(v, schema)
      BY <3>2, <3>3 DEF CallOk
    <3> QED BY <1>0, <3>2, <3>3, <3>4, ReplicaMoves
  <2>8. CASE CountApplied(r)
    BY <2>2, <2>8 DEF CountApplied, At, Places
  <2>9. CASE Apply(r)
    <3> DEFINE n == Cardinality(Visible(r)) + 1
    <3>1. u.at = "apply" /\ u \in Under /\ CallOk(u, schema) /\ dialect' = dialect
      BY <2>1, <2>9 DEF Apply, At, Places
    <3>2. /\ Segment(Visible(r)) /\ Visible(r) = schema \cup u.made
          /\ n \in Nat \ {0} /\ Visible(r) = 1..(n - 1) /\ Visible(r) \subseteq 1..Statements
      <4>1. Segment(Visible(r)) /\ Visible(r) = schema \cup u.made
        BY <3>1 DEF CallOk, Visible
      <4>2. /\ Visible(r) \subseteq 1..Statements /\ Cardinality(Visible(r)) \in 0..Statements
            /\ Visible(r) = 1..Cardinality(Visible(r))
        BY <4>1, SegmentFacts
      <4>3. n \in Nat \ {0} /\ n - 1 = Cardinality(Visible(r))
        BY <4>2, MigrationConstants
      <4> QED BY <4>1, <4>2, <4>3
    <3> HIDE DEF n
    <3>3. CASE n <= Statements /\ Hides(r)
      <4> DEFINE v == [u EXCEPT !.made = @ \cup {n}]
      <4>1. replica' = [replica EXCEPT ![r] = v] /\ UNCHANGED <<schema, recorded>>
        BY <2>9, <3>3 DEF Apply, n
      <4>2. n \in 1..Statements
        BY <3>2, <3>3, MigrationConstants
      <4>3. /\ v \in Under /\ v.at = "apply" /\ v.made = u.made \cup {n} /\ v.tx = u.tx
            /\ v.record = u.record
        BY <3>1, <4>2 DEF Under
      <4> HIDE DEF v
      <4>4. schema \cup v.made = 1..n
        BY <3>2, <4>3
      <4>5. CallOk(v, schema)
        BY <3>1, <3>3, <4>2, <4>3, <4>4 DEF CallOk, Hides, Segment
      <4> QED BY <1>0, <3>1, <4>1, <4>3, <4>5, ReplicaMoves
    <3>4. CASE n <= Statements /\ ~Hides(r)
      <4>1. replica' = replica /\ recorded' = recorded /\ schema' = schema \cup {n}
        BY <2>9, <3>4 DEF Apply, n
      <4>2. u.made = {} /\ Visible(r) = schema
        BY <3>1, <3>2, <3>4 DEF CallOk, Hides
      <4>3. schema' = 1..n /\ n \in 1..Statements
        BY <3>2, <3>4, <4>1, <4>2, MigrationConstants
      <4>4. Segment(schema')
        BY <4>3 DEF Segment
      <4>5. ~recorded
        BY <1>0, <3>2, <4>2, <4>3, MigrationConstants
      <4>6. CallOk(u, schema')
        BY <3>1, <4>1, <4>4, CallKept
      <4>7. replica' = [replica EXCEPT ![r] = u]
        BY <1>0, <4>1
      <4> QED BY <3>1, <4>1, <4>4, <4>5, <4>6, <4>7, ReplicaMoves
    <3>5. CASE ~(n <= Statements)
      <4>1. Visible(r) = 1..Statements
        <5>1. n - 1 \in 0..Statements
          BY <3>2, SegmentFacts DEF n
        <5>2. n - 1 = Statements
          BY <3>2, <3>5, <5>1, MigrationConstants
        <5> QED BY <3>2, <5>2
      <4>2. schema' = schema
        BY <2>9, <3>5 DEF Apply, n
      <4>3. CASE Hides(r)
        <5> DEFINE v == [u EXCEPT !.record = TRUE, !.at = "unlock"]
        <5>1. replica' = [replica EXCEPT ![r] = v] /\ recorded' = recorded
          BY <1>0, <2>9, <3>5, <4>3 DEF Apply, n
        <5>2. v \in Under /\ v.at = "unlock" /\ v.made = u.made /\ v.tx = u.tx
          BY <3>1 DEF Under, Places
        <5> HIDE DEF v
        <5>3. CallOk(v, schema)
          BY <3>1, <3>2, <4>1, <5>2 DEF CallOk
        <5> QED BY <1>0, <3>1, <4>2, <5>1, <5>2, <5>3, ReplicaMoves
      <4>4. CASE ~Hides(r)
        <5> DEFINE v == [u EXCEPT !.at = "unlock"]
        <5>1. replica' = [replica EXCEPT ![r] = v] /\ recorded' = TRUE
          BY <2>9, <3>5, <4>4 DEF Apply, Goto, n
        <5>2. v \in Under /\ v.at = "unlock" /\ v.made = u.made /\ v.tx = u.tx
          BY <3>1 DEF Under, Places
        <5> HIDE DEF v
        <5>3. schema = 1..Statements
          BY <3>1, <3>2, <4>1, <4>4 DEF CallOk, Hides
        <5>4. CallOk(v, schema)
          BY <3>1, <3>2, <4>1, <5>2 DEF CallOk
        <5> QED BY <1>0, <3>1, <4>2, <5>1, <5>2, <5>3, <5>4, ReplicaMoves
      <4> QED BY <4>3, <4>4
    <3> QED BY <3>3, <3>4, <3>5
  <2>10. CASE Unlock(r)
    <3> DEFINE to == IF u.tx THEN "commit" ELSE "ok"
               v == [u EXCEPT !.at = to]
    <3>1. /\ u.at = "unlock" /\ u \in Under /\ CallOk(u, schema)
          /\ UNCHANGED <<dialect, schema, recorded>> /\ replica' = [replica EXCEPT ![r] = v]
      BY <2>1, <2>10 DEF Unlock, At, Goto, Places
    <3>2. /\ v \in Under /\ v.at = to /\ v.made = u.made /\ v.tx = u.tx
          /\ to \in {"commit", "ok"} /\ (to = "ok" => ~u.tx)
      BY <3>1 DEF Under, Places
    <3> HIDE DEF to, v
    <3>3. to = "ok" => u.made = {}
      BY <3>1, <3>2 DEF CallOk
    <3>4. CallOk(v, schema)
      BY <3>1, <3>2, <3>3 DEF CallOk
    <3> QED BY <1>0, <3>1, <3>2, <3>4, ReplicaMoves
  <2>11. CASE Commit(r)
    <3> DEFINE v == [u EXCEPT !.at = "ok"]
    <3>1. /\ u.at = "commit" /\ u \in Under /\ CallOk(u, schema) /\ dialect' = dialect
          /\ replica' = [replica EXCEPT ![r] = v] /\ schema' = schema \cup u.made
      BY <2>1, <2>11 DEF Commit, At, Goto, Places
    <3>2. v \in Under /\ v.at = "ok" /\ v.made = u.made /\ v.tx = u.tx
      BY <3>1 DEF Under, Places
    <3> HIDE DEF v
    <3>3. schema' = 1..Statements /\ schema' \cup u.made = 1..Statements
      BY <3>1 DEF CallOk
    <3>4. CallOk(v, schema')
      BY <3>1, <3>2, <3>3, SegmentFacts DEF CallOk
    <3> QED BY <3>1, <3>2, <3>3, <3>4, SegmentFacts, ReplicaMoves
  <2>12. CASE StatementFails(r) \/ DropMigrate(r) \/ CrashReplica(r)
    BY <2>3, <2>12 DEF StatementFails, DropMigrate, CrashReplica
  <2> QED BY <1>2, <2>4, <2>5, <2>6, <2>7, <2>8, <2>9, <2>10, <2>11, <2>12
<1> QED BY <1>1, <1>2 DEF MigrateNext

\* Whichever replicas race, lose the lock, die or are dropped: a migration that
\* returned Ok, and was committed, left every statement's objects in the schema.
THEOREM MigrateCorrect == MigrateSpec => []OkMeansSchema
<1>1. MigrateInit => MigrateInv
  <2> SUFFICES ASSUME MigrateInit PROVE MigrateInv
    OBVIOUS
  <2>1. [at |-> "idle"] \notin Under
    BY DEF Under, Places
  <2> QED BY <2>1, SegmentFacts DEF MigrateInit, MigrateInv
<1>2. MigrateInv => OkMeansSchema
  <2> SUFFICES ASSUME MigrateInv, NEW r \in Replicas, At(r, "ok") PROVE schema = 1..Statements
    BY DEF OkMeansSchema
  <2>1. replica[r] \in Under
    BY DEF MigrateInv, At
  <2> QED BY <2>1 DEF MigrateInv, CallOk, At
<1> QED BY MigrateInvStep, <1>1, <1>2, PTL DEF MigrateSpec
=============================================================================
