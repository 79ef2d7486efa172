--------------------------- MODULE LoginThrottle ---------------------------
(***************************************************************************)
(* LoginThrottle of auth/flows/throttle.rs: one bucket of tolerated         *)
(* failures per account and client, one per client, refilled over the same  *)
(* window, consulted before a password is verified and charged after.      *)
(*                                                                         *)
(* A token is Window units; a tick refills a bucket by as many units as it  *)
(* has tokens of capacity.  Clock reading and lock are one step here        *)
(* (RateLimit explores their separation).  Nothing under the lock can      *)
(* panic, so the refusal of a poisoned lock is left out.                   *)
(***************************************************************************)
EXTENDS Integers, FiniteSets

CONSTANTS Emails, Clients,
          Attempts,         \* sign-ins in flight at once
          IdentityLimit, AddressLimit, Window,
          MinimumRetryAfter,  \* MINIMUM_RETRY_AFTER, in ticks
          ThrottleSweepAt,  \* buckets at which record_failure sweeps
          MaxTime, MaxFailures  \* bounds: ticks; failures of a client

ASSUME ThrottleConstants ==
    /\ IdentityLimit \in Nat \ {0} /\ AddressLimit \in Nat \ {0} /\ Window \in Nat \ {0}
    /\ MinimumRetryAfter \in Nat
    /\ ThrottleSweepAt \in Nat \ {0} /\ MaxTime \in Nat /\ MaxFailures \in Nat
    /\ Clients \cap (Emails \X Clients) = {}    \* the two kinds of key are apart

VARIABLES time,
          counters,     \* the table: [t, u] for the keys it holds
          attempt,      \* each sign-in: idle, or the pair it was allowed for
          refusal,      \* history: the last refusal, until its buckets are charged again
          failed,       \* history: failures recorded for each client
          overdrawn,    \* history: units of failures the client's bucket did not hold
          forgiven,     \* history: units the sweep added to the client's bucket
          overlapped    \* history: clients that had two sign-ins in flight at once

throttleVars == <<time, counters, attempt, refusal, failed, overdrawn, forgiven, overlapped>>

IdentityKeys == Emails \X Clients
AllKeys == IdentityKeys \cup Clients

\* Quota::new, as the limit of the kind of key.
Limit(key) == IF key \in Clients THEN AddressLimit ELSE IdentityLimit
Brim(key) == Limit(key) * Window

Least(a, b) == IF a < b THEN a ELSE b
Most(a, b) == IF a > b THEN a ELSE b

\* Bucket::tokens_at, a missing bucket being full.
TokensAt(key) ==
    IF key \in DOMAIN counters
    THEN Least(Brim(key), counters[key].t + Limit(key) * (time - counters[key].u))
    ELSE Brim(key)

NoRefusal == [at |-> -1]
NoAttempt == [open |-> FALSE]

ThrottleInit ==
    /\ time = 0
    /\ counters = <<>>
    /\ attempt = [a \in Attempts |-> NoAttempt]
    /\ refusal = NoRefusal
    /\ failed = [c \in Clients |-> 0]
    /\ overdrawn = [c \in Clients |-> 0]
    /\ forgiven = [c \in Clients |-> 0]
    /\ overlapped = {}

\* The wait for a token, in ticks rounded up, and no shorter than the minimum.
WaitOf(key) ==
    IF TokensAt(key) >= Window THEN 0
    ELSE Most(MinimumRetryAfter, (Window - TokensAt(key) + Limit(key) - 1) \div Limit(key))

\* The longer of the two waits.
ThrottleRetryAfter(e, c) == Most(WaitOf(<<e, c>>), WaitOf(c))

InFlight(c) == {a \in Attempts : attempt[a].open /\ attempt[a].client = c}

\* check: allowed when neither bucket is below one token.  It writes nothing.
ThrottleCheck(a, e, c) ==
    /\ ~attempt[a].open
    /\ IF TokensAt(<<e, c>>) >= Window /\ TokensAt(c) >= Window
       THEN /\ attempt' = [attempt EXCEPT ![a] = [open |-> TRUE, email |-> e, client |-> c]]
            /\ overlapped' = IF InFlight(c) # {} THEN overlapped \cup {c} ELSE overlapped
            /\ UNCHANGED refusal
       ELSE /\ refusal' = [at |-> time, email |-> e, client |-> c,
                           wait |-> ThrottleRetryAfter(e, c)]
            /\ UNCHANGED <<attempt, overlapped>>
    /\ UNCHANGED <<time, counters, failed, overdrawn, forgiven>>

\* The sweep of record_failure: it measures every bucket with the identity quota.
Forgotten ==
    IF Cardinality(DOMAIN counters) < ThrottleSweepAt THEN {}
    ELSE {key \in DOMAIN counters :
            counters[key].t + IdentityLimit * (time - counters[key].u) >= IdentityLimit * Window}

\* The buckets a failure is charged to.
Charged(e, c) == {<<e, c>>, c}

\* record_failure, after the password was rejected.
RecordFailure(a) ==
    LET e == attempt[a].email
        c == attempt[a].client
        Left(key) == IF key \in Forgotten THEN Brim(key) ELSE TokensAt(key)
    IN  /\ attempt[a].open
        /\ failed[c] < MaxFailures
        /\ counters' = [key \in ((DOMAIN counters) \ Forgotten) \cup Charged(e, c) |->
            IF key \in Charged(e, c) THEN [t |-> Most(0, Left(key) - Window), u |-> time]
            ELSE counters[key]]
        /\ failed' = [failed EXCEPT ![c] = @ + 1]
        /\ overdrawn' = [overdrawn EXCEPT ![c] = @ + Most(0, Window - Left(c))]
        /\ forgiven' = [d \in Clients |->
            IF d \in Forgotten THEN forgiven[d] + Brim(d) - TokensAt(d) ELSE forgiven[d]]
        /\ attempt' = [attempt EXCEPT ![a] = NoAttempt]
        /\ refusal' = IF refusal # NoRefusal /\ refusal.client = c THEN NoRefusal ELSE refusal
        /\ UNCHANGED <<time, overlapped>>

\* Mutant: a success clears the client's bucket too.
ClearedBoth(e, c) == {<<e, c>>, c}

\* What a success forgets.
Cleared(e, c) == {<<e, c>>}

\* record_success, after the password was accepted.
RecordSuccess(a) ==
    /\ attempt[a].open
    /\ LET gone == Cleared(attempt[a].email, attempt[a].client)
       IN  counters' = [key \in (DOMAIN counters) \ gone |-> counters[key]]
    /\ attempt' = [attempt EXCEPT ![a] = NoAttempt]
    /\ UNCHANGED <<time, refusal, failed, overdrawn, forgiven, overlapped>>

\* The request is dropped between the two calls.
Abandon(a) ==
    /\ attempt[a].open
    /\ attempt' = [attempt EXCEPT ![a] = NoAttempt]
    /\ UNCHANGED <<time, counters, refusal, failed, overdrawn, forgiven, overlapped>>

ThrottleTick ==
    /\ time < MaxTime
    /\ time' = time + 1
    /\ UNCHANGED <<counters, attempt, refusal, failed, overdrawn, forgiven, overlapped>>

ThrottleNext ==
    \/ \E a \in Attempts : \/ \E e \in Emails, c \in Clients : ThrottleCheck(a, e, c)
                           \/ RecordFailure(a) \/ RecordSuccess(a) \/ Abandon(a)
    \/ ThrottleTick

ThrottleSpec == ThrottleInit /\ [][ThrottleNext]_throttleVars
-----------------------------------------------------------------------------
\* A client's failures are paid for, whatever accounts it tries and whatever it
\* signs into in between: by its bucket's capacity, by the time, by what the
\* sweep forgave, and by what sign-ins in flight together overdrew.  A client
\* that tries one at a time overdraws nothing.
FailuresPaidFor ==
    \A c \in Clients :
        /\ Window * failed[c] <= Brim(c) + AddressLimit * time + overdrawn[c] + forgiven[c]
        /\ c \notin overlapped => overdrawn[c] = 0

\* A caller that honours the wait it was told is let in, unless its buckets were
\* charged again since: both of them have a token by then.
WaitSuffices ==
    (refusal # NoRefusal /\ time >= refusal.at + refusal.wait)
    => \A key \in Charged(refusal.email, refusal.client) : TokensAt(key) >= Window

\* The comment on the sweep: a bucket it drops is full, so that its absence
\* answers the same.
SweepInvisible == \A c \in Clients : forgiven[c] = 0
=============================================================================
