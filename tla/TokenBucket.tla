---------------------------- MODULE TokenBucket ----------------------------
(***************************************************************************)
(* What a rate limit promises: every key has a bucket that is always there, *)
(* holds at most Capacity tokens, and refills with time at one token every *)
(* Period ticks.  A request is admitted exactly when its bucket holds a     *)
(* token, and one that is refused is told a wait that suffices and is       *)
(* padded by little.  RateLimit shows which backends keep the promise, and  *)
(* when.                                                                   *)
(*                                                                         *)
(* A level is counted in units: Period of them are a token, and a tick adds *)
(* one.                                                                    *)
(***************************************************************************)
EXTENDS Integers

CONSTANTS Keys, Capacity, Period,
          Second,       \* ticks of a second, the unit of Retry-After
          Pad,          \* units of padding, beyond what rounding to a second adds
          MaxWait       \* bound: the longest wait told, in seconds

VARIABLES level,        \* units in each bucket
          answer        \* the last answer given since the time moved

Full == Capacity * Period

AtMost(bound, n) == IF n > bound THEN bound ELSE n

NoAnswer == [kind |-> "none"]

Init ==
    /\ level = [k \in Keys |-> Full]
    /\ answer = NoAnswer

Pass ==
    /\ level' = [k \in Keys |-> AtMost(Full, level[k] + 1)]
    /\ answer' = NoAnswer

Admit(k) ==
    /\ level[k] >= Period
    /\ level' = [level EXCEPT ![k] = @ - Period]
    /\ answer' = [kind |-> "allowed", key |-> k]

\* The wait is long enough, and a second less would leave the bucket short of a
\* token, or at most Pad above it.
Refuse(k, wait) ==
    /\ level[k] < Period
    /\ wait >= 1
    /\ level[k] + wait * Second >= Period
    /\ level[k] + (wait - 1) * Second < Period + Pad
    /\ answer' = [kind |-> "refused", key |-> k, wait |-> wait]
    /\ UNCHANGED level

\* The backend cannot be reached, or its reply is lost after it has spent.
Unknown(k, outcome) ==
    /\ answer' = [kind |-> outcome, key |-> k]
    /\ level' \in {level, [level EXCEPT ![k] = @ - Period]}
    /\ level'[k] >= 0

Next ==
    \/ Pass
    \/ \E k \in Keys :
        \/ Admit(k)
        \/ \E wait \in 1..MaxWait : Refuse(k, wait)
        \/ \E outcome \in {"unavailable", "unmetered"} : Unknown(k, outcome)

Spec == Init /\ [][Next]_<<level, answer>>
=============================================================================
