----------------------------- MODULE Scheduler -----------------------------
(***************************************************************************)
(* Scheduler::run of jobs/scheduler.rs: entries with a cadence, one loop    *)
(* that sleeps until the earliest next_fire and then fires what is due, one *)
(* entry after the other.  Firing is an enqueue, and it takes as long as    *)
(* the database takes: the clock moves while a round is under way, and the  *)
(* next times are computed from the one reading the round began with.      *)
(*                                                                         *)
(* Time is counted in ticks, Day of them to the day.  Left out: a cadence   *)
(* of zero seconds, which makes the loop spin; an interval so long that     *)
(* adding it to the clock panics; and a time of day that does not exist,    *)
(* which the macro that declares schedules refuses (schedule_spec.rs), so   *)
(* that compute_next_fire never falls back to now.                         *)
(***************************************************************************)
EXTENDS Integers, FiniteSets

CONSTANTS Entries,      \* how many entries: they are 1..Entries, in order
          Day,
          MaxNow        \* bound: ticks

ASSUME SchedConstants == Entries \in Nat /\ Day \in Nat \ {0} /\ MaxNow \in Nat

VARIABLES now,
          cadence,      \* each entry's cadence
          nextFire,     \* each entry's next_fire
          loop,         \* where run is: "sleeping", "firing", "ended"
          reading,      \* the clock reading of the round
          cursor,       \* the entry the round is at
          cancelled,    \* the shutdown token
          fires         \* history: calls of each entry's closure

schedVars == <<now, cadence, nextFire, loop, reading, cursor, cancelled, fires>>

Cadences == [kind : {"every"}, n : 1..Day] \cup [kind : {"daily"}, n : 0..(Day - 1)]

\* Mutant: the time of day itself counts as still to come.
ComputeNextFireInclusive(c, t) ==
    IF c.kind = "every" THEN t + c.n
    ELSE CHOOSE f \in t..(t + Day - 1) : f % Day = c.n

\* compute_next_fire: an interval from now, or the first time of day after now.
ComputeNextFire(c, t) ==
    IF c.kind = "every" THEN t + c.n
    ELSE CHOOSE f \in (t + 1)..(t + Day) : f % Day = c.n

SchedInit ==
    /\ now = 0
    /\ cadence \in [1..Entries -> Cadences]
    /\ nextFire = [e \in 1..Entries |-> ComputeNextFire(cadence[e], 0)]
    /\ loop = "sleeping"
    /\ reading = 0
    /\ cursor = 1
    /\ cancelled = FALSE
    /\ fires = [e \in 1..Entries |-> 0]

\* The sleep is over: the round takes its reading.  The token may be cancelled
\* as well, and select! then picks either arm.
SchedWake ==
    /\ loop = "sleeping"
    /\ \E e \in 1..Entries : nextFire[e] <= now
    /\ loop' = "firing"
    /\ reading' = now
    /\ cursor' = 1
    /\ UNCHANGED <<now, cadence, nextFire, cancelled, fires>>

Due(e) == nextFire[e] <= reading

\* The loop passes an entry: skips it, or awaits its closure (an error is only
\* printed) and computes its next time from the reading of the round.
SchedFire ==
    /\ loop = "firing"
    /\ cursor <= Entries
    /\ cursor' = cursor + 1
    /\ IF Due(cursor)
       THEN /\ fires' = [fires EXCEPT ![cursor] = @ + 1]
            /\ nextFire' = [nextFire EXCEPT ![cursor] = ComputeNextFire(cadence[cursor], reading)]
       ELSE UNCHANGED <<fires, nextFire>>
    /\ UNCHANGED <<now, cadence, loop, reading, cancelled>>

\* The round is over; the loop computes its next sleep.
SchedRound ==
    /\ loop = "firing"
    /\ cursor > Entries
    /\ loop' = "sleeping"
    /\ UNCHANGED <<now, cadence, nextFire, reading, cursor, cancelled, fires>>

SchedCancel ==
    /\ ~cancelled
    /\ cancelled' = TRUE
    /\ UNCHANGED <<now, cadence, nextFire, loop, reading, cursor, fires>>

\* The token ends the sleep, the one place it is looked at.
SchedEnd ==
    /\ loop = "sleeping"
    /\ cancelled
    /\ loop' = "ended"
    /\ UNCHANGED <<now, cadence, nextFire, reading, cursor, cancelled, fires>>

\* Time passes in a sleep, and in the await of a closure.
SchedTick ==
    /\ loop # "ended"
    /\ now < MaxNow
    /\ now' = now + 1
    /\ UNCHANGED <<cadence, nextFire, loop, reading, cursor, cancelled, fires>>

SchedNext == SchedWake \/ SchedFire \/ SchedRound \/ SchedCancel \/ SchedEnd \/ SchedTick

SchedSpec == SchedInit /\ [][SchedNext]_schedVars
-----------------------------------------------------------------------------
\* How many times a cadence has come round since the scheduler was built.
Occurrences(c, t) ==
    IF c.kind = "every" THEN t \div c.n ELSE Cardinality({f \in 1..t : f % Day = c.n})

\* However late the loop wakes and however long an enqueue takes, no entry is
\* enqueued more often than its cadence has come round: a backlog is dropped,
\* never caught up, and no occurrence is fired twice.
FiresWithinCadence ==
    \A e \in 1..Entries : fires[e] <= Occurrences(cadence[e], now)
=============================================================================
