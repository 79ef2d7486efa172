------------------------------ MODULE JobQueue ------------------------------
(***************************************************************************)
(* The table arcature_jobs and the statements that change it.              *)
(*                                                                         *)
(* One action per SQL statement of src/jobs/dialect (the three dialects    *)
(* have the same effect), called by whoever holds a database connection:   *)
(* a live worker, a worker that stalled past its lease and woke up, an     *)
(* operator.  Nothing is assumed of the callers except that a claim token  *)
(* they present was issued by a claim.  JobWorker composes this table with *)
(* the worker loop.                                                        *)
(*                                                                         *)
(* Time is not a number here.  A pending row is `due' once available_at    *)
(* has passed and a running row has `lapsed' once locked_at + lease is in  *)
(* the past; time passing is the two actions that set those flags, at any  *)
(* moment.  LeaseTiming has the numeric clock.                             *)
(***************************************************************************)
EXTENDS Integers, FiniteSets

CONSTANTS Jobs,         \* job ids (the primary key)
          Workers,      \* worker ids (locked_by)
          Nobody,       \* locked_by IS NULL
          MaxAttempts,  \* the max_attempts column, per job
          PollBatch,    \* WorkerConfig::poll_batch
          SweepBatch,   \* WorkerConfig::sweep_batch
          MaxTokens     \* bound: how many claim statements may return rows

ASSUME QueueConstants ==
    /\ Nobody \notin Workers
    /\ MaxAttempts \in [Jobs -> Nat \ {0}]
    /\ PollBatch \in Nat \ {0}
    /\ SweepBatch \in Nat \ {0}
    /\ MaxTokens \in Nat

VARIABLES row,        \* the table
          lastToken,  \* claim tokens 1..lastToken have been issued
          claims,     \* history: every claim ever made, [job, token]
          ends        \* history: how each claim ended, [job, token, how]

queueVars == <<row, lastToken, claims, ends>>
-----------------------------------------------------------------------------
NoToken == 0        \* claim_token IS NULL

Status == {"absent", "pending", "running", "succeeded", "dead", "cancelled"}

\* last_error_kind: "none" is NULL; "retryable" is written by MARK_RETRY.
ErrorKind == {"none", "retryable", "permanent", "exhausted", "malformed",
              "unknown", "panic", "timeout"}

Row == [status : Status, attempts : Nat, token : Nat,
        owner : Workers \cup {Nobody}, lapsed : BOOLEAN, due : BOOLEAN,
        kind : ErrorKind]

Claims == [job : Jobs, token : Nat \ {0}]

How == {"succeeded", "retry", "dead", "released", "swept", "cancelled"}

Ends == [job : Jobs, token : Nat \ {0}, how : How]

EmptyRow == [status |-> "absent", attempts |-> 0, token |-> NoToken,
             owner |-> Nobody, lapsed |-> FALSE, due |-> FALSE,
             kind |-> "none"]

\* Mutant: the fence without the claim token.
FencedByStatus(j, t) == row[j].status = "running"

\* The fence every completion carries:
\* WHERE id = ? AND status = 'running' AND claim_token = ?.
Fenced(j, t) == row[j].status = "running" /\ row[j].token = t

\* What every statement that takes a row out of 'running' does to the lock
\* columns: locked_by, locked_at and claim_token become NULL.
Unlocked(r) == [r EXCEPT !.token = NoToken, !.owner = Nobody, !.lapsed = FALSE]

Ended(j, t, how) == [job |-> j, token |-> t, how |-> how]

QueueInit ==
    /\ row = [j \in Jobs |-> EmptyRow]
    /\ lastToken = 0
    /\ claims = {}
    /\ ends = {}
-----------------------------------------------------------------------------
\* insert_job: a fresh id, status 'pending', available_at = run_at, which is
\* now or later.
Enqueue(j, due) ==
    /\ row[j].status = "absent"
    /\ row' = [row EXCEPT ![j] = [EmptyRow EXCEPT !.status = "pending", !.due = due]]
    /\ UNCHANGED <<lastToken, claims, ends>>

\* Mutant: an expired lease is claimed straight from its holder.
ClaimableOrLapsed(j) ==
    \/ row[j].status = "pending" /\ row[j].due
    \/ row[j].status = "running" /\ row[j].lapsed

Claimable(j) == row[j].status = "pending" /\ row[j].due

ClaimedRow(r, w, t) ==
    [status |-> "running", attempts |-> r.attempts + 1, token |-> t, owner |-> w,
     lapsed |-> FALSE, due |-> r.due, kind |-> "none"]

\* claim_jobs: at most PollBatch due rows, all under one fresh token.  Which
\* ones is left open: SKIP LOCKED steps over rows other statements hold.
Claim(w, S) ==
    /\ lastToken < MaxTokens
    /\ S # {} /\ Cardinality(S) <= PollBatch
    /\ \A j \in S : Claimable(j)
    /\ lastToken' = lastToken + 1
    /\ row' = [j \in Jobs |-> IF j \in S THEN ClaimedRow(row[j], w, lastToken + 1)
                                         ELSE row[j]]
    /\ claims' = claims \cup {[job |-> j, token |-> lastToken + 1] : j \in S}
    /\ UNCHANGED ends

MarkSucceeded(j, t) ==
    /\ Fenced(j, t)
    /\ row' = [row EXCEPT ![j] = [Unlocked(@) EXCEPT !.status = "succeeded",
                                                     !.kind = "none"]]
    /\ ends' = ends \cup {Ended(j, t, "succeeded")}
    /\ UNCHANGED <<lastToken, claims>>

\* available_at is the worker's now + the backoff delay: not due until time
\* passes.
MarkRetry(j, t) ==
    /\ Fenced(j, t)
    /\ row' = [row EXCEPT ![j] = [Unlocked(@) EXCEPT !.status = "pending",
                                                     !.due = FALSE,
                                                     !.kind = "retryable"]]
    /\ ends' = ends \cup {Ended(j, t, "retry")}
    /\ UNCHANGED <<lastToken, claims>>

MarkDead(j, t, kind) ==
    /\ Fenced(j, t)
    /\ row' = [row EXCEPT ![j] = [Unlocked(@) EXCEPT !.status = "dead",
                                                     !.kind = kind]]
    /\ ends' = ends \cup {Ended(j, t, "dead")}
    /\ UNCHANGED <<lastToken, claims>>

\* locked_at = now().
Heartbeat(j, t) ==
    /\ Fenced(j, t)
    /\ row' = [row EXCEPT ![j].lapsed = FALSE]
    /\ UNCHANGED <<lastToken, claims, ends>>

\* Back to pending, claimable at once.  attempts keeps the claim's increment.
ReleaseClaim(j, t) ==
    /\ Fenced(j, t)
    /\ row' = [row EXCEPT ![j] = [Unlocked(@) EXCEPT !.status = "pending",
                                                     !.due = TRUE]]
    /\ ends' = ends \cup {Ended(j, t, "released")}
    /\ UNCHANGED <<lastToken, claims>>
-----------------------------------------------------------------------------
Expired(j) == row[j].status = "running" /\ row[j].lapsed

Exhausted(j) == row[j].attempts >= MaxAttempts[j]

\* SWEEP_DEAD: at most SweepBatch expired rows that have no attempt left.
SweepDead(S) ==
    /\ S # {} /\ Cardinality(S) <= SweepBatch
    /\ \A j \in S : Expired(j) /\ Exhausted(j)
    /\ row' = [j \in Jobs |->
                 IF j \in S
                 THEN [Unlocked(row[j]) EXCEPT !.status = "dead", !.kind = "exhausted"]
                 ELSE row[j]]
    /\ ends' = ends \cup {Ended(j, row[j].token, "swept") : j \in S}
    /\ UNCHANGED <<lastToken, claims>>

\* SWEEP_REQUEUE: at most SweepBatch expired rows that have attempts left.
SweepRequeue(S) ==
    /\ S # {} /\ Cardinality(S) <= SweepBatch
    /\ \A j \in S : Expired(j) /\ ~Exhausted(j)
    /\ row' = [j \in Jobs |->
                 IF j \in S
                 THEN [Unlocked(row[j]) EXCEPT !.status = "pending", !.due = TRUE]
                 ELSE row[j]]
    /\ ends' = ends \cup {Ended(j, row[j].token, "swept") : j \in S}
    /\ UNCHANGED <<lastToken, claims>>

\* admin::cancel.
Cancel(j) ==
    /\ row[j].status \in {"pending", "running"}
    /\ row' = [row EXCEPT ![j] = [Unlocked(@) EXCEPT !.status = "cancelled"]]
    /\ ends' = IF row[j].status = "running"
               THEN ends \cup {Ended(j, row[j].token, "cancelled")}
               ELSE ends
    /\ UNCHANGED <<lastToken, claims>>

\* admin::requeue_dead.
RequeueDead(j) ==
    /\ row[j].status = "dead"
    /\ row' = [row EXCEPT ![j] = [Unlocked(@) EXCEPT !.status = "pending",
                                                     !.attempts = 0,
                                                     !.due = TRUE,
                                                     !.kind = "none"]]
    /\ UNCHANGED <<lastToken, claims, ends>>
-----------------------------------------------------------------------------
\* Time passes: a pending row becomes due, a running row's lease runs out.
ComesDue(j) ==
    /\ row[j].status = "pending" /\ ~row[j].due
    /\ row' = [row EXCEPT ![j].due = TRUE]
    /\ UNCHANGED <<lastToken, claims, ends>>

LeaseLapses(j) ==
    /\ row[j].status = "running" /\ ~row[j].lapsed
    /\ row' = [row EXCEPT ![j].lapsed = TRUE]
    /\ UNCHANGED <<lastToken, claims, ends>>

\* A completion, heartbeat or release by whoever presents the token t.
Present(j, t) ==
    \/ MarkSucceeded(j, t)
    \/ MarkRetry(j, t)
    \/ \E kind \in ErrorKind : MarkDead(j, t, kind)
    \/ Heartbeat(j, t)
    \/ ReleaseClaim(j, t)

QueueNext ==
    \/ \E j \in Jobs, due \in BOOLEAN : Enqueue(j, due)
    \/ \E w \in Workers, S \in SUBSET Jobs : Claim(w, S)
    \/ \E j \in Jobs, t \in 1..lastToken : Present(j, t)
    \/ \E S \in SUBSET Jobs : SweepDead(S) \/ SweepRequeue(S)
    \/ \E j \in Jobs : Cancel(j) \/ RequeueDead(j)
    \/ \E j \in Jobs : ComesDue(j) \/ LeaseLapses(j)

QueueSpec == QueueInit /\ [][QueueNext]_queueVars
-----------------------------------------------------------------------------
\* Type correctness of the table and of the history of claims and ends.
QueueTypeOK ==
    /\ row \in [Jobs -> Row]
    /\ lastToken \in Nat
    /\ claims \subseteq Claims
    /\ ends \subseteq Ends

\* The lock columns and the status agree, and no row carries a token that no
\* claim issued: the CHECK the completions' fences rest on.
LockedIffRunning ==
    \A j \in Jobs :
        /\ (row[j].status = "running") <=> (row[j].token # NoToken)
        /\ (row[j].status = "running") <=> (row[j].owner # Nobody)
        /\ row[j].token <= lastToken
        /\ row[j].status = "running" => row[j].attempts > 0
        /\ row[j].status = "running" =>
              [job |-> j, token |-> row[j].token] \in claims

\* Every claim is accounted for: it is the claim its row runs under, or it has
\* ended, and never both.  A stale worker's statement, a sweep, a release and
\* a cancel may race in any order; none of them ends a claim a second time or
\* touches a row that another claim holds.
ClaimsAccounted ==
    \A c \in claims :
        Fenced(c.job, c.token) <=>
            ~ \E e \in ends : e.job = c.job /\ e.token = c.token

\* A claim has one ending.
OneEndPerClaim ==
    \A e, f \in ends : (e.job = f.job /\ e.token = f.token) => e = f

\* A row that reached 'succeeded' or 'cancelled' never changes again; a dead
\* one changes only by requeue_dead, which puts it back unclaimed with its
\* attempts reset.
TerminalIsFinal ==
    [][\A j \in Jobs :
          /\ row[j].status \in {"succeeded", "cancelled"} => row'[j] = row[j]
          /\ row[j].status = "dead" /\ row'[j] # row[j] =>
                /\ row'[j].status = "pending"
                /\ row'[j].attempts = 0]_queueVars

\* A running row never passes straight from one claim to another: it is put
\* back to pending in between, so a claim is never taken over in place.
NoStealing ==
    [][\A j \in Jobs :
          row[j].status = "running" /\ row'[j].status = "running" =>
              /\ row'[j].token = row[j].token
              /\ row'[j].owner = row[j].owner
              /\ row'[j].attempts = row[j].attempts]_queueVars
=============================================================================
