----------------------------- MODULE Migrations -----------------------------
(***************************************************************************)
(* The schema migration every store carries (jobs/migrate.rs and its five   *)
(* twins): replicas that migrate at startup over one database, the lock of  *)
(* the dialect, and a process that dies or a call that is dropped midway.   *)
(*                                                                         *)
(* One migration of several statements, each IF NOT EXISTS.  apply_tx, over *)
(* a caller's transaction, shows its effects when that commits; MySQL       *)
(* commits each statement of it at once.  The history table counts as made  *)
(* at once in every case.                                                  *)
(***************************************************************************)
EXTENDS Integers, FiniteSets

CONSTANTS Dialects,      \* the databases, of {"postgres", "mysql", "sqlite"}
          Replicas,      \* processes that migrate
          Statements,    \* bound: statements of the migration
          MaxCrashes     \* bound: crashes, dropped calls and failed statements

ASSUME MigrationConstants ==
    /\ Dialects \subseteq {"postgres", "mysql", "sqlite"}
    /\ Statements \in Nat \ {0} /\ MaxCrashes \in Nat

VARIABLES dialect,
          history,     \* whether the history table exists
          schema,      \* statements whose objects are in the committed schema
          recorded,    \* whether the history table has the version
          lockedBy,    \* the replica whose session holds the lock
          replica,     \* each replica's call
          crashes      \* crashes, dropped calls and failed statements so far

migrateVars == <<dialect, history, schema, recorded, lockedBy, replica, crashes>>

None == "none"

\* A call: where it is, whether it runs in a caller's transaction, what that
\* transaction has done but not committed, and whether the lock is its to let go.
Start(tx) == [at |-> "history", tx |-> tx, made |-> {}, record |-> FALSE, mine |-> FALSE]

MigrateInit ==
    /\ dialect \in Dialects
    /\ history = FALSE
    /\ schema = {}
    /\ recorded = FALSE
    /\ lockedBy = None
    /\ replica = [r \in Replicas |-> [at |-> "idle"]]
    /\ crashes = 0

At(r, place) == replica[r].at = place
Goto(r, place) == replica' = [replica EXCEPT ![r].at = place]
HasLock == dialect # "sqlite"

\* A transaction hides what it does until it commits, except for MySQL's DDL.
Hides(r) == replica[r].tx /\ dialect # "mysql"
-----------------------------------------------------------------------------
\* migrate (apply) or migrate_tx (apply_tx) is called.
BeginMigrate(r, tx) ==
    /\ replica[r].at \in {"idle", "failed"}
    /\ replica' = [replica EXCEPT ![r] = Start(tx)]
    /\ UNCHANGED <<dialect, history, schema, recorded, lockedBy, crashes>>

AfterHistory == IF HasLock THEN "lock" ELSE "count"

\* CREATE_HISTORY, before the lock: CREATE TABLE IF NOT EXISTS looks for the table.
FindHistory(r) ==
    /\ At(r, "history")
    /\ Goto(r, IF history THEN AfterHistory ELSE "creating")
    /\ UNCHANGED <<dialect, history, schema, recorded, lockedBy, crashes>>

\* It was not there, and is created.  Where another session created it meanwhile,
\* PostgreSQL answers with a duplicate key of its own catalogue.
CreateHistory(r) ==
    /\ At(r, "creating")
    /\ history' = TRUE
    /\ replica' = [replica EXCEPT ![r] =
        IF history /\ dialect = "postgres" THEN [at |-> "failed"]
        ELSE [@ EXCEPT !.at = AfterHistory]]
    /\ UNCHANGED <<dialect, schema, recorded, lockedBy, crashes>>

\* LOCK: it is free; or this replica's pool hands out the very session that kept it,
\* which takes it once more and will have it still after one unlock; or MySQL's
\* GET_LOCK gives up after its time and answers 0, which nobody reads.  PostgreSQL
\* waits.
TakeLock(r) ==
    /\ At(r, "lock")
    /\ \/ lockedBy = None /\ lockedBy' = r
       \/ lockedBy = r /\ UNCHANGED lockedBy
       \/ lockedBy # None /\ dialect = "mysql" /\ UNCHANGED lockedBy
    /\ replica' = [replica EXCEPT ![r].at = "count", ![r].mine = lockedBy = None]
    /\ UNCHANGED <<dialect, history, schema, recorded, crashes>>

\* COUNT_APPLIED.
CountApplied(r) ==
    /\ At(r, "count")
    /\ Goto(r, IF recorded THEN "unlock" ELSE "apply")
    /\ UNCHANGED <<dialect, history, schema, recorded, lockedBy, crashes>>

Visible(r) == schema \cup replica[r].made

\* Mutant: the version is recorded before its statements.
RecordFirst(r) ==
    /\ At(r, "apply")
    /\ IF Visible(r) = {} /\ ~recorded
       THEN recorded' = TRUE /\ UNCHANGED <<schema, replica>>
       ELSE LET done == Cardinality(Visible(r)) = Statements
            IN  /\ schema' = IF done THEN schema ELSE schema \cup {Cardinality(schema) + 1}
                /\ Goto(r, IF done THEN "unlock" ELSE "apply")
                /\ UNCHANGED recorded
    /\ UNCHANGED <<dialect, history, lockedBy, crashes>>

\* The statements in order, then RECORD_APPLIED: each commits by itself, or when
\* the caller's transaction does.  Two transactions that make the same object both go
\* on here; PostgreSQL lets the second wait, and fail once the first has committed.
Apply(r) ==
    LET n == Cardinality(Visible(r)) + 1
    IN  /\ At(r, "apply")
        /\ IF n <= Statements
           THEN /\ IF Hides(r)
                   THEN /\ replica' = [replica EXCEPT ![r].made = @ \cup {n}]
                        /\ UNCHANGED schema
                   ELSE schema' = schema \cup {n} /\ UNCHANGED replica
                /\ UNCHANGED recorded
           ELSE /\ IF Hides(r)
                   THEN /\ replica' = [replica EXCEPT ![r].record = TRUE, ![r].at = "unlock"]
                        /\ UNCHANGED recorded
                   ELSE recorded' = TRUE /\ Goto(r, "unlock")
                /\ UNCHANGED schema
        /\ UNCHANGED <<dialect, history, lockedBy, crashes>>

Unlocked(r) == IF replica[r].mine THEN None ELSE lockedBy

\* UNLOCK, and Ok.  Under apply_tx the lock is let go before the caller commits.
Unlock(r) ==
    /\ At(r, "unlock")
    /\ lockedBy' = Unlocked(r)
    /\ Goto(r, IF replica[r].tx THEN "commit" ELSE "ok")
    /\ UNCHANGED <<dialect, history, schema, recorded, crashes>>

\* The caller commits its transaction.
Commit(r) ==
    /\ At(r, "commit")
    /\ schema' = schema \cup replica[r].made
    /\ recorded' = (recorded \/ replica[r].record)
    /\ Goto(r, "ok")
    /\ UNCHANGED <<dialect, history, lockedBy, crashes>>

Running(r) == replica[r].at \in {"history", "creating", "lock", "count", "apply", "unlock", "commit"}

\* A statement fails.  The unlock that follows is refused by a transaction that
\* has failed in PostgreSQL, and its error ignored: the session keeps the lock.
StatementFails(r) ==
    /\ At(r, "apply")
    /\ crashes < MaxCrashes
    /\ crashes' = crashes + 1
    /\ replica' = [replica EXCEPT ![r] = [at |-> "failed"]]
    /\ lockedBy' = IF Hides(r) /\ dialect = "postgres" THEN lockedBy ELSE Unlocked(r)
    /\ UNCHANGED <<dialect, history, schema, recorded>>

\* The call is dropped: its session goes back to the pool, with the lock it has.
DropMigrate(r) ==
    /\ Running(r)
    /\ crashes < MaxCrashes
    /\ crashes' = crashes + 1
    /\ replica' = [replica EXCEPT ![r] = [at |-> "failed"]]
    /\ UNCHANGED <<dialect, history, schema, recorded, lockedBy>>

\* The process dies: its sessions end, and the lock with them.  It may start again.
CrashReplica(r) ==
    /\ Running(r) \/ lockedBy = r
    /\ crashes < MaxCrashes
    /\ crashes' = crashes + 1
    /\ replica' = [replica EXCEPT ![r] = [at |-> "idle"]]
    /\ lockedBy' = IF lockedBy = r THEN None ELSE lockedBy
    /\ UNCHANGED <<dialect, history, schema, recorded>>

MigrateNext ==
    \E r \in Replicas :
        \/ \E tx \in BOOLEAN : BeginMigrate(r, tx)
        \/ FindHistory(r) \/ CreateHistory(r) \/ TakeLock(r) \/ CountApplied(r) \/ Apply(r)
        \/ Unlock(r) \/ Commit(r)
        \/ StatementFails(r) \/ DropMigrate(r) \/ CrashReplica(r)

MigrateSpec == MigrateInit /\ [][MigrateNext]_migrateVars
-----------------------------------------------------------------------------
\* A migration that returned Ok, and whose transaction committed if it had one, left
\* the whole schema in place, whichever replicas raced it, lost the lock, died or
\* were dropped after some of the statements.
OkMeansSchema ==
    \A r \in Replicas : At(r, "ok") => schema = 1..Statements

\* "Safe to run from every replica at once": no migration fails where nothing went
\* wrong but that another one ran.
SafeFromEveryReplica ==
    crashes = 0 => \A r \in Replicas : ~At(r, "failed")

\* "Session-scoped, so it must be released": the lock is held by a call that runs.
LockIsInUse ==
    lockedBy # None => Running(lockedBy)
=============================================================================
