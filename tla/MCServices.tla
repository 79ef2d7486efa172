----------------------------- MODULE MCServices -----------------------------
(***************************************************************************)
(* What an application calls on, for TLC: the cache, notifications, and the *)
(* migrations that run at boot.  They share no state, so a behaviour is of  *)
(* one of them: its focus.  The others stay in their initial state.        *)
(***************************************************************************)
EXTENDS Cache, Notifications, Migrations, TLC

VARIABLE focus

serviceVars == <<cacheVars, noteVars, migrateVars, focus>>

ServicesInit ==
    /\ focus \in {"cache", "notifications", "migrations"}
    /\ CacheInit /\ NoteInit /\ MigrateInit
    /\ focus # "migrations" => dialect = "postgres"

ServicesNext ==
    /\ UNCHANGED focus
    /\ \/ focus = "cache" /\ CacheNext /\ UNCHANGED <<noteVars, migrateVars>>
       \/ focus = "notifications" /\ NoteNext /\ UNCHANGED <<cacheVars, migrateVars>>
       \/ focus = "migrations" /\ MigrateNext /\ UNCHANGED <<cacheVars, noteVars>>

ServicesSpec == ServicesInit /\ [][ServicesNext]_serviceVars

\* Sets of parts that never meet are given the same values, so that few permutations
\* are enough for all of them.
ServiceSymmetry == Permutations(Calls) \cup Permutations(Keys) \cup Permutations(Connections)
=============================================================================
