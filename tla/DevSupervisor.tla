--------------------------- MODULE DevSupervisor ---------------------------
(***************************************************************************)
(* `arc dev`: the rebuild loop of cli/commands/dev, its file watcher, the   *)
(* compiler it may kill, and the application process it replaces.          *)
(*                                                                         *)
(* A source edit is a new content (or one that does not compile), an edit   *)
(* of .env a new environment.  A binary is known by the content it was      *)
(* compiled from: equal sources give equal digests.  cargo writes every     *)
(* binary to the same path, so `built` is only whether a build ever         *)
(* succeeded, and `disk` is what is at that path.                          *)
(***************************************************************************)
EXTENDS Integers

CONSTANTS Contents,     \* source contents that compile
          Broken,       \* a content that does not
          Envs,         \* contents of .env
          MaxEdits      \* bound: edits of a session

None == "none"

ASSUME DevConstants ==
    /\ Broken \notin Contents
    /\ None \notin Contents \cup {Broken}
    /\ MaxEdits \in Nat

VARIABLES src, env,     \* the project
          pending,      \* the watcher: the costliest change of the burst so far
          next,         \* the change the loop does next
          work,         \* the step of the change under way
          cancel,       \* its Cancel: who asked for it, if anyone did
          compiled,     \* the content cargo has read
          disk,         \* the binary at the path cargo writes
          built,        \* Backend::built is set
          digest,       \* Backend::built_digest
          fingerprint,  \* the digest of the build under way, None when it cannot be read
          child,        \* the application process
          status,       \* BackendStatus, what held requests wait for
          migrated,     \* Backend::migrated
          hearing,      \* the ctrl_c() future of the current select
          interrupt,    \* it was told of a Ctrl-C
          watching,     \* the watcher's sender lives
          edits,        \* edits so far
          mixed,        \* history: a burst held both kinds of change
          preempted,    \* history: a Restart came while a Rebuild was under way
          unrecorded    \* history: a Restart ran a binary other than the recorded digest's

devVars == <<src, env, pending, next, work, cancel, compiled, disk, built, digest,
             fingerprint, child, status, migrated, hearing, interrupt, watching,
             edits, mixed, preempted, unrecorded>>

backendVars == <<disk, built, digest, fingerprint, child, migrated>>
projectVars == <<src, env, edits>>
signalVars == <<hearing, interrupt, watching>>
historyVars == <<mixed, preempted, unrecorded>>

NoChild == [src |-> None, env |-> None, up |-> FALSE]

DevInit ==
    /\ src \in Contents \cup {Broken}
    /\ env \in Envs
    /\ pending = None
    /\ next = "rebuild"
    /\ work = "idle"
    /\ cancel = None
    /\ compiled = None
    /\ disk = None
    /\ built = FALSE
    /\ digest = None
    /\ fingerprint = None
    /\ child = NoChild
    /\ status = "building"
    /\ migrated = FALSE
    /\ hearing = "never"
    /\ interrupt = FALSE
    /\ watching = TRUE
    /\ edits = 0
    /\ mixed = FALSE
    /\ preempted = FALSE
    /\ unrecorded = FALSE
-----------------------------------------------------------------------------
\* Ord on Change: Restart < Rebuild.
Costlier(held, c) == IF held = "rebuild" THEN held ELSE c

\* notify's callback: classify, and the burst so far.
Noticed(c) ==
    /\ pending' = Costlier(pending, c)
    /\ mixed' = (mixed \/ (pending # None /\ pending # c))
    /\ edits < MaxEdits
    /\ edits' = edits + 1

\* A .rs file, Cargo.toml or Cargo.lock changes.
EditSource(s) ==
    /\ work # "ended" /\ watching
    /\ s # src
    /\ src' = s
    /\ Noticed("rebuild")
    /\ UNCHANGED <<env, next, work, cancel, compiled, backendVars, status, signalVars,
                   preempted, unrecorded>>

\* .env or .env.* changes.
EditEnv(e) ==
    /\ work # "ended" /\ watching
    /\ e # env
    /\ env' = e
    /\ Noticed("restart")
    /\ UNCHANGED <<src, next, work, cancel, compiled, backendVars, status, signalVars,
                   preempted, unrecorded>>

\* notify's thread ends, and its sender with it.
WatcherEnds ==
    /\ work # "ended" /\ watching
    /\ watching' = FALSE
    /\ UNCHANGED <<projectVars, pending, next, work, cancel, compiled, backendVars, status,
                   hearing, interrupt, historyVars>>

\* The application process dies by itself.
ChildCrashes ==
    /\ child.up
    /\ child' = [child EXCEPT !.up = FALSE]
    /\ UNCHANGED <<projectVars, pending, next, work, cancel, compiled, disk, built,
                   digest, fingerprint, status, migrated, signalVars, historyVars>>
-----------------------------------------------------------------------------
\* backend.stop and the end of serve.
StopBackend ==
    /\ work' = "ended"
    /\ child' = NoChild
    /\ UNCHANGED <<disk, built, digest, fingerprint, migrated>>

\* Ctrl-C.  Each pass of a select makes a ctrl_c() of its own, which is told of the
\* signals after its first poll and is dropped with the pass: one that comes between
\* two passes is seen by nobody.  Before the very first the signal still kills.
PressCtrlC ==
    /\ work # "ended"
    /\ ~interrupt
    /\ \/ /\ hearing = "never" /\ StopBackend
          /\ UNCHANGED signalVars
       \/ /\ hearing = "on" /\ interrupt' = TRUE
          /\ UNCHANGED <<work, backendVars, hearing, watching>>
       \/ hearing = "off" /\ UNCHANGED <<work, backendVars, signalVars>>
    /\ UNCHANGED <<projectVars, pending, next, cancel, compiled, status, historyVars>>

\* The stages of a change, from run_cargo_build to the types.
Working == work \in {"building", "cancelled", "broken", "succeeded", "staging", "booting",
                     "typegen"}

\* The first poll of a pass's ctrl_c().
Listen ==
    /\ hearing # "on"
    /\ \/ work = "idle" /\ next = None
       \/ Working /\ cancel # "ctrl_c"
    /\ hearing' = "on"
    /\ UNCHANGED <<projectVars, pending, next, work, cancel, compiled, backendVars, status,
                   interrupt, watching, historyVars>>

\* A biased select takes another arm than Ctrl-C's: it had seen no signal, and the
\* pass and its ctrl_c() are over.
PassEnds ==
    /\ hearing = "on" /\ ~interrupt
    /\ hearing' = "off"
    /\ UNCHANGED <<interrupt, watching>>

\* run_change polls the work: alone once Ctrl-C is being obeyed, else after Ctrl-C
\* and the watcher, whose arm is ready at once when the watcher has ended.
Polled ==
    \/ cancel = "ctrl_c"
    \/ hearing = "on" /\ ~interrupt /\ (watching \/ next # None)

\* The poll in which the work is over: the loop goes on, or an interrupted one stops.
Finish ==
    /\ Polled
    /\ IF cancel = "ctrl_c" THEN work' = "finishing" /\ UNCHANGED signalVars
                            ELSE work' = "idle" /\ PassEnds
-----------------------------------------------------------------------------
\* The start of a change: mark_building, and restart_only without a binary is a
\* reload.
Begin(c) ==
    /\ cancel' = None
    /\ status' = "building"
    /\ compiled' = None
    /\ fingerprint' = None
    /\ work' = IF c = "restart" /\ built THEN "staging" ELSE "building"

\* Mutant: taking the held change forgets the burst the watcher has since seen.
TakeChangeForgets ==
    /\ work = "idle"
    /\ \/ next # None /\ Begin(next) /\ pending' = None /\ UNCHANGED signalVars
       \/ next = None /\ pending # None /\ PassEnds /\ Begin(pending) /\ pending' = None
    /\ next' = None
    /\ UNCHANGED <<projectVars, disk, built, digest, child, migrated, historyVars>>

\* rebuild_loop between changes: the change it holds, else the watcher's burst, once
\* its debounce window has closed.
TakeChange ==
    /\ work = "idle"
    /\ \/ next # None /\ Begin(next) /\ UNCHANGED <<pending, signalVars>>
       \/ next = None /\ pending # None /\ PassEnds /\ Begin(pending) /\ pending' = None
    /\ next' = None
    /\ UNCHANGED <<projectVars, disk, built, digest, child, migrated, historyVars>>

\* Mutant: Ctrl-C waits for the watcher to be quiet.
StopIdleWhenQuiet ==
    /\ work = "idle"
    /\ next = None
    /\ pending = None
    /\ interrupt \/ (hearing = "on" /\ ~watching)
    /\ StopBackend
    /\ UNCHANGED <<projectVars, pending, next, cancel, compiled, status, signalVars,
                   historyVars>>

\* Between changes Ctrl-C ends the session, and so does the end of the watcher.
StopIdle ==
    /\ work = "idle"
    /\ next = None
    /\ interrupt \/ (hearing = "on" /\ ~watching /\ pending = None)
    /\ StopBackend
    /\ UNCHANGED <<projectVars, pending, next, cancel, compiled, status, signalVars,
                   historyVars>>

\* run_change: a newer change is held in next, and cancels the one under way.
Supersede ==
    /\ Working
    /\ cancel # "ctrl_c"
    /\ next = None
    /\ pending # None
    /\ PassEnds
    /\ next' = pending
    /\ pending' = None
    /\ cancel' = "newer"
    /\ preempted' = (preempted \/ (pending = "restart" /\ work = "building"))
    /\ UNCHANGED <<projectVars, work, compiled, backendVars, status, mixed, unrecorded>>

\* run_change: the watcher has ended, which its arm ignores, pass after pass.
IgnoreWatcher ==
    /\ Working
    /\ cancel # "ctrl_c"
    /\ ~watching /\ next = None /\ pending = None
    /\ PassEnds
    /\ UNCHANGED <<projectVars, pending, next, work, cancel, compiled, backendVars, status,
                   historyVars>>

\* run_change: Ctrl-C cancels, and the work is still awaited.
CancelOnInterrupt ==
    /\ Working
    /\ interrupt
    /\ cancel # "ctrl_c"
    /\ cancel' = "ctrl_c"
    /\ UNCHANGED <<projectVars, pending, next, work, compiled, backendVars, status,
                   signalVars, historyVars>>
-----------------------------------------------------------------------------
\* cargo reads the sources, at some point of the build.
CargoReads ==
    /\ work = "building"
    /\ compiled = None
    /\ compiled' = src
    /\ UNCHANGED <<projectVars, pending, next, work, cancel, backendVars, status,
                   signalVars, historyVars>>

\* cargo links what it read.
CargoLinks ==
    /\ work = "building"
    /\ compiled \in Contents
    /\ disk # compiled
    /\ disk' = compiled
    /\ UNCHANGED <<projectVars, pending, next, work, cancel, compiled, built, digest,
                   fingerprint, child, status, migrated, signalVars, historyVars>>

\* The build thread returns: cargo was killed or had ended as the request came, or it
\* failed, or it succeeded.  A request that comes later finds the result made.
CargoEnds ==
    /\ work = "building"
    /\ \/ cancel # None /\ work' = "cancelled"
       \/ cancel = None /\ compiled = Broken /\ work' = "broken"
       \/ cancel = None /\ compiled \in Contents /\ disk = compiled /\ work' = "succeeded"
    /\ UNCHANGED <<projectVars, pending, next, cancel, compiled, backendVars, status,
                   signalVars, historyVars>>

\* reload meets Build::Failed.
BuildFails ==
    /\ work = "broken"
    /\ Finish
    /\ status' = "failed"
    /\ UNCHANGED <<projectVars, pending, next, cancel, compiled, backendVars, historyVars>>

\* reload meets Build::Cancelled, and leaves the status.
BuildCancelled ==
    /\ work = "cancelled"
    /\ Finish
    /\ UNCHANGED <<projectVars, pending, next, cancel, compiled, backendVars, status,
                   historyVars>>

\* The binary is the one that was last restarted into, and the process is held:
\* whether it is still alive is not looked at.
Unchanged(f) == child # NoChild /\ f # None /\ f = digest

\* reload meets Build::Succeeded: the path is kept, the binary fingerprinted if it can
\* be read, and an unchanged one ends the reload.
BuildSucceeds ==
    /\ work = "succeeded"
    /\ Polled
    /\ built' = TRUE
    /\ fingerprint' \in {disk, None}
    /\ IF Unchanged(fingerprint')
       THEN status' = "ready" /\ Finish
       ELSE work' = "staging" /\ UNCHANGED <<status, signalVars>>
    /\ UNCHANGED <<projectVars, pending, next, cancel, compiled, disk, digest, child,
                   migrated, historyVars>>

\* restart: stage the binary, stop the previous process, migrate before the
\* first spawn of the session, spawn.
StageAndSpawn ==
    /\ work = "staging"
    /\ Polled
    /\ child' = [src |-> disk, env |-> env, up |-> TRUE]
    /\ migrated' = TRUE
    /\ work' = "booting"
    /\ UNCHANGED <<projectVars, pending, next, cancel, compiled, disk, built, digest,
                   fingerprint, status, signalVars, historyVars>>

\* The process listens: mark_ready.  Only reload records the digest; restart_only
\* does not.
Booted ==
    /\ work = "booting"
    /\ Polled
    /\ child.up
    /\ digest' = IF compiled = None THEN digest ELSE fingerprint
    /\ unrecorded' = (unrecorded \/ (compiled = None /\ digest \notin {disk, None}))
    /\ status' = "ready"
    /\ work' = "typegen"
    /\ UNCHANGED <<projectVars, pending, next, cancel, compiled, disk, built, fingerprint,
                   child, migrated, signalVars, mixed, preempted>>

\* The types are written or not, and the sentinel is touched.
Regenerate ==
    /\ work = "typegen"
    /\ Finish
    /\ UNCHANGED <<projectVars, pending, next, cancel, compiled, backendVars, status,
                   historyVars>>

\* cargo cannot be run, or staging, spawning or listening fails (or times out):
\* the error ends the session, unless Ctrl-C already had.
WorkErrors ==
    /\ work \in {"building", "staging", "booting"}
    /\ Polled
    /\ StopBackend
    /\ UNCHANGED <<projectVars, pending, next, cancel, compiled, status, signalVars,
                   historyVars>>

\* The awaited work of an interrupted change is over.
StopAfterWork ==
    /\ work = "finishing"
    /\ StopBackend
    /\ UNCHANGED <<projectVars, pending, next, cancel, compiled, status, signalVars,
                   historyVars>>

Loop ==
    \/ Listen \/ TakeChange \/ StopIdle \/ Supersede \/ IgnoreWatcher \/ CancelOnInterrupt
    \/ CargoReads \/ CargoLinks \/ CargoEnds
    \/ BuildFails \/ BuildCancelled \/ BuildSucceeds
    \/ StageAndSpawn \/ Booted \/ Regenerate \/ WorkErrors \/ StopAfterWork

DevNext ==
    \/ Loop
    \/ \E s \in Contents \cup {Broken} : EditSource(s)
    \/ \E e \in Envs : EditEnv(e)
    \/ ChildCrashes \/ WatcherEnds
    \/ PressCtrlC

\* The loop keeps stepping: cargo ends, and a boot ends or times out.  Nobody has to
\* press Ctrl-C.
DevSpec == DevInit /\ [][DevNext]_devVars /\ WF_devVars(Loop)
-----------------------------------------------------------------------------
\* Nothing is under way and nothing is waiting.
Quiet == work = "idle" /\ next = None /\ pending = None

\* What the browser is shown once the loop is quiet and says it is ready is the
\* project as it is on disk, unless .env was changed in the same burst as a
\* source, or while a build was under way, or a Restart ran a binary whose build
\* had been cancelled.
ServesTheProject ==
    (Quiet /\ status = "ready" /\ src \in Contents /\ ~mixed /\ ~preempted /\ ~unrecorded)
    => child.src = src /\ child.env = env

\* What rebuild_loop is documented to do, "rebuild on every change": the same
\* with no exception.
ServesEveryChange ==
    (Quiet /\ status = "ready" /\ src \in Contents) => child.src = src

\* Held requests are released only to a process that has listened, and never in
\* the middle of its replacement.
ReadyHasChild ==
    (status = "ready" /\ work # "ended") => child # NoChild /\ (~Working \/ work = "typegen")

\* What run_change's comment says of a watcher that ends: the build is let finish and
\* the loop then discovers it.
WatcherEndIsFound == (~watching) ~> (work = "ended")

\* While the watcher lives the loop always comes to rest, whatever is edited while it
\* works; and a Ctrl-C that reached a listening select ends the session whatever is
\* under way: no build, boot or burst starves it, and the compiler is waited for.
DevProgress ==
    /\ (~Quiet) ~> (Quiet \/ work = "ended" \/ ~watching)
    /\ interrupt ~> (work = "ended")
=============================================================================
