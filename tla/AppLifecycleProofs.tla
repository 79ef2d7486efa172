------------------------- MODULE AppLifecycleProofs -------------------------
(***************************************************************************)
(* What AppLifecycle guarantees for any number of connections and under    *)
(* every combination of faults, and what DevSupervisor shows for any        *)
(* contents, environments and number of edits.                             *)
(*                                                                         *)
(* ServesTheProject speaks of a loop at rest.  The invariant follows the    *)
(* source and the environment on their way there, each on its own: the      *)
(* source from the edit to the held change, cargo, the disk and the         *)
(* process, the environment from the edit to a Restart and the process.     *)
(***************************************************************************)
EXTENDS AppLifecycle, DevSupervisor, TLAPS

(***************************************************************************)
(* The application run                                                     *)
(***************************************************************************)

\* Before teardown everything that was started is open.
StartedIsOpen == pc \in {"bind", "start", "ready", "serve", "drain"} => resources \subseteq open

\* Requests are in flight only while the run serves, or once it has returned
\* from a failed accept loop.
FlightsWhileServing ==
    /\ InFlight # {} => pc \in {"serve", "returned"} /\ resources \subseteq open
    /\ listener = "accepting" => pc = "serve"

\* Only running jobs have tasks, and their database is open.
TasksBelong == Running # {} => "jobs" \in resources /\ "database" \in open

\* Where the run is in Order.
Positions == /\ pc = "start" => at >= 1
             /\ pc = "stop" => at <= Last
             /\ pc \in {"worker", "scheduler"} => at = 2

\* How far teardown has come.
TornDown ==
    /\ pc = "scheduler" => task["worker"] # "running"
    /\ pc = "stop" /\ at < 2 => Running = {}
    /\ pc \in {"stop", "worker", "scheduler"} /\ at < Last => "mail" \notin open
    /\ pc = "stop" /\ at < 1 => "database" \notin open
    /\ result # "none" => pc = "returned"

IInv == TypeOK /\ Positions /\ StartedIsOpen /\ FlightsWhileServing /\ TasksBelong /\ TornDown
        /\ CleanStop

\* Positions of Order hold subsystems, jobs in the second.
LEMMA OrderFacts == /\ \A i \in 1..Last : Order[i] \in Subsystems
                    /\ \A i \in 1..Last : Order[i] = "jobs" <=> i = 2
                    /\ \A i \in 1..Last : Order[i] = "database" <=> i = 1
                    /\ \A i \in 1..Last : Order[i] = "mail" <=> i = Last
<1> SUFFICES ASSUME NEW i \in 1..Last
             PROVE  /\ Order[i] \in Subsystems
                    /\ Order[i] = "jobs" <=> i = 2
                    /\ Order[i] = "database" <=> i = 1
                    /\ Order[i] = "mail" <=> i = Last
  OBVIOUS
<1>1. i = 1 \/ i = 2 \/ i = 3 \/ i = 4 \/ i = 5
  BY DEF Last
<1> QED BY <1>1 DEF Order, Subsystems, Last

\* Type correctness, and with it where the run stands in Order, is inductive.
LEMMA TypeStep == TypeOK /\ Positions /\ [Next]_vars => TypeOK' /\ Positions'
<1> SUFFICES ASSUME TypeOK, Positions, [Next]_vars PROVE TypeOK' /\ Positions'
  OBVIOUS
<1> USE DEF TypeOK, Positions, run, Return, Last, Subsystems, Closable, Tasks, States, Probed
<1>1. ASSUME RunStep \/ ServeFails \/ Signal PROVE TypeOK' /\ Positions'
  <2>1. CASE Bind BY <2>1 DEF Bind
  <2>2. CASE StartOne
    <3>1. at \in 1..Last /\ Order[at] \in Subsystems
      BY <2>2, OrderFacts DEF StartOne
    <3> HIDE DEF Subsystems
    <3>2. resources' \subseteq Subsystems /\ open' \subseteq Subsystems
      BY <2>2, <3>1 DEF StartOne
    <3>3. task' \in [Tasks -> {"none", "running", "ok", "err", "panicked"}]
      BY <2>2 DEF StartOne
    <3>4. at' \in 0..(Last + 1) /\ at' >= 1
      BY <2>2, <3>1 DEF StartOne
    <3> QED BY <2>2, <3>2, <3>3, <3>4 DEF StartOne
  <2>3. CASE StartSkips BY <2>3 DEF StartSkips
  <2>4. CASE StartFails BY <2>4 DEF StartFails
  <2>5. CASE Publish BY <2>5 DEF Publish
  <2>6. CASE MarkReady BY <2>6 DEF MarkReady
  <2>7. CASE StopAccepting BY <2>7 DEF StopAccepting
  <2>8. CASE ServeReturns BY <2>8 DEF ServeReturns
  <2>9. CASE BeginDrain BY <2>9 DEF BeginDrain
  <2>10. CASE StopOne BY <2>10 DEF StopOne
  <2>11. CASE StopJobs BY <2>11, OrderFacts DEF StopJobs
  <2>12. CASE AwaitWorker BY <2>12 DEF AwaitWorker
  <2>13. CASE AwaitScheduler BY <2>13 DEF AwaitScheduler
  <2>14. CASE MarkStopped BY <2>14 DEF MarkStopped
  <2>15. CASE ServeFails BY <2>15 DEF ServeFails
  <2>16. CASE Signal BY <2>16 DEF Signal
  <2> QED BY <1>1, <2>1, <2>2, <2>3, <2>4, <2>5, <2>6, <2>7, <2>8, <2>9, <2>10, <2>11, <2>12,
             <2>13, <2>14, <2>15, <2>16 DEF RunStep
<1>2. ASSUME NEW c \in Conns, Accept(c) \/ AcceptProbe(c) \/ ConnStep(c) PROVE TypeOK' /\ Positions'
  <2>1. CASE Accept(c) BY <2>1 DEF Accept
  <2>2. CASE AcceptProbe(c)
    <3>1. [at |-> "probe", state |-> lifecycle, todo |-> published \cap Probed, up |-> TRUE]
            \in Probing
      BY DEF Probing
    <3> QED BY <2>2, <3>1 DEF AcceptProbe
  <2>3. ASSUME NEW s \in Probed, ProbeOne(c, s) PROVE TypeOK' /\ Positions'
    <3>1. conn[c] \in Probing
      BY <2>3 DEF ProbeOne, Idle, Handling, Answered
    <3>2. PICK up \in BOOLEAN :
            conn' = [conn EXCEPT ![c] = [at |-> "probe", state |-> conn[c].state,
                                         todo |-> conn[c].todo \ {s}, up |-> conn[c].up /\ up]]
      BY <2>3 DEF ProbeOne
    <3>3. [at |-> "probe", state |-> conn[c].state, todo |-> conn[c].todo \ {s},
           up |-> conn[c].up /\ up] \in Probing
      BY <3>1 DEF Probing
    <3> QED BY <2>3, <3>2, <3>3 DEF ProbeOne
  <2>4. CASE ProbeAnswers(c)
    <3>1. conn[c] \in Probing
      BY <2>4 DEF ProbeAnswers, Idle, Handling, Answered
    <3>2. [at |-> "answered", ready |-> conn[c].state = "ready" /\ conn[c].up] \in Answered
      BY <3>1 DEF Probing, Answered
    <3> QED BY <2>4, <3>2 DEF ProbeAnswers
  <2>5. CASE Respond(c) BY <2>5 DEF Respond
  <2> QED BY <1>2, <2>1, <2>2, <2>3, <2>4, <2>5 DEF ConnStep
<1>3. ASSUME NEW t \in Tasks, NEW how \in {"ok", "err", "panicked"}, TaskEnds(t, how) PROVE TypeOK' /\ Positions'
  BY <1>3 DEF TaskEnds
<1>4. CASE AppLoad BY <1>4 DEF AppLoad
<1>5. CASE AppSwaps BY <1>5 DEF AppSwaps
<1>6. CASE UNCHANGED vars BY <1>6 DEF vars
<1> QED BY <1>1, <1>2, <1>3, <1>4, <1>5, <1>6 DEF Next

\* Every action keeps what ties teardown to the requests and the tasks.
LEMMA InvStep == IInv /\ [Next]_vars => IInv'
<1> SUFFICES ASSUME IInv, [Next]_vars PROVE IInv'
  OBVIOUS
<1>0. TypeOK' /\ Positions'
  BY TypeStep DEF IInv
<1> SUFFICES StartedIsOpen' /\ FlightsWhileServing' /\ TasksBelong' /\ TornDown' /\ CleanStop'
  BY <1>0 DEF IInv
<1> USE <1>0 DEF IInv, TypeOK, Positions, StartedIsOpen, FlightsWhileServing, TasksBelong,
        TornDown, CleanStop, InFlight, Running, run, Return, Last, Closable, Tasks
<1>1. CASE Bind BY <1>1 DEF Bind
<1>2. CASE StartOne BY <1>2, OrderFacts DEF StartOne
<1>3. CASE StartSkips BY <1>3 DEF StartSkips
<1>4. CASE StartFails BY <1>4 DEF StartFails
<1>5. CASE Publish BY <1>5 DEF Publish
<1>6. CASE MarkReady BY <1>6 DEF MarkReady
<1>7. CASE StopAccepting BY <1>7 DEF StopAccepting
<1>8. CASE ServeReturns BY <1>8 DEF ServeReturns
<1>9. CASE BeginDrain BY <1>9 DEF BeginDrain
<1>10. CASE StopOne
  <2>1. at \in 1..5 /\ at' = at - 1 /\ pc = "stop" /\ pc' = "stop"
    BY <1>10 DEF StopOne
  <2>2. InFlight' = {} /\ Running' = Running /\ result' = "none" /\ listener' # "accepting"
    BY <1>10 DEF StopOne
  <2>0. \A s \in Closable : s \in open' <=> s \in open /\ s # Order[at]
    BY <1>10 DEF StopOne
  <2>3. "mail" \notin open'
    BY <2>0, <2>1, OrderFacts
  <2>4. at' < 1 => "database" \notin open'
    BY <2>0, <2>1, OrderFacts
  <2>5. at' < 2 => Running = {}
    BY <1>10, <2>1, OrderFacts DEF StopOne
  <2>6. Running # {} => "database" \in open'
    BY <1>10, <2>0, <2>1, OrderFacts DEF StopOne
  <2> HIDE DEF InFlight, Running
  <2> QED BY <1>10, <2>1, <2>2, <2>3, <2>4, <2>5, <2>6 DEF StopOne
<1>11. CASE StopJobs BY <1>11 DEF StopJobs
<1>12. CASE AwaitWorker BY <1>12 DEF AwaitWorker
<1>13. CASE AwaitScheduler BY <1>13 DEF AwaitScheduler
<1>14. CASE MarkStopped BY <1>14 DEF MarkStopped
<1>15. CASE ServeFails BY <1>15 DEF ServeFails
<1>16. CASE Signal BY <1>16 DEF Signal
<1>17. ASSUME NEW c \in Conns, Accept(c) \/ AcceptProbe(c) PROVE IInv'
  BY <1>17 DEF Accept, AcceptProbe
<1>18. ASSUME NEW c \in Conns, ConnStep(c) PROVE IInv'
  <2>1. conn[c] # Idle
    BY <1>18 DEF ConnStep, ProbeOne, ProbeAnswers, Respond, Idle
  <2>2. InFlight' \subseteq InFlight
    BY <1>18, <2>1 DEF ConnStep, ProbeOne, ProbeAnswers, Respond
  <2> HIDE DEF InFlight
  <2> QED BY <1>18, <2>2 DEF ConnStep, ProbeOne, ProbeAnswers, Respond
<1>19. ASSUME NEW t \in Tasks, NEW how \in {"ok", "err", "panicked"}, TaskEnds(t, how) PROVE IInv'
  <2>1. Running' \subseteq Running
    BY <1>19 DEF TaskEnds
  <2> HIDE DEF Running
  <2> QED BY <1>19, <2>1 DEF TaskEnds
<1>20. CASE AppLoad BY <1>20 DEF AppLoad
<1>21. CASE AppSwaps BY <1>21 DEF AppSwaps
<1>22. CASE UNCHANGED vars BY <1>22 DEF vars
<1> QED BY <1>1, <1>2, <1>3, <1>4, <1>5, <1>6, <1>7, <1>8, <1>9, <1>10, <1>11, <1>12, <1>13, <1>14,
           <1>15, <1>16, <1>17, <1>18, <1>19, <1>20, <1>21, <1>22 DEF Next, RunStep

LEMMA InvHolds == Spec => []IInv
<1>1. ASSUME Init PROVE IInv
  <2> USE <1>1 DEF Init
  <2>a. /\ configured \subseteq Subsystems \cup {"scheduler"}
        /\ task \in [Tasks -> {"none", "running", "ok", "err", "panicked"}]
        /\ conn \in [Conns -> {Idle, Handling} \cup Probing \cup Answered]
    OBVIOUS
  <2>b. cancelled \in BOOLEAN /\ signal \in BOOLEAN
    OBVIOUS
  <2>c. /\ pc = "bind" /\ at = 0 /\ result = "none" /\ lifecycle = "starting"
        /\ resources = {} /\ published = {} /\ open = {} /\ listener = "none" /\ seen = "none"
    OBVIOUS
  <2>1. TypeOK /\ Positions
    <3> HIDE DEF Init
    <3> QED BY <2>a, <2>b, <2>c DEF TypeOK, Positions, Last, States
  <2>2. InFlight = {} /\ Running = {}
    BY <1>1 DEF Init, InFlight, Running
  <2> QED BY <1>1, <2>1, <2>2 DEF Init, IInv, StartedIsOpen, FlightsWhileServing, TasksBelong,
                                 TornDown, CleanStop
<1> QED BY <1>1, InvStep, PTL DEF Spec

\* The worker and the scheduler never lose the pool they borrow, whichever
\* subsystem fails to start, task fails or panics, or request is in flight.
THEOREM TasksHaveDatabaseCorrect == Spec => []TasksHaveDatabase
<1>1. IInv => TasksHaveDatabase
  BY DEF IInv, TasksBelong, TasksHaveDatabase
<1> QED BY <1>1, InvHolds, PTL

\* Every request in flight sees its subsystems open.
THEOREM RequestsSeeOpenCorrect == Spec => []RequestsSeeOpen
<1>1. IInv => RequestsSeeOpen
  BY DEF IInv, FlightsWhileServing, RequestsSeeOpen
<1> QED BY <1>1, InvHolds, PTL

\* A run that returns Ok has taken everything down.
THEOREM CleanStopCorrect == Spec => []CleanStop
<1>1. IInv => CleanStop
  BY DEF IInv
<1> QED BY <1>1, InvHolds, PTL

\* The lifecycle moves forwards only.
THEOREM LifecycleForwardCorrect == Spec => LifecycleForward
<1>1. IInv /\ [Next]_vars => [Rank[lifecycle'] >= Rank[lifecycle]]_vars
  <2> SUFFICES ASSUME IInv, Next PROVE Rank[lifecycle'] >= Rank[lifecycle]
    BY DEF vars
  <2>1. lifecycle \in States
    BY DEF IInv, TypeOK
  <2>2. CASE UNCHANGED lifecycle
    BY <2>1, <2>2 DEF States, Rank
  <2>3. CASE MarkReady \/ BeginDrain \/ MarkStopped \/ AppSwaps
    BY <2>1, <2>3 DEF IInv, TypeOK, MarkReady, BeginDrain, MarkStopped, AppSwaps, States, Rank
  <2>4. UNCHANGED lifecycle \/ MarkReady \/ BeginDrain \/ MarkStopped \/ AppSwaps
    BY DEF Next, RunStep, ConnStep, Bind, StartOne, StartSkips, StartFails, Publish,
           StopAccepting, ServeReturns, StopOne, StopJobs, AwaitWorker, AwaitScheduler, ServeFails,
           Signal, Accept, AcceptProbe, ProbeOne, ProbeAnswers, Respond, TaskEnds, AppLoad
  <2> QED BY <2>2, <2>3, <2>4
<1> QED BY <1>1, InvHolds, PTL DEF Spec, LifecycleForward

(***************************************************************************)
(* The development loop                                                    *)
(***************************************************************************)
\* The loop's own values.
DevTypes ==
    /\ src \in Contents \cup {Broken}
    /\ pending \in {None, "restart", "rebuild"} /\ next \in {None, "restart", "rebuild"}
    /\ compiled \in Contents \cup {Broken, None}
    /\ cancel \in {None, "newer", "ctrl_c"}
    /\ built \in BOOLEAN
    /\ built => disk \in Contents
    /\ ~built => child = NoChild
    /\ child # NoChild => child.src \in Contents
    /\ child = [src |-> child.src, env |-> child.env, up |-> child.up]
    /\ work \in {"staging", "booting", "typegen"} => built
    /\ work = "succeeded" => disk \in Contents

\* A change cancelled for a newer one has that one in next, and a build that no
\* Restart preempted has no Restart in next.
CancelledFor ==
    /\ cancel = "newer" => next # None
    /\ ~preempted /\ work \in {"building", "cancelled"} => next # "restart"
    /\ work = "cancelled" => cancel # None

\* The source of the project is on its way, or is what the binary on disk was made of.
SourceReaches ==
    \/ pending = "rebuild" \/ next = "rebuild"
    \/ src \notin Contents
    \/ work = "building" /\ compiled \in {None, src}
    \/ work \in {"idle", "succeeded", "staging", "booting", "typegen"} /\ disk = src
    \/ work \in {"finishing", "ended"} \/ preempted \/ (work = "cancelled" /\ cancel = "ctrl_c")

\* The environment of the project is on its way, or is what the process runs in.
EnvReaches ==
    \/ pending = "restart" \/ next = "restart"
    \/ child = NoChild \/ child.env = env
    \/ work \in {"staging", "finishing", "ended"} \/ mixed \/ preempted

\* What the process was started from: the recorded digest between boots where one
\* could be read, the binary on disk while it boots and once it is ready.
ProcessOfDigest ==
    /\ work # "booting" /\ child # NoChild /\ ~unrecorded => digest \in {child.src, None}
    /\ work = "succeeded" => compiled # None
    /\ work \in {"staging", "booting"} /\ compiled # None => fingerprint \in {disk, None}
    /\ work \in {"booting", "typegen"} => child # NoChild /\ child.src = disk
    /\ work = "idle" /\ status = "ready" => child # NoChild /\ (child.src = disk \/ unrecorded)
    /\ Working /\ work # "typegen" => status = "building"

DevInv == DevTypes /\ CancelledFor /\ SourceReaches /\ EnvReaches /\ ProcessOfDigest

LEMMA NoneApart == None \notin Contents /\ None # Broken /\ Broken \notin Contents
                   /\ None # "restart" /\ None # "rebuild" /\ None # "newer" /\ None # "ctrl_c"
  BY DevConstants DEF None

LEMMA DevStart == DevInit => DevInv
  BY DEF DevInit, DevInv, DevTypes, CancelledFor, SourceReaches, EnvReaches, ProcessOfDigest,
         NoChild, None, Working

LEMMA EditKeeps ==
  ASSUME DevInv, (\E s \in Contents \cup {Broken} : EditSource(s)) \/ (\E e \in Envs : EditEnv(e))
  PROVE  DevInv'
  <1>1. CASE \E s \in Contents \cup {Broken} : EditSource(s)
    <2>1. PICK s \in Contents \cup {Broken} : EditSource(s)
      BY <1>1
    <2> QED BY <2>1, NoneApart DEF EditSource, Noticed, Costlier, DevInv, DevTypes, CancelledFor,
            SourceReaches, EnvReaches, ProcessOfDigest, Working, backendVars
  <1>2. CASE \E e \in Envs : EditEnv(e)
    <2>1. PICK e \in Envs : EditEnv(e)
      BY <1>2
    <2> QED BY <2>1, NoneApart DEF EditEnv, Noticed, Costlier, DevInv, DevTypes, CancelledFor,
            SourceReaches, EnvReaches, ProcessOfDigest, Working, backendVars
  <1> QED BY <1>1, <1>2

LEMMA CrashKeeps ==
  ASSUME DevInv, ChildCrashes
  PROVE  DevInv'
  <1>1. /\ child # NoChild /\ child' # NoChild /\ child'.src = child.src /\ child'.env = child.env
        /\ child' = [src |-> child'.src, env |-> child'.env, up |-> child'.up]
    <2>1. child # NoChild
      BY DEF ChildCrashes, NoChild
    <2>2. PICK s, e, u : child = [src |-> s, env |-> e, up |-> u]
      BY DEF DevInv, DevTypes
    <2>3. child' = [src |-> s, env |-> e, up |-> FALSE]
      BY <2>2 DEF ChildCrashes
    <2>4. s \in Contents
      BY <2>1, <2>2 DEF DevInv, DevTypes
    <2>5. child'.src = s /\ child'.env = e /\ child'.up = FALSE
      BY <2>3
    <2>6. child' # NoChild
      BY <2>4, <2>5, NoneApart DEF NoChild
    <2> QED BY <2>1, <2>2, <2>3, <2>5, <2>6
  <1> QED BY <1>1 DEF ChildCrashes, DevInv, DevTypes, CancelledFor,
            SourceReaches, EnvReaches, ProcessOfDigest, Working, projectVars, historyVars

\* The end of the session asks nothing more.
LEMMA EndKeeps ==
  ASSUME DevInv, work' = "ended", child' = NoChild,
         UNCHANGED <<src, env, pending, next, cancel, compiled, disk, built, digest, fingerprint,
                     status, mixed, preempted, unrecorded>>
  PROVE  DevInv'
  BY DEF DevInv, DevTypes, CancelledFor,
         SourceReaches, EnvReaches, ProcessOfDigest, Working, NoChild

\* What a step of the signal, or of the watcher's end, leaves alone.
LEMMA SignalKeeps ==
  ASSUME DevInv,
         UNCHANGED <<src, env, pending, next, work, compiled, disk, built, digest, fingerprint,
                     child, status, mixed, preempted, unrecorded>>,
         cancel' \in {cancel, "ctrl_c"}
  PROVE  DevInv'
  BY NoneApart DEF DevInv, DevTypes, CancelledFor,
         SourceReaches, EnvReaches, ProcessOfDigest, Working

LEMMA TakeKeeps ==
  ASSUME DevInv, TakeChange
  PROVE  DevInv'
  BY NoneApart DEF TakeChange, Begin, projectVars, historyVars, DevInv, DevTypes, CancelledFor,
         SourceReaches, EnvReaches, ProcessOfDigest, Working

LEMMA SupersedeKeeps ==
  ASSUME DevInv, Supersede
  PROVE  DevInv'
  <1>1. /\ next = None /\ pending \in {"restart", "rebuild"} /\ next' = pending /\ pending' = None
        /\ cancel = None /\ cancel' = "newer" /\ Working /\ work # "cancelled"
        /\ preempted' = (preempted \/ (pending = "restart" /\ work = "building"))
        /\ UNCHANGED <<src, env, work, compiled, disk, built, digest, fingerprint, child, status,
                       mixed, unrecorded>>
    BY NoneApart DEF Supersede, projectVars, backendVars, DevInv, DevTypes, CancelledFor, Working
  <1>2. DevTypes' /\ ProcessOfDigest'
    BY <1>1 DEF DevInv, DevTypes, ProcessOfDigest, Working
  <1>3. CancelledFor'
    BY <1>1, NoneApart DEF DevInv, CancelledFor
  <1>4. SourceReaches'
    BY <1>1, NoneApart DEF DevInv, SourceReaches, Working
  <1>5. EnvReaches'
    BY <1>1, NoneApart DEF DevInv, EnvReaches, Working
  <1> QED BY <1>2, <1>3, <1>4, <1>5 DEF DevInv

\* Where the poll that finishes a change leaves the loop.
LEMMA FinishFacts ==
  ASSUME Finish
  PROVE  work' = IF cancel = "ctrl_c" THEN "finishing" ELSE "idle"
  BY DEF Finish

LEMMA BuildKeeps ==
  ASSUME DevInv, CargoReads \/ CargoLinks \/ CargoEnds
  PROVE  DevInv'
  <1>1. CASE CargoReads
    BY <1>1, NoneApart DEF CargoReads, projectVars, backendVars, historyVars, DevInv, DevTypes, CancelledFor,
         SourceReaches, EnvReaches, ProcessOfDigest, Working
  <1>2. CASE CargoLinks
    BY <1>2, NoneApart DEF CargoLinks, projectVars, historyVars, DevInv, DevTypes, CancelledFor,
         SourceReaches, EnvReaches, ProcessOfDigest, Working
  <1>3. CASE CargoEnds
    BY <1>3, NoneApart DEF CargoEnds, projectVars, backendVars, historyVars, DevInv, DevTypes, CancelledFor,
         SourceReaches, EnvReaches, ProcessOfDigest, Working
  <1> QED BY <1>1, <1>2, <1>3

LEMMA ReloadKeeps ==
  ASSUME DevInv, BuildFails \/ BuildCancelled \/ BuildSucceeds \/ Regenerate
  PROVE  DevInv'
  <1>1. CASE BuildFails
    BY <1>1, FinishFacts, NoneApart DEF BuildFails, projectVars, backendVars, historyVars, DevInv, DevTypes, CancelledFor,
         SourceReaches, EnvReaches, ProcessOfDigest, Working
  <1>2. CASE BuildCancelled
    BY <1>2, FinishFacts, NoneApart DEF BuildCancelled, projectVars, backendVars, historyVars, DevInv, DevTypes, CancelledFor,
         SourceReaches, EnvReaches, ProcessOfDigest, Working
  <1>3. CASE BuildSucceeds
    <2>1. \/ /\ status' = "ready" /\ work' = (IF cancel = "ctrl_c" THEN "finishing" ELSE "idle")
             /\ child # NoChild /\ disk = digest /\ disk # None
          \/ status' = status /\ work' = "staging"
      BY <1>3, FinishFacts DEF BuildSucceeds, Unchanged
    <2>2. work = "succeeded" /\ built' = TRUE /\ fingerprint' \in {disk, None}
      BY <1>3 DEF BuildSucceeds
    <2>3. UNCHANGED <<src, env, pending, next, cancel, compiled, disk, digest, child, mixed, preempted,
                      unrecorded>>
      BY <1>3 DEF BuildSucceeds, projectVars, historyVars
    <2> QED BY <2>1, <2>2, <2>3, NoneApart DEF DevInv, DevTypes, CancelledFor,
         SourceReaches, EnvReaches, ProcessOfDigest, Working
  <1>4. CASE Regenerate
    BY <1>4, FinishFacts, NoneApart DEF Regenerate, projectVars, backendVars, historyVars, DevInv, DevTypes, CancelledFor,
         SourceReaches, EnvReaches, ProcessOfDigest, Working
  <1> QED BY <1>1, <1>2, <1>3, <1>4

LEMMA RestartKeeps ==
  ASSUME DevInv, StageAndSpawn \/ Booted
  PROVE  DevInv'
  <1>1. CASE StageAndSpawn
    <2>1. child'.src = disk /\ child'.env = env /\ child' # NoChild
      BY <1>1, NoneApart DEF StageAndSpawn, DevInv, DevTypes, NoChild
    <2> QED BY <1>1, <2>1, NoneApart DEF StageAndSpawn, projectVars, historyVars, DevInv, DevTypes, CancelledFor,
         SourceReaches, EnvReaches, ProcessOfDigest, Working
  <1>2. CASE Booted
    BY <1>2, NoneApart DEF Booted, projectVars, DevInv, DevTypes, CancelledFor,
         SourceReaches, EnvReaches, ProcessOfDigest, Working
  <1> QED BY <1>1, <1>2

LEMMA DevStep ==
  ASSUME DevInv, [DevNext]_devVars
  PROVE  DevInv'
  <1>1. CASE PressCtrlC
    <2>1. CASE StopBackend
      BY <1>1, <2>1, EndKeeps DEF PressCtrlC, StopBackend, projectVars, historyVars
    <2>2. CASE ~StopBackend
      BY <1>1, <2>2, SignalKeeps DEF PressCtrlC, backendVars, projectVars, historyVars
    <2> QED BY <2>1, <2>2
  <1>2. CASE CancelOnInterrupt \/ Listen \/ IgnoreWatcher \/ WatcherEnds \/ UNCHANGED devVars
    BY <1>2, SignalKeeps DEF CancelOnInterrupt, Listen, IgnoreWatcher, WatcherEnds, devVars,
       backendVars, projectVars, historyVars
  <1>3. CASE StopIdle \/ WorkErrors \/ StopAfterWork
    BY <1>3, EndKeeps DEF StopIdle, WorkErrors, StopAfterWork, StopBackend, projectVars, historyVars
  <1> QED BY <1>1, <1>2, <1>3, EditKeeps, CrashKeeps, TakeKeeps, SupersedeKeeps, BuildKeeps,
             ReloadKeeps, RestartKeeps DEF DevNext, Loop

\* What the loop shows once it is quiet and ready is the project on disk, but for the
\* three exceptions the property names.
THEOREM DevCorrect == DevSpec => []ServesTheProject
  <1>1. DevInv => ServesTheProject
    BY NoneApart DEF DevInv, DevTypes, SourceReaches, EnvReaches, ProcessOfDigest,
                     ServesTheProject, Quiet
  <1>2. DevInv /\ [DevNext]_devVars => DevInv'
    BY DevStep
  <1> QED BY <1>1, <1>2, DevStart, PTL DEF DevSpec
=============================================================================
