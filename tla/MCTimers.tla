------------------------------ MODULE MCTimers ------------------------------
(***************************************************************************)
(* The parts of the system that count time, for TLC: the claims of a job    *)
(* worker, the scheduler, the login throttle and the rate limiter.  They    *)
(* share no state, so a behaviour is of one of them: its focus.  The others *)
(* stay in one of their initial states, and the state spaces add up instead *)
(* of multiply.                                                            *)
(***************************************************************************)
EXTENDS LeaseTiming, Scheduler, LoginThrottle, RateLimit, TLC

VARIABLE focus

timerVars == <<leaseVars, schedVars, throttleVars, vars, focus>>

\* Configurations only the part in focus tells apart are fixed for the others.
TimersInit ==
    /\ focus \in {"lease", "scheduler", "throttle", "rate"}
    /\ LeaseInit /\ SchedInit /\ ThrottleInit /\ Init
    /\ focus # "lease" => config = CHOOSE c \in Config : Validated(c)
    /\ focus # "scheduler" => cadence = [e \in 1..Entries |-> CHOOSE c \in Cadences : TRUE]
    /\ focus # "rate" => mode = CHOOSE b \in Modes : TRUE

TimersNext ==
    /\ UNCHANGED focus
    /\ \/ focus = "lease" /\ LeaseNext /\ UNCHANGED <<schedVars, throttleVars, vars>>
       \/ focus = "scheduler" /\ SchedNext /\ UNCHANGED <<leaseVars, throttleVars, vars>>
       \/ focus = "throttle" /\ ThrottleNext /\ UNCHANGED <<leaseVars, schedVars, vars>>
       \/ focus = "rate" /\ Next /\ UNCHANGED <<leaseVars, schedVars, throttleVars>>

TimersSpec == TimersInit /\ [][TimersNext]_timerVars

\* The configurations give Keys the model values of Emails and Requests those of
\* Attempts: no state relates them, and the group stays small.
TimerSymmetry == Permutations(Jobs) \cup Permutations(Emails) \cup Permutations(Attempts)
=============================================================================
