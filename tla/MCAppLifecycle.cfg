SPECIFICATION FairSpec
CONSTANTS
    Conns = {c1, c2}
    Faults = {"start", "serve", "probe", "error", "panic", "appdrain"}
INVARIANTS
    TasksHaveDatabase
    RequestsSeeOpen
    CleanStop
PROPERTIES
    SignalEndsRun
CHECK_DEADLOCK FALSE
