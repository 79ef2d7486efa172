SPECIFICATION ServicesSpec
CONSTANTS
    Callers = {n1, n2}
    Writers = {k1, k2}
    Holders = {x1, x2}
    Ttl = 3
    LeaseTtl = 4
    TicksPerSecond = 2
    MaxVersion = 3
    MaxCacheTime = 6
    Calls = {n1, n2}
    Keys = {k1, k2}
    Connections = {x1, x2}
    MaxChannels = 3
    Dialects = {"postgres", "mysql", "sqlite"}
    Replicas = {n1, n2, n3}
    Statements = 3
    MaxCrashes = 2
SYMMETRY ServiceSymmetry
INVARIANTS
    StaleOnlyIfOvertaken
    LeaseExclusive
    InboxKeeps
    SubscribersReachable
    OkMeansSchema
CHECK_DEADLOCK FALSE
