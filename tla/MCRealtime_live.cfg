SPECIFICATION FairSpec
CONSTANTS
    WsConns = {w1}
    SseConns = {s1}
    Drainers = {d1}
    MaxConnections = 1
    Capacity = 1
    MaxSent = 2
    Misses = 1
    Faults = {"leave", "mute", "close"}
INVARIANTS
    LiveExact
    DrainOkMeansClosed
PROPERTIES
    WsDrains
    MutePeerCloses
CHECK_DEADLOCK FALSE
