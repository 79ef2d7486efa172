SPECIFICATION FairSpec
CONSTANTS
    WsConns = {w1}
    SseConns = {}
    Drainers = {d1}
    MaxConnections = 1
    Capacity = 1
    MaxSent = 1
    Misses = 1
    Faults = {"stall"}
PROPERTY
    StalledPeerCloses
CHECK_DEADLOCK FALSE
