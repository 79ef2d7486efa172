SPECIFICATION Spec
CONSTANTS
    WsConns = {w1, w2}
    SseConns = {s1}
    Drainers = {d1, d2}
    MaxConnections = 2
    Capacity = 1
    MaxSent = 0
    Misses = 1
    Faults = {"leave"}
SYMMETRY ConnSymmetry
INVARIANTS
    TypeOK
    LiveExact
    CapHolds
    DrainOkMeansClosed
CHECK_DEADLOCK FALSE
