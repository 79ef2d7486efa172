SPECIFICATION TimersSpec
CONSTANTS
    Jobs = {j1, j2, j3}
    PerSecond = 2
    MaxLease = 8
    PollBatch = 2
    Concurrency = 1
    Entries = 2
    Day = 4
    MaxNow = 10
    Emails = {x1, x2}
    Clients = {c1}
    Attempts = {y1, y2}
    IdentityLimit = 2
    AddressLimit = 3
    Window = 3
    MinimumRetryAfter = 2
    ThrottleSweepAt = 3
    MaxTime = 4
    MaxFailures = 6
    Keys = {x1, x2}
    Requests = {y1, y2}
    Capacity = 2
    Period = 2
    Second = 3
    Grain = 2
    SweepAt = 2
    Skew = 1
    MaxClock = 8
    MaxCalls = 3
SYMMETRY TimerSymmetry
INVARIANTS
    MarginKeepsClaims
    FiresWithinCadence
    FailuresPaidFor
    GrantBound
PROPERTY ImplementsBucket
CHECK_DEADLOCK FALSE
