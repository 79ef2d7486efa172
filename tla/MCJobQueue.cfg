SPECIFICATION QueueSpec
CONSTANTS
    j1 = j1
    j2 = j2
    w1 = w1
    w2 = w2
    Jobs = {j1, j2}
    Workers = {w1, w2}
    Nobody = Nobody
    MaxAttempts <- MCMaxAttempts
    PollBatch = 2
    SweepBatch = 1
    MaxTokens = 2
INVARIANTS
    QueueTypeOK
    LockedIffRunning
    ClaimsAccounted
    OneEndPerClaim
PROPERTIES
    TerminalIsFinal
    NoStealing
CHECK_DEADLOCK FALSE
