SPECIFICATION Spec
CONSTANTS
    j1 = j1
    j2 = j2
    w1 = w1
    w2 = w2
    Jobs = {j2}
    Workers = {w1, w2}
    Nobody = Nobody
    MaxAttempts <- MCMaxAttempts
    PollBatch = 1
    SweepBatch = 1
    MaxTokens = 3
    Registered = {j2}
    Concurrency = 1
    Faults = {"lapse", "claim_error", "release_error", "stop", "requeue", "timeout"}
    MaxRestarts = 1
SYMMETRY WorkerSymmetry
INVARIANTS
    OneEndPerClaim
    NoOverlap
    CleanShutdown
CHECK_DEADLOCK FALSE
