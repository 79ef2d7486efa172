SPECIFICATION Spec
CONSTANTS
    j1 = j1
    j2 = j2
    w1 = w1
    w2 = w2
    Jobs = {j1, j2}
    Workers = {w1}
    Nobody = Nobody
    MaxAttempts <- MCMaxAttempts
    PollBatch = 2
    SweepBatch = 1
    MaxTokens = 3
    Registered = {j1, j2}
    Concurrency = 1
    Faults = {"claim_error"}
    MaxRestarts = 0
INVARIANT RunsUntilShutdown
