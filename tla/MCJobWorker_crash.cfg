SPECIFICATION FairSpec
CONSTANTS
    j1 = j1
    j2 = j2
    w1 = w1
    w2 = w2
    Jobs = {j1, j2}
    Workers = {w1}
    Nobody = Nobody
    MaxAttempts <- MCMaxAttempts
    PollBatch = 2
    SweepBatch = 1
    MaxTokens = 4
    Registered = {j2}
    Concurrency = 1
    Faults = {"cancel", "crash", "lapse", "timeout", "mark_error", "sweep_error"}
    MaxRestarts = 1
INVARIANTS
    SuccessMeansRan
    EventsMatchTable
    BodyBudget
PROPERTY
    ImplementsQueue
    EveryJobSettles
