SPECIFICATION FairSpec
CONSTANTS
    Callers = {c1, c2}
    desiredSize = 2
    Concurrencies = {0, 2}
    InitialConcurrency = 2
    NilChannel = TRUE
    MaxBuilders = 2
    MaxJobs = 2
    MaxLost = 1
INVARIANTS NeverOverfilled WorkersCounted NoStrandedCaller EnoughSignals
PROPERTY WaitReturns
