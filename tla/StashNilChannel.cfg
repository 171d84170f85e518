SPECIFICATION FairSpec
CONSTANTS
    Callers = {c1}
    desiredSize = 2
    Concurrencies = {}
    InitialConcurrency = 1
    NilChannel = TRUE
    MaxBuilders = 3
    MaxJobs = 1
    MaxLost = 0
PROPERTY Refills
CHECK_DEADLOCK FALSE
