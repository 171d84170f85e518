SPECIFICATION Spec
CONSTANTS
    Callers = {c1, c2}
    desiredSize = 2
    Concurrencies = {0, 1}
    InitialConcurrency = 0
    NilChannel = FALSE
    MaxBuilders = 3
    MaxJobs = 2
    MaxLost = 0
INVARIANT ExpiredCallerIsWoken
PROPERTY ZeroStopsCreating
CHECK_DEADLOCK FALSE
