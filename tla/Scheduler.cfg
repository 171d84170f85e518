\* Two jobs beside the system job, of either kind, due at once or well after
\* the fudge factor.  The sleeper may keep ever more nodes that nobody rings,
\* so the model stops when the job numbers are used up.
SPECIFICATION Spec
CONSTANTS
    Jobs = {j1, j2}
    System = System
    NoJob = NoJob
    InitialDelays = {0, 3}
    Periods = {3}
    Fudge = 1
    Reach = 4
    Day = 10
    Horizon = 10
    Numbers = {0, 1, 2, 3}
    MaxWaiters = 6
    Prompt = TRUE
INVARIANT OnePlace
PROPERTY LoneJobOnTime
CHECK_DEADLOCK FALSE
