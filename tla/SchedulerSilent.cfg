\* A single job, which keeps clear of the fudge factor, and the system job, on a
\* machine that is never late.
SPECIFICATION FairSpec
CONSTANTS
    Jobs = {j1}
    System = System
    NoJob = NoJob
    InitialDelays = {3}
    Periods = {3}
    Fudge = 1
    Reach = 4
    Day = 10
    Horizon = 10
    Numbers = {0, 1, 2, 3, 4, 5}
    MaxWaiters = 6
    Prompt = TRUE
PROPERTY EveryJobRuns
CHECK_DEADLOCK FALSE
