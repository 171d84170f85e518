\* One job with an initial delay between one and two fudge factors, and a first
\* day that is long enough not to matter.
SPECIFICATION FairSpec
CONSTANTS
    Jobs = {j1}
    System = System
    NoJob = NoJob
    InitialDelays = {3}
    Periods = {5}
    Fudge = 2
    Reach = 7
    Day = 20
    Horizon = 20
    Numbers = {0, 1, 2, 3, 4, 5}
    MaxWaiters = 6
    Prompt = TRUE
PROPERTY LoneJobOnTime
CHECK_DEADLOCK FALSE
