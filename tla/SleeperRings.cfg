SPECIFICATION FairSpec
CONSTANTS
    Jobs = {j1, j2}
    Fudge = 2
    MaxDuration = 4
    MaxWaiters = 2
PROPERTY SleepRings
CHECK_DEADLOCK FALSE
