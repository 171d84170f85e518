SPECIFICATION Spec
CONSTANTS
    Jobs = {j1, j2}
    Consumers = {w1, w2}
    Capacity = 2
    Waits = {TRUE}
    Nobody = Nobody
    Empty = Empty
    Nothing = Nothing
    minThreads = 1
    maxThreads = 1
    BadJobs = {j1}
INVARIANT MinMaintained
PROPERTY StopsReading
CHECK_DEADLOCK FALSE
