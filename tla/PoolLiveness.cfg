\* A pool that shrinks to one thread and grows again for jobs; its decay bell
\* need never ring.
SPECIFICATION FairSpec
CONSTANTS
    Jobs = {j1, j2}
    Consumers = {w1, w2}
    Capacity = 2
    Waits = {TRUE}
    Nobody = Nobody
    Empty = Empty
    Nothing = Nothing
    minThreads = 1
    maxThreads = 2
    BadJobs = {}
PROPERTIES JobsTaken CloseEndsAll
CHECK_DEADLOCK FALSE
