\* A pool of one to two threads, one slot more than maxThreads so that a
\* worker can start while another is still leaving.
SPECIFICATION Spec
CONSTANTS
    Jobs = {j1, j2, j3}
    Consumers = {w1, w2, w3}
    Capacity = 2
    Waits = {TRUE}
    Nobody = Nobody
    Empty = Empty
    Nothing = Nothing
    minThreads = 1
    maxThreads = 2
    BadJobs = {}
SYMMETRY Symmetry
INVARIANTS FIFO NoStrandedConsumer WithinMax MinMaintained
\* A closed pool falls silent.
PROPERTY EmptyOnlyAfterTimeout
CHECK_DEADLOCK FALSE
