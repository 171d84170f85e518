\* Three threads, every duration, recursion to depth two.
SPECIFICATION Spec
CONSTANTS
    Threads = {t1, t2, t3}
    NoThread = NoThread
    ReadDurations = {"forever", "zero", "short", "long"}
    WriteDurations = {"forever", "zero", "short", "long"}
    MaxReads = 2
    MaxWrites = 2
SYMMETRY Symmetry
INVARIANTS TypeOK MutualExclusion NoStrandedWriter
PROPERTIES NoReaderBarging ImplementsRWLock
\* A reader that re-enters behind a waiting writer deadlocks with it (see
\* LockReentrantRead.cfg), so the system really may stop.
CHECK_DEADLOCK FALSE
