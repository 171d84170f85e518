SPECIFICATION Spec
CONSTANTS
    Threads = {t1, t2, t3}
    NoThread = NoThread
    ReadDurations = {"forever"}
    WriteDurations = {"forever"}
    MaxReads = 2
    MaxWrites = 1
SYMMETRY Symmetry
INVARIANT ReentrantReadNeverWaits
CHECK_DEADLOCK FALSE
