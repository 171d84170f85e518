SPECIFICATION Spec
CONSTANTS
    Threads = {t1, t2, t3}
    NoThread = NoThread
    ReadDurations = {"forever"}
    WriteDurations = {"long"}
    MaxReads = 1
    MaxWrites = 1
SYMMETRY Symmetry
INVARIANT NoStrandedReader
CHECK_DEADLOCK FALSE
