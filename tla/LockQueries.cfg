SPECIFICATION QuerySpec
CONSTANTS
    Threads = {t1, t2}
    NoThread = NoThread
    ReadDurations = {"forever"}
    WriteDurations = {"forever"}
    MaxReads = 1
    MaxWrites = 1
INVARIANTS FalseMeansFree ReadLockedExcludesWrite
CHECK_DEADLOCK FALSE
