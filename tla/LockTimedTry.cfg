SPECIFICATION TimersFairSpec
CONSTANTS
    Threads = {t1, t2}
    NoThread = NoThread
    ReadDurations = {"forever", "long", "short"}
    WriteDurations = {"forever"}
    MaxReads = 1
    MaxWrites = 1
PROPERTY TimedTryReturns
CHECK_DEADLOCK FALSE
