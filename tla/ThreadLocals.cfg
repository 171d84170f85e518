\* Two threads, a name nobody establishes and one established while they run.
SPECIFICATION LocalSpec
CONSTANTS
    Threads = {t1, t2}
    Names = {"ask", "log"}
    Established = {"ask"}
    FirstTids = {14}
    MaxRefused = 1
    MaxTables = 3
INVARIANT NoMapRace
PROPERTY SameLocalForAll
CHECK_DEADLOCK FALSE
