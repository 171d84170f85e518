\* Every call returns (no violation; about two minutes).
SPECIFICATION FairSpec
CONSTANTS
    Threads = {t1, t2}
    Names = {"asks"}
    Established = {"asks"}
    FirstTids = {14}
    MaxRefused = 0
    MaxTables = 1
    Caches = {c1, c2}
    Keys = {k1, k2}
    CallsInto <- Downwards
    MaxNested = 1
    Nobody = Nobody
    c1 = c1
    c2 = c2
PROPERTY CallsReturn
CHECK_DEADLOCK FALSE
