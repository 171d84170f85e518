\* Two caches whose calculators call each other.
SPECIFICATION Spec
CONSTANTS
    Threads = {t1, t2}
    Names = {"asks"}
    Established = {"asks"}
    FirstTids = {14}
    MaxRefused = 0
    MaxTables = 1
    Caches = {c1, c2}
    Keys = {k1, k2}
    CallsInto <- Everywhere
    MaxNested = 1
    Nobody = Nobody
    c1 = c1
    c2 = c2
INVARIANT NoCircularWait
CHECK_DEADLOCK FALSE
