\* Two threads, two caches of which one calls the other, and a second thread
\* local that nobody established.  Ids 15 and 16 have one and two digits.
SPECIFICATION Spec
CONSTANTS
    Threads = {t1, t2}
    Names = {"asks", "log"}
    Established = {"asks"}
    FirstTids = {14}
    MaxRefused = 0
    MaxTables = 3
    Caches = {c1, c2}
    Keys = {k1, k2}
    CallsInto <- Downwards
    MaxNested = 1
    Nobody = Nobody
    c1 = c1
    c2 = c2
SYMMETRY Symmetry
INVARIANTS NothingLeftBehind ComputedOnce AsksAreComputed NoCircularWait
PROPERTY SameLocal
\* Threads end.
CHECK_DEADLOCK FALSE
