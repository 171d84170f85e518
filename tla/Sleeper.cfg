\* Three jobs slept with any duration up to two fudge factors and closed at
\* any time.
SPECIFICATION FairSpec
CONSTANTS
    Jobs = {j1, j2, j3}
    Fudge = 2
    MaxDuration = 4
    MaxWaiters = 3
INVARIANTS JobsMatchHeap OwnWaiterAlive
PROPERTY OwnNodeRings
\* Callers need not sleep again: the sleeper may fall silent.
CHECK_DEADLOCK FALSE
