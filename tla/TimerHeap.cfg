SPECIFICATION FairSpec
CONSTANTS
    MaxTime = 2
    MaxJobs = 3
    MaxThreads = 2
    JobsCancel = FALSE
INVARIANTS RunsOnce TimerCoversHeap
PROPERTIES CancelledStartsNothing JobsLeaveHeap
\* The clock stops at MaxTime.
CHECK_DEADLOCK FALSE
