CONSTANTS
    MaxTime = 1
    MaxJobs = 2
    MaxThreads = 2
    JobsCancel = FALSE
SPECIFICATION Spec
INVARIANT NoJobLost
CHECK_DEADLOCK FALSE
