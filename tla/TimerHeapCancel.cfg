CONSTANTS
    MaxTime = 1
    MaxJobs = 2
    MaxThreads = 2
    JobsCancel = TRUE
SPECIFICATION Spec
PROPERTY CancelledStartsNothing
CHECK_DEADLOCK FALSE
