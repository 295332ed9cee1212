\* Two operations of one exclusive job, and two failures, crashes or timeouts.
SPECIFICATION JFairSpec
CHECK_DEADLOCK FALSE
CONSTANTS
    MaxOps = 2
    MaxAttempts = 2
    Errors = {"job", "retryable"}
    MaxJobs = 1
    Exclusive = {1}
    Disturbances = 2
PROPERTIES
    CleanupCompletes
    StoppedServicesReturn
