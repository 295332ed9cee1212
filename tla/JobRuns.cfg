\* Three operations of two jobs, the second exclusive, and one failure, crash or
\* timeout.
SPECIFICATION JSpec
CHECK_DEADLOCK FALSE
CONSTANTS
    MaxOps = 3
    MaxAttempts = 2
    Errors = {"job", "retryable", "other"}
    MaxJobs = 2
    Exclusive = {2}
    Disturbances = 1
INVARIANTS
    DeletionStopsRuns
    ExclusiveRunsAlone
PROPERTIES
    RunsNeverOverlap
    SuccessIsNotRerun
