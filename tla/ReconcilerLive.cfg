\* Two operations and one failure, crash, drift, stop or start.  MaxAttempts is
\* more than these can start.
SPECIFICATION FairSpec
CONSTANTS
    MaxOps = 2
    MaxAttempts = 4
    Errors = {"rollout", "retryable"}
    Services <- OneService
    Wanted <- WantedOfOne
    Disturbances = 1
PROPERTIES
    AttemptOutcomesAreRetained
    OperationsSettle
    SuccessIsMaintained
\* A deleted environment takes no further step.
CHECK_DEADLOCK FALSE
