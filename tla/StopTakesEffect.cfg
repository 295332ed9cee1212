\* A stop and one more disturbance: a failure, a crash, drift or a start; or a
\* rollout that fails and the rollback that fails too.  The third operation is
\* that rollback, the fourth would be the rollback of a rollback.
SPECIFICATION RollbackSpec
CONSTANTS
    MaxOps = 4
    MaxAttempts = 5
    Errors = {"rollout", "retryable"}
    Services <- OneService
    Wanted <- WantedOfOne
    Disturbances = 2
INVARIANT
    RolledBackOnce
PROPERTY
    StopTakesEffect
\* A deleted environment takes no further step.
CHECK_DEADLOCK FALSE
