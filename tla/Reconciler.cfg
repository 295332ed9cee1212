\* Three operations: one that succeeds, one it can be restored or rolled back
\* for, and one more to supersede that; a failure, crash, drift, stop or start.
SPECIFICATION Spec
CONSTANTS
    MaxOps = 3
    MaxAttempts = 2
    Errors = {"rollout", "retryable", "job", "other"}
    Services <- TwoServices
    Wanted <- WantedOfTwo
    Disturbances = 1
INVARIANTS
    RestoresOnlySucceededTargets
    RequestsFollowActiveTarget
    DeletionLeavesNothing
PROPERTIES
    JobFailuresWaitForClients
    ImplementsStore
\* A deleted environment takes no further step.
CHECK_DEADLOCK FALSE
