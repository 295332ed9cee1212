\* Two operations, one call that arrives late and repeatedly among requests of
\* other clients, and three revisions: a deployment, a save and a rename after
\* it, or a deletion and a new application that reaches the same revision.
SPECIFICATION ASpec
CONSTANTS
    MaxOps = 2
    MaxAttempts = 1
    Errors = {"rollout"}
    Keys = {k}
    CallKinds = {"save", "apply", "rename", "deploy", "delete", "destroy", "reconcile"}
    Renders = {1}
    MaxCalls = 1
    MaxRevisions = 3
    MaxExpiries = 1
INVARIANTS
    RetriesActOnce
    ResolvedIsCurrent
    DeletionIsNotAbandoned
    ReceiptsGoWithTheirSubject
    NewestIntentWins
    DeletionIsTheLastIntent
PROPERTIES
    ActsOnWhatWasInspected
\* A deleted environment, or one at every bound, takes no further step.
CHECK_DEADLOCK FALSE
