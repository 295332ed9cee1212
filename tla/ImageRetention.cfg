SPECIFICATION FairSpec
CONSTANTS
    MaxOps = 3
    MaxAttempts = 2
    Errors = {"rollout"}
    Images = {a, b}
    NoImage = NoImage
    Keep = 1
    MaxRestores = 1
    MaxFaults = 1
INVARIANTS
    RootsArePresent
    ChosenImagesStay
    RollbackIsAvailable
PROPERTIES
    GarbageIsRemoved
CHECK_DEADLOCK FALSE
