SPECIFICATION FairSpec
CONSTANTS
    Destinations = {d}
    Settings <- AllSettings
    SustainedAfter = 1
    Reported = {"daemon_failed", "deployment_failed", "operation_succeeded"}
    MaxReports = 2
    MaxEdits = 1
    MaxRestarts = 0
INVARIANTS
    RecoveryFollowsFailure
    NothingUnwantedIsQueued
PROPERTIES
    DeliveriesSettle
CHECK_DEADLOCK FALSE
