SPECIFICATION Spec
CONSTANTS
    Destinations = {d}
    Settings <- AllSettings
    SustainedAfter = 1
    Reported = {"build_failed", "deployment_failed", "operation_succeeded"}
    MaxReports = 3
    MaxEdits = 0
    MaxRestarts = 1
INVARIANTS
    OneAlertPerIncident
    RecoveryKeepsItsFailures
PROPERTIES
    AlertIsNotReplayed
CHECK_DEADLOCK FALSE
