\* One environment, two operations of any kind, a change of the settings, and
\* two failed calls, dropped passes or broken networks.
SPECIFICATION FairSpec
CONSTANTS
    Envs = {e1}
    Specs = {1, 2}
    Kinds = {"routed", "plain", "delete"}
    MaxDeploys = 2
    MaxFaults = 2
    MaxRestarts = 1
INVARIANTS
    AcknowledgedBackendsExist
    ServedIsKnown
    UnfinishedIsRestorable
PROPERTIES
    GatewayConverges
