\* A routed deployment and one that removes its routes; ingress is disabled,
\* enabled again and reconfigured, and one call fails.
SPECIFICATION Spec
CONSTANTS
    Envs = {e1}
    Specs = {1, 2}
    Kinds = {"routed", "plain"}
    MaxDeploys = 2
    MaxFaults = 1
    MaxRestarts = 3
INVARIANT
    RemovedRoutesStayRemoved
