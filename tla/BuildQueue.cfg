SPECIFICATION FairSpec
CONSTANTS
    Environments = {e1, e2}
    Previews = {p1, p2}
    EnvironmentBurst = 3
    NoBuild = none
INVARIANTS
    TurnHasOneOwner
    PreviewsAreNotStarved
PROPERTY
    ImplementsFairTurn
