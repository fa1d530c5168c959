SPECIFICATION FairSpec
CONSTANTS
    LastDay = 1
    Horizon = 2
    NearTerm = 1
    MaxTroubles = 1
INVARIANTS
    ForwardTypeOK
PROPERTIES
    EdgePlanStays
    NoBlankDay
    ForecastFollowsPlan
    UpgradeEventually
