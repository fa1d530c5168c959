SPECIFICATION FairSpec
CONSTANTS
    LastDay = 3
    MaxStored = 2
    Horizon = 1
    FetchDisturbed = FALSE
    MaxCrashes = 1
    MaxFailures = 1
INVARIANTS
    PlannerTypeOK
    OverrideHolds
PROPERTIES
    RealPlanKept
    StoredCurveWins
    TodayStays
    TodayPlanned
