SPECIFICATION Spec
CONSTANTS
    LastDay = 2
    MaxStored = 3
    Horizon = 2
    FetchDisturbed = TRUE
    MaxCrashes = 1
    MaxFailures = 0
PROPERTIES
    RealPlanKept
