SPECIFICATION FairSpec
CONSTANTS
    LastDay = 2
    FailsHalfWay = FALSE
    MaxCuts = 2
    MaxRestarts = 1
INVARIANTS
    PushTypeOK
    RetainedIsLatest
PROPERTIES
    TomorrowReachesEdge
