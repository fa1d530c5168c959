SPECIFICATION FairSpec
CONSTANTS
    LastDay = 1
    FailsHalfWay = TRUE
    MaxCuts = 2
    MaxRestarts = 0
PROPERTIES
    TomorrowReachesEdge
