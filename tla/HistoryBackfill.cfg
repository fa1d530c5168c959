SPECIFICATION FairSpec
CONSTANTS
    LastHour = 2
    HoursPerDay = 2
    Ticks = 2
    MaxTroubles = 1
INVARIANTS
    BackfillTypeOK
    NeverAheadOfClock
PROPERTIES
    PurgeLeavesTheReal
    RealWins
    StacksGo
    GapsClose
    PricesUpgraded
    ReplayedDayHasPlan
