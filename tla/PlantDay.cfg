SPECIFICATION Spec
CONSTANTS
    Full = 8
    SocMin = 1
    SocMax = 7
    ChargeStep = 1
    DrainStep = 2
    MaxHold = 2
    Hours = 3
    TicksPerHour = 2
    ChargeCap = 4
    DrainCap = 4
    Terminal = 4
    Ranked = 1
    Prices = {0, 6}
    HalfSpread = 1
    InitialSoc = 4
    Reserve = 3
    Night = {0}
    Peak = {2}
    Midday = {1}
    LocalOffset = 1
    NightPower = 1
    DepletedPower = 1
    MiddayPower = 1
    PeakPower = 1
    LastDay = 2
    DueHour = 2
    MaxPlans = 1
    MaxTrouble = 2
    Surpluses <- PlantSurpluses
    Commands <- PlantCommands
INVARIANTS
    PlantTypeOK
    PlanHolds
    DefaultNeverEmpties
    TomorrowFeasible
PROPERTIES
    SocWindow
CHECK_DEADLOCK FALSE
