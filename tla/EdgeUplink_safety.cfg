SPECIFICATION Spec
CONSTANTS
    MaxMessages = 2
    MaxRows = 3
    Mids = {m1, m2}
    BatchSize = 2
    OutageIsSeen = FALSE
    MaxDrops = 1
    MaxCrashes = 1
SYMMETRY MidSymmetry
INVARIANTS
    UplinkTypeOK
    SettledWasReceived
    AckTrail
    BacklogBounded
PROPERTIES
    KeepsPromise
    TelemetryNeverEvictsUrgent
    RowNeverReturns
