SPECIFICATION FairSpec
CONSTANTS
    MaxMessages = 2
    MaxRows = 2
    Mids = {m1, m2}
    BatchSize = 1
    OutageIsSeen = TRUE
    MaxDrops = 1
    MaxCrashes = 1
INVARIANTS
    NoOrphan
PROPERTIES
    EventuallyReceived
    TelemetryReplayed
