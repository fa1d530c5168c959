SPECIFICATION FairSpec
CONSTANTS
    MaxMessages = 2
    MaxRows = 2
    Mids = {m1, m2}
    BatchSize = 2
    OutageIsSeen = FALSE
    MaxDrops = 1
    MaxCrashes = 0
PROPERTIES
    EventuallyReceived
