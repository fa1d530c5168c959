SPECIFICATION Spec
CONSTANTS
    LastHour = 2
    HoursPerDay = 2
    Ticks = 2
    MaxTroubles = 1
PROPERTIES
    ReplaySparesReal
