SPECIFICATION FairSpec
CONSTANTS
    LastMsg = 5
    Capacity = 2
    Codes = {0, 1}
    MaxCommands = 2
    MaxChanges = 2
    MaxTrouble = 1
INVARIANTS
    OperatorTypeOK
PROPERTIES
    FaultOnRecord
    VerdictArrives
CHECK_DEADLOCK FALSE
