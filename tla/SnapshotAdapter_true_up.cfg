SPECIFICATION Spec
CONSTANTS
    MaxKey = 2
    MaxVersion = 2
    MaxName = 2
    Extracts <- MCExtracts
    MaxDrops = 3
    MaxFaults = 1
PROPERTY ImplementsTrueUp
CHECK_DEADLOCK FALSE
