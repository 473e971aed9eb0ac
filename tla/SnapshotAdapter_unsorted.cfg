SPECIFICATION Spec
CONSTANTS
    MaxKey = 2
    MaxVersion = 2
    MaxName = 1
    Extracts <- MCExtracts
    MaxDrops = 2
    MaxFaults = 0
PROPERTY LiveIsNeverRemoved
CHECK_DEADLOCK FALSE
