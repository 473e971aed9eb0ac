SPECIFICATION ExtractSpec
CONSTANTS
    Quantities = {10, 20}
    Prices = {1, 3}
    Cycles = {"today", "another"}
    Cycle = "today"
    FieldWidth = 2
    TotalWidth = 2
    CountWidth = 1
    Symbols <- MCSymbols
    MaxRecords = 3
    MaxDamage = 2
INVARIANT FaultsAreSeen
INVARIANT SoundFileIsTaken
