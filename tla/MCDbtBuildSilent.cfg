SPECIFICATION FairSpec
CONSTANTS
    w1 = w1  w2 = w2
    Rows <- TwoRows
    MaxDelay = 3
    Retention = 4
    Tries = 2
    Faults = {}
    MaxTime = 6
    MaxFaults = 0
PROPERTIES ForeignKeyMended
