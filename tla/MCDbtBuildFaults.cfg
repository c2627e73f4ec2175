SPECIFICATION FairSpec
CONSTANTS
    w1 = w1  w2 = w2
    Rows <- ThreeRows
    MaxDelay = 3
    Retention = 4
    Tries = 2
    Faults = {"database", "crash"}
    MaxTime = 6
    MaxFaults = 1
INVARIANTS TypeOK RowsAccounted AggMatchesFacts PassedIsConsistent
PROPERTIES EventuallyReported RunsRecover
