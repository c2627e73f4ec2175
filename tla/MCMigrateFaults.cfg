SPECIFICATION FairSpec
CONSTANTS
    old = old  new = new  other = other
    Services = {old, new, other}
    Last = 3
    MetaFile = 2
    Image <- TwoImages
    Faults = {"crash", "postgres"}
    MaxFaults = 3
INVARIANTS TypeOK MigratedOnceInOrder ServingIsMigrated
PROPERTIES EventuallyServing
\* When every process serves and no more faults are left, nothing happens.
CHECK_DEADLOCK FALSE
