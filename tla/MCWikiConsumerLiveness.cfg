SPECIFICATION FairSpec
CONSTANTS
    e1 = e1  e2 = e2  e3 = e3  e4 = e4  p1 = p1  p2 = p2
    Events = {e1, e2, e3}
    Partitions = {p1, p2}
    PartitionOf <- MixedPartitionOf
    Kind <- PoisonKind
    BatchSize = 2
    MaxCopies = 1
    MaxFaults = 3
    Faults = {"crash", "postgres", "kafka", "stop"}
INVARIANTS CountedOnce
PROPERTIES EventuallySettled StopEnds
