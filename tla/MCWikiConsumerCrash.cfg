SPECIFICATION Spec
CONSTANTS
    e1 = e1  e2 = e2  e3 = e3  e4 = e4  p1 = p1  p2 = p2
    Events = {e1}
    Partitions = {p1}
    PartitionOf <- OnePartition
    Kind <- EditKind
    BatchSize = 2
    MaxCopies = 1
    MaxFaults = 2
    Faults = {"crash", "stop"}
INVARIANTS CommittedIsStored
