SPECIFICATION LagSpec
CONSTANTS
    e1 = e1  e2 = e2  e3 = e3  e4 = e4  p1 = p1  p2 = p2
    Events = {e1, e3}
    Partitions = {p1}
    PartitionOf <- MixedPartitionOf
    Kind <- MalformedKind
    BatchSize = 2
    MaxCopies = 2
    MaxFaults = 2
    LagWarn = 0
    LagCritical = 1
    Faults = {"redis", "expiry", "stop"}
INVARIANTS CommittedIsStored LagNeverUnderstates
PROPERTIES EventuallyCommitted
