SPECIFICATION Spec
CONSTANTS
    e1 = e1  e2 = e2  e3 = e3  e4 = e4  p1 = p1  p2 = p2
    Events = {e1, e2, e3, e4}
    Partitions = {p1, p2}
    PartitionOf <- MixedPartitionOf
    Kind <- UndecodableKind
    BatchSize = 2
    MaxCopies = 1
    MaxFaults = 2
    Faults = {"crash", "postgres", "kafka", "redis", "expiry", "stop"}
INVARIANTS TypeOK LossAccounted HeldIsReplayable CountedIsStored
PROPERTIES CommitsAdvance SinkSpec
