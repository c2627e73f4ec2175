SPECIFICATION FairSpec
CONSTANTS
    edit = edit  log = log  invalid = invalid  empty = empty  p1 = p1  p2 = p2
    Dlq = Dlq
    Payloads = {edit, invalid, empty}
    Partitions = {p1}
    PartitionOf <- PayloadPartition
    Class <- PayloadClass
    Overflow = 2
    QueueLimit = 2
    MaxFeed = 3
    MaxFaults = 3
    Faults = {"network", "delivery", "crash", "stop"}
INVARIANTS TypeOK OwedIsAccounted NoGap
PROPERTIES ContractSpec CatchesUp EventuallyStored StopEnds
