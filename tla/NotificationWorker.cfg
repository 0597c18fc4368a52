SPECIFICATION FairSpec
CONSTANTS
    w1 = w1  w2 = w2  p1 = p1  p2 = p2  e1 = e1  e2 = e2  e3 = e3
    Worker <- Workers
    Partition = {p1, p2}
    NoWorker = NoWorker
    NoPartition = NoPartition
    Event <- Events
    PartitionOf <- TwoPartitions
    Unreadable = {e3}
    FreshGroup = FALSE
    MaxLog = 2
    MaxRebalances = 2
    MaxFaults = 1
INVARIANT PushedAtMostOnce
INVARIANT CommittedIsNotified
INVARIANT PushesAreLostByFaults
PROPERTY EventuallyNotified
CHECK_DEADLOCK FALSE
