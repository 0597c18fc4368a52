SPECIFICATION FairSpec
CONSTANTS
    w1 = w1  w2 = w2  s1 = s1  e1 = e1  e2 = e2
    Worker <- Workers
    Shard = {s1}
    NoWorker = NoWorker
    NoShard = NoShard
    Event <- Events
    ShardOf <- OneShard
    MaxLog = 2
    MaxDemotions = 1
    MaxReturns = 1
INVARIANT SuperStreamInv
INVARIANT StoredIsSaved
INVARIANT OwnerIsPrepared
INVARIANT SessionsFollowTasks
INVARIANT NeverAcquiredTwice
PROPERTY EventuallyHandled
CHECK_DEADLOCK FALSE
