SPECIFICATION FairSpec
CONSTANTS
    q1 = q1  w1 = w1  w2 = w2  s1 = s1
    Publisher = {q1}
    Worker <- Workers
    Event = {1}
    Unroutable = {}
    Limit = 2
    NoClaim = NoClaim
    Orphan = Orphan
    Shard = {s1}
    NoShard = NoShard
    ShardOf <- OneShardOf
    Unreadable = {}
    InitialCommit <- WarmGroup
    MaxFaults = 1
    MaxLapses = 0
    MaxLog = 2
    MaxCopies = 2
    MaxFailures = 1
    MaxEvictions = 0
INVARIANT NothingLost
PROPERTY EventuallyPriced
CHECK_DEADLOCK FALSE
