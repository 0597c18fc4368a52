SPECIFICATION FairSpec
CONSTANTS
    w1 = w1
    w2 = w2
    s1 = s1
    s2 = s2
    e1 = e1
    e2 = e2
    Worker <- TwoWorkers
    Shard = {s1}
    NoShard = NoShard
    Event = {e1}
    ShardOf <- OneShardOf
    Unreadable = {}
    InitialCommit <- WarmGroup
    MaxLog = 2
    MaxCopies = 2
    MaxFailures = 1
    MaxEvictions = 1
PROPERTIES
    EventuallyHandled
CHECK_DEADLOCK FALSE
