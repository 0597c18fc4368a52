SPECIFICATION Spec
CONSTANTS
    w1 = w1
    w2 = w2
    s1 = s1
    s2 = s2
    e1 = e1
    e2 = e2
    Worker <- TwoWorkers
    Shard = {s1, s2}
    NoShard = NoShard
    Event = {e1, e2}
    ShardOf <- TwoShardOf
    Unreadable = {}
    InitialCommit <- WarmGroup
    MaxLog = 1
    MaxCopies = 1
    MaxFailures = 1
    MaxEvictions = 0
SYMMETRY WorkerSymmetry
INVARIANT RevokeLeavesNothing
INVARIANT CallbackIsServed
INVARIANT OneOwner
INVARIANT OwnerHasAllSessions
CHECK_DEADLOCK FALSE
