SPECIFICATION Spec
CONSTANTS
    w1 = w1
    w2 = w2
    s1 = s1
    s2 = s2
    e1 = e1
    e2 = e2
    Worker <- TwoWorkers
    Shard = {s1}
    NoShard = NoShard
    Event = {e1, e2}
    ShardOf <- OneShardOf
    Unreadable = {e2}
    InitialCommit <- WarmGroup
    MaxLog = 3
    MaxCopies = 2
    MaxFailures = 1
    MaxEvictions = 1
SYMMETRY WorkerSymmetry
INVARIANT InductiveInv
INVARIANT CommittedIsSaved
INVARIANT NothingSkipped
INVARIANT DeliveryIsPending
PROPERTY CommitNeverRegresses
CHECK_DEADLOCK FALSE
