SPECIFICATION FairSpec
CONSTANTS
    w1 = w1  w2 = w2  s1 = s1  e1 = e1  e2 = e2  e3 = e3  none = none
    Worker <- Workers
    Shard = {s1}
    NoWorker = none
    NoEvent = none
    Event <- Events
    ShardOf <- OneShard
    Unreadable = {e3}
    MaxShards = 1
    MaxLapses = 1
    MaxSkips = 0
    MaxCopies = 1
INVARIANT GoneIsSaved
INVARIANT HandlingIsSerial
INVARIANT OwnerIsPrepared
INVARIANT OneOwner
INVARIANT SessionsFollowShards
PROPERTY EventuallyHandled
CHECK_DEADLOCK FALSE
