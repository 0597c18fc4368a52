SPECIFICATION FairSpec
CONSTANTS
    w1 = w1
    w2 = w2
    Worker <- TwoWorkers
    NoClaim = NoClaim
    Orphan = Orphan
    Event <- ThreeEvents
    Unroutable = {1}
    Limit = 2
    MaxFaults = 2
    MaxLapses = 2
INVARIANT OneClaimant
INVARIANT CopiesAreExplained
PROPERTY ClaimInForceIsKept
PROPERTY RelaySpec
PROPERTY EventuallyPublished
CHECK_DEADLOCK FALSE
