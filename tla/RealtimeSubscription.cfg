SPECIFICATION FairSpec
CONSTANTS
    r1 = r1  r2 = r2
    Request <- Requests
    Malformed = Malformed
    MaxCommands = 4
    MaxUpdates = 2
INVARIANT NeverSpins
INVARIANT SubscriptionsAgree
PROPERTY LastRequestIsServed
PROPERTY EndLeavesNothing
CHECK_DEADLOCK FALSE
