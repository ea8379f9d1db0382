SPECIFICATION FairSpec
CONSTANTS
    c1 = c1
    c2 = c2
    Clients = {c1, c2}
    SendBuffer = 1
    MaxVersion = 2
    MaxFailures = 1
    MayShutDown = TRUE
CHECK_DEADLOCK FALSE
INVARIANTS
    FeedHasNoGaps
    SlowViewersDoNotStall
    NoIdleSubscription
    NoGhostsInTheRoom
PROPERTIES
    ImplementsBroadcast
    ClosedClientsLeave
