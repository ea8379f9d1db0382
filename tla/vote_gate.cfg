SPECIFICATION Spec
CONSTANTS
    Requests = {r1, r2, r3}
    Browsers = {b1, b2}
    Addresses = {a}
    NoAddress = nobody
    Limit = 1
    Window = 3
    TicksPerSecond = 2
    MaxRedisFaults = 1
    MaxLost = 1
    None = None
SYMMETRY Symmetry
CHECK_DEADLOCK FALSE
INVARIANTS
    LimitPerWindow
    TwiceTheLimitAtMost
    RetryAfterSuffices
    KnownBrowsersVoteOnce
