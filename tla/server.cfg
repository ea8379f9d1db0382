SPECIFICATION FairSpec
CONSTANTS
    Requests = {r1, r2}
    PageOrigin = page
    PathOrigin = path
    BareOrigin = bare
    Wildcard = any
    OtherOrigin = other
    NoOrigin = nobrowser
    Unset = Unset
    Garbage = Garbage
    None = None
    MaxFaults = 1
    MaxGone = 1
CHECK_DEADLOCK FALSE
INVARIANTS
    StoresOutliveHandlers
    CountedVotesAreAnnounced
PROPERTIES
    EveryRequestIsAnswered
    ShutdownEnds
