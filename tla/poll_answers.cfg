SPECIFICATION FairSpec
CONSTANTS
    Requests = {r1, r2}
    Voters = {v1, v2}
    Owner = owner
    Stranger = stranger
    Options = {a, b}
    Multiple = FALSE
    Operations <- VoteCloseAndDelete
    Expires = FALSE
    WarmStart = FALSE
    MaxInFlight = 3
    Budget <- EveryFault
    Malformed = malformed
    None = None
CHECK_DEADLOCK FALSE
PROPERTIES
    EveryRequestIsAnswered
    EveryBallotIsCounted
