SPECIFICATION Spec
CONSTANTS
    Requests = {r1, r2, r3}
    Voters = {v1, v2}
    Owner = owner
    Stranger = stranger
    Options = {a, b}
    Multiple = FALSE
    Operations <- VoteAndRead
    Expires = FALSE
    WarmStart = FALSE
    MaxInFlight = 3
    Budget <- FaultFree
    Malformed = malformed
    None = None
SYMMETRY Symmetry
CHECK_DEADLOCK FALSE
INVARIANTS
    ScreenShowsTheDurableNumber
