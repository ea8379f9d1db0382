SPECIFICATION Spec
CONSTANTS
    Requests = {r1, r2, r3}
    Voters = {v1, v2}
    Owner = owner
    Stranger = stranger
    Options = {a, b}
    Multiple = FALSE
    Operations <- Everything
    Expires = TRUE
    WarmStart = TRUE
    MaxInFlight = 3
    Budget <- FailingCalls
    Malformed = malformed
    None = None
SYMMETRY Symmetry
CHECK_DEADLOCK FALSE
INVARIANTS
    NoLostUpdate
    NoBallotAfterTheClose
    RedisNeverFailsARequest
    WarmTallyAgrees
PROPERTIES
    NothingIsUndone
