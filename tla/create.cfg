SPECIFICATION Spec
CONSTANTS
    Yes = yes
    No = no
    Words <- TwoWords
    Blank = blank
    Control = control
    Short = short
    Long = long
    MaxOptions = 3
    MaxDuration = 2
    None = None
    Slugs = {s1, s2}
    SlugAttempts = 2
    FormTexts <- Typed
    Questions <- Asked
    Crafted <- HandMade
    MaxEdits = 4
    MaxRequests = 2
    MaxFaults = 1
SYMMETRY Symmetry
CHECK_DEADLOCK FALSE
INVARIANTS
    StoredPollsAreWellFormed
    CreatedLinksLeadToTheirPoll
    OnePollPerRequest
    RefusalsAreBlindSpots
