SPECIFICATION FairSpec
CONSTANTS
    MaxVersion = 2
    MaxDrops = 1
    MaxFailures = 1
    MaxMoves = 1
    None = None
CHECK_DEADLOCK FALSE
INVARIANTS
    
    OneSocketAtATime
PROPERTIES
    SettlesInTheEnd
