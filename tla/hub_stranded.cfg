SPECIFICATION Spec
CONSTANTS
    c1 = c1
    c2 = c2
    Clients = {c1, c2}
    SendBuffer = 1
    MaxVersion = 1
    MaxFailures = 0
    MayShutDown = FALSE
SYMMETRY Symmetry
INVARIANT NobodyIsStranded
CHECK_DEADLOCK FALSE
