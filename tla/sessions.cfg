SPECIFICATION Spec
CONSTANTS
    Addresses = {a1, a2}
    NotAddresses = {}
    Passwords = {p1, p2}
    NotPasswords = {q}
    TokenTTL = 1
    MaxAccounts = 2
    MaxNow = 1
    MaxDBFaults = 1
    MaxRemovals = 1
    Tabs = {t1, t2}
    MaxRequests = 3
    MaxReloads = 2
    MaxLost = 1
    Blocked = Blocked
    None = None
SYMMETRY Symmetry
CHECK_DEADLOCK FALSE
INVARIANTS
    OneAccountPerAddress
    SignedOutStaysSignedOut
    TabsShowTheirSession
PROPERTIES
    SessionsExpire
