SPECIFICATION Spec
CONSTANTS
    Addresses = {a1}
    NotAddresses = {}
    Passwords = {p1, p2}
    NotPasswords = {}
    TokenTTL = 2
    MaxAccounts = 1
    MaxNow = 1
    MaxDBFaults = 0
    MaxRemovals = 0
    Tabs = {t1}
    MaxRequests = 3
    MaxReloads = 1
    MaxLost = 0
    Blocked = Blocked
    None = None
CHECK_DEADLOCK FALSE
PROPERTIES
    WrongPasswordKeepsTheSession
