CONSTANTS
    None = None
    Expiries <- Mixed
    Horizon = 2
    MaxRequests = 3
    MaxFaults = 1
SPECIFICATION FairSpec
INVARIANTS TypeOK
PROPERTIES IssuedWhileActive Serves Released
CHECK_DEADLOCK FALSE
