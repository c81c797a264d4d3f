CONSTANTS
    None = None
    Expiries <- Limited
    Horizon = 1
    MaxRequests = 2
    MaxFaults = 0
SPECIFICATION FairSpec
PROPERTIES Removed
CHECK_DEADLOCK FALSE
