CONSTANTS
    None = None
    Drifted = Drifted
    Logger = TRUE
    p1 = p1
    p2 = p2
    Instances = {i1}
    Users = {u1}
    TTLs = {1, 9}
    Contents <- MCContents
    Views <- HealthyViews
    LastBirth = 0
    Horizon = 2
    MaxRequests = 2
    MaxFaults = 1
SPECIFICATION FairSpec
PROPERTIES Expires Heals Released Quiesces
CHECK_DEADLOCK FALSE
