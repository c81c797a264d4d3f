CONSTANTS
    None = None
    Drifted = Drifted
    Logger = TRUE
    p1 = p1
    p2 = p2
    ChallengeName = "chal"
    Instances = {}
    Users = {}
    TTLs = {9}
    Contents <- MCContents
    Specs <- MisnomerOnly
    Drafts <- MisnomerOnly
    LastBirth = 0
    Horizon = 0
    MaxRequests = 0
    MaxFaults = 0
    MaxEdits = 0
    MaxErrors = 0
SPECIFICATION FairSpec
INVARIANTS HealthyIsServable
CHECK_DEADLOCK FALSE
