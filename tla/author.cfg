CONSTANTS
    None = None
    Drifted = Drifted
    Logger = TRUE
    p1 = p1
    p2 = p2
    ChallengeName = "chal"
    Instances = {}
    Users = {}
    TTLs = {9}
    Contents <- MCContents
    Specs <- AllSpecs
    Drafts <- Rough
    LastBirth = 0
    Horizon = 1
    MaxRequests = 0
    MaxFaults = 1
    MaxEdits = 2
    MaxErrors = 1
SPECIFICATION FairSpec
INVARIANTS NothingForgotten ServableAsNamed
PROPERTIES HealthyIsEarned Settles Razes
CHECK_DEADLOCK FALSE
