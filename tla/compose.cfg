CONSTANTS
    None = None
    Drifted = Drifted
    Logger = TRUE
    p1 = p1
    p2 = p2
    ChallengeName = "chal"
    Instances = {i1}
    Users = {u1}
    TTLs = {9}
    Contents <- MCContents
    Specs <- TwoSpecs
    Drafts <- FirstOnly
    LastBirth = 0
    Horizon = 0
    MaxRequests = 1
    MaxFaults = 0
    MaxEdits = 1
    MaxErrors = 0
SPECIFICATION FairSpec
INVARIANTS TypeOK
PROPERTIES Implements RollsOut
CHECK_DEADLOCK FALSE
