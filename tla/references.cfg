CONSTANTS
    None = None
    Drifted = Drifted
    Home = Home
    p1 = p1
    p2 = p2
    e1 = e1
    e2 = e2
    ChallengeName = "chal"
    DataKinds = {"configmap"}
    Entries <- MCEntries
    Payloads <- MCPayloads
    Instances = {}
    Users = {}
    TTLs = {9}
    Contents <- MCContents
    Specs <- WithOrWithout
    Drafts <- MountingOnly
    LastBirth = 0
    Horizon = 0
    MaxRequests = 0
    MaxFaults = 1
    MaxActs = 1
    MaxTrouble = 1
    MaxEdits = 1
    MaxErrors = 1
SPECIFICATION FairSpec
INVARIANTS TypeOK
PROPERTIES Implements ForgottenFirst FurnishedOrGone
CHECK_DEADLOCK FALSE
