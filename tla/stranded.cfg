CONSTANTS
    None = None
    Drifted = Drifted
    Home = Home
    p1 = p1
    p2 = p2
    e1 = e1
    e2 = e2
    ChallengeName = "chal"
    DataKinds = {"configmap"}
    Entries <- OneEntry
    Payloads <- MCPayloads
    Instances = {}
    Users = {}
    TTLs = {9}
    Contents <- MCContents
    Specs <- MountingOnly
    Drafts <- MountingOnly
    LastBirth = 0
    Horizon = 0
    MaxRequests = 0
    MaxFaults = 0
    MaxActs = 1
    MaxTrouble = 1
    MaxEdits = 1
    MaxErrors = 0
SPECIFICATION FairSpec
PROPERTIES SourceGoes
CHECK_DEADLOCK FALSE
