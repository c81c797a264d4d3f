CONSTANTS
    None = None
    Drifted = Drifted
    Logger = TRUE
    p1 = p1
    p2 = p2
    Instances = {i1, i2}
    Users = {u1}
    TTLs = {0, None}
    Contents <- MCContents
    Views <- WithOrWithout
    LastBirth = 0
    Horizon = 1
    MaxRequests = 3
    MaxFaults = 0
SPECIFICATION Spec
INVARIANTS TypeOK InstanceInv
PROPERTIES CreatedForGuarded DeletesOnlyExpired
CHECK_DEADLOCK FALSE
SYMMETRY Interchangeable
