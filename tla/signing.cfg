CONSTANTS
    Processes = {m1, m2, m3}
    k1 = k1
    k2 = k2
    k3 = k3
    Keys <- MCKeys
    NoKey = NoKey
    MaxFaults = 1
SPECIFICATION FairSpec
INVARIANTS Agreement
PROPERTIES Implements Keyed
CHECK_DEADLOCK FALSE
