CONSTANTS
    None = None
    Home = Home
    e1 = e1
    e2 = e2
    Namespaces = {n1, n2}
    Kinds = {"secret"}
    Entries <- MCEntries
    Payloads <- TwoPayloads
    MaxActs = 1
    MaxFaults = 1
    Horizon = 1
SPECIFICATION FairSpec
INVARIANTS TypeOK SourceInv
PROPERTIES KeepsSource Mirrors Cleans Rests
CHECK_DEADLOCK FALSE
