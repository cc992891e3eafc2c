CONSTANTS
    Clients <- ThreeClients
    Quitters <- OneClient
    Deaf <- OtherClient
    MaxFaults = 1
    Restart = TRUE
    ErrorCallback = TRUE
    NoClient = NoClient
    c1 = c1
    c2 = c2
    c3 = c3
SPECIFICATION FairSpec
INVARIANTS
    LeavesOnlyWhenStopped
    ServerKept
PROPERTIES
    ServesOn
CHECK_DEADLOCK FALSE
