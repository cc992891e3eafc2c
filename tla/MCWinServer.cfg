CONSTANTS
    Clients <- ThreeClients
    Quitters <- OneQuitter
    MaxFaults = 1
    Restart = TRUE
    ErrorCallback = TRUE
    NoClient = NoClient
    c1 = c1
    c2 = c2
    c3 = c3
SPECIFICATION FairSpec
INVARIANTS
    ServerKept
    QueueIsAnnounced
PROPERTIES
    StoppedForGood
    CutIsTheLast
    StopReturns
    EveryClientResolved
CHECK_DEADLOCK FALSE
