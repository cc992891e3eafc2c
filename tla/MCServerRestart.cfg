CONSTANTS
    Threads <- TwoThreads
    Clients <- TwoClients
    Quitters <- OneQuitter
    Fds = {3, 4, 5, 6, 7}
    MaxFaults = 2
    MaxOthers = 1
    Discipline = "restart"
    ErrorCallback = TRUE
    Owner = Owner
    Nobody = Nobody
    NoClient = NoClient
    t1 = t1
    t2 = t2
    c1 = c1
    c2 = c2
SPECIFICATION FairSpec
INVARIANTS
    LeavesOnlyWhenStopped
PROPERTIES
    EveryClientResolved
    StopTakesEffect
