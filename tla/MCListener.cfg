CONSTANTS
    Threads <- TwoThreads
    Datagrams = 3
    Buffer = 2
    MaxFaults = 2
    ErrorCallback = TRUE
    t1 = t1
    t2 = t2
SPECIFICATION FairSpec
INVARIANTS
    NoForeignUse
    HeardInOrder
    NoUseAfterDestroy
PROPERTIES
    SilentAfterStop
    StopTakesEffect
    EveryDatagramHeard
CHECK_DEADLOCK FALSE
