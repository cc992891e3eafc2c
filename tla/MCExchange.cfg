CONSTANTS
    Requests <- SomeRequests
    ResponseLength = 5
    RecvSize = 3
    Window = 4
SPECIFICATION FairSpec
INVARIANTS
    SeenIsLine
    ReplyIsWholeOrReported
    OneLineIsNeverReset
PROPERTIES
    BothEnd
CHECK_DEADLOCK FALSE
