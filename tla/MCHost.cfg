CONSTANTS
    None = None
    Hosts = {h1}
    Members = {l1}
    MaxSends = 2
    MaxErrors = 1
    Group = Group
    Interfaces <- TwoInterfaces
    Within <- OneWithinTheOther
    ServiceTables <- TwoTables
    States <- ThreeStates
    Routes <- NoneOrTwo
    MaxEdits = 1
    MaxMoves = 1
    Links <- TwoLinks
    Types <- TwoTypes
    InetLists <- FourAddresses
    RouteTables <- FourRouteTables
    Indexes <- FourIndexes
    Width = 4
    Configs <- TwoConfigs
    FirstSize = 1
    MaxChanges = 2
    NoFd = NoFd
    Requests <- ThreeRequests
    Fds <- TwoFds
    Endpoints <- TwoEndpoints
    Chunks = 1
    MaxFaults = 2
    r1 = r1
    r2 = r2
    r3 = r3
    e1 = e1
    e2 = e2
    f1 = f1
    f2 = f2
    h1 = h1
    l1 = l1
    eth = eth
    wlan = wlan
    a1 = a1
    a2 = a2
    b1 = b1
    gw1 = gw1
    gw2 = gw2
    en1 = en1
    en10 = en10
    s1 = s1
    s2 = s2
    s3 = s3
SYMMETRY Symmetric
SPECIFICATION Whole
INVARIANTS
    ClientsKept
    NothingLost
    AdaptersAreTrue
PROPERTIES
    WhoHears
CHECK_DEADLOCK FALSE
