CONSTANTS
    Parts = {"subscriptions"}
    Workers <- TwoWorkers
    Messages <- TwoMessages
    MaxFaults = 1
    MaxTopics = 2
    Cameras <- ThreeCameras
    XAddrs <- Addresses
    Unparsable = {name}
    Filtered = {v6}
    PoolSize = 2
    MaxAnswers = 3
    MaxRaised = 1
    MaxIds = 3
    MaxKeys = 2
    Lost = 0
    None = None
    w1 = w1
    w2 = w2
    m1 = m1
    m2 = m2
    c1 = c1
    c2 = c2
    c3 = c3
    a1 = a1
    a2 = a2
    a3 = a3
    a4 = a4
    v6 = v6
    name = name
SPECIFICATION Whole
INVARIANTS
    AllAreUnsubscribed
CHECK_DEADLOCK FALSE
