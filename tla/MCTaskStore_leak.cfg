SPECIFICATION FairSpec
CONSTANTS
    k1 = k1
    g1 = g1
    g2 = g2
    p1 = p1
    Keys <- OneKey
    GoRequests <- TwoGo
    PyRequests <- NoRequest
    PoolSize = 2
    Targets <- AllTargets
PROPERTY EveryEventStored
