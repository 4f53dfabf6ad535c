SPECIFICATION Spec
CONSTANTS
    k1 = k1
    g1 = g1
    g2 = g2
    p1 = p1
    Keys <- OneKey
    GoRequests <- TwoGo
    PyRequests <- OnePython
    PoolSize = 2
    Targets <- AllTargets
SYMMETRY Symmetry
INVARIANT TypeOK
INVARIANT HistoryIsPath
INVARIANT LocksAreOwned
PROPERTY AbandonedTasksFreeze
