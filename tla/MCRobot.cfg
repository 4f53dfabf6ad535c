SPECIFICATION MCSpec
CONSTANTS
    Goroutines = {g1, g2}
    Zones = {z1}
    Window = 2
    Cooldown = 2
    Thresholds <- TwoThreeFour
    MaxQueue = 3
    MaxRestarts = 1
    MaxTime = 4
    Requests = {r1, r2, r3}
    Stamps = {1, 2}
    CacheTTL = 1
    Deadline = 1
SYMMETRY Symmetry
INVARIANT AlertsAreSpaced
INVARIANT SilenceHasCause
PROPERTY SnapshotsMoveForward
INVARIANT CacheSettles
INVARIANT RenameSticks
CHECK_DEADLOCK FALSE
