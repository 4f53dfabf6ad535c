SPECIFICATION MCSpec
CONSTANTS
    Requests = {r1, r2, r3}
    LockTTL = 1
    CacheTTL = 1
    Deadline = 1
    MaxVersion = 3
    MaxTime = 3
    Callers = {g1, g2}
    Clients = {c1}
    Cost = 1
    Full = 4
    BucketTTL = 1
    Delay = 1
    MaxRateTime = 7
    Calls = {r1, r2, r3}
    Threshold = 3
    ResetDuration = 2
    RetryMax = 1
    Timeout = 2
    MaxAiTime = 8
    Verifiers = {r1, r2, r3}
    KeyTTL = 1
    FetchTimeout = 1
    MaxKey = 2
    MaxKeyTime = 4
    w1 = w1
    w2 = w2
    w3 = w3
    b1 = b1
    b2 = b2
    Warehouses = {w1, w2, w3}
    Blank = Blank
    CandidateLists <- Candidates
    Robots = {b1, b2}
    RobotLists <- Fleets
    MaxTasks = 4
    Places = {p1, p2}
    Clusters = {c1, c2}
    None = None
    MaxRoutes = 2
    MaxEvents = 2
    Raws <- FewRaws
    Defaults <- FewDefaults
    PortLimit = 4
    Absent = Absent
    Junk = Junk
    NaN = NaN
    MaxEntries = 2
SYMMETRY Symmetry
INVARIANT LockExcludes
INVARIANT BoundedStaleness
INVARIANT OrderedWriteThrough
INVARIANT AdmissionBounded
INVARIANT OpenEndsInTime
INVARIANT WithdrawnKeysExpire
INVARIANT RenewedKeysExpire
INVARIANT RejectedForCause
INVARIANT NoMovePays
INVARIANT ScheduleIsFair
INVARIANT OneClusterPerPlace
INVARIANT TargetsAreReachable
INVARIANT SettingsExplained
CHECK_DEADLOCK FALSE
