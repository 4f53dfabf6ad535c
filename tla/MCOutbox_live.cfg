SPECIFICATION FairSpec
CONSTANTS
    w1 = w1
    w2 = w2
    t1 = t1
    t2 = t2
    t3 = t3
    Events <- OneEvent
    Workers <- TwoWorkers
    TaskIds <- ThreeTasks
    BatchSize = 1
    MaxAttempts = 3
    AsynqMaxRetry = 2
    Faults <- NetFaults
INVARIANT SendingIsOwned
PROPERTY EventuallySettled
CHECK_DEADLOCK FALSE
