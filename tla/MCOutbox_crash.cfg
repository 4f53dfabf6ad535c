SPECIFICATION FairSpec
CONSTANTS
    w1 = w1
    w2 = w2
    t1 = t1
    t2 = t2
    t3 = t3
    Events <- OneEvent
    Workers <- OneWorker
    TaskIds <- OneTask
    BatchSize = 1
    MaxAttempts = 2
    AsynqMaxRetry = 1
    Faults <- CrashOnly
PROPERTY EventuallySettled
CHECK_DEADLOCK FALSE
