SPECIFICATION Spec
CONSTANTS
    w1 = w1
    w2 = w2
    t1 = t1
    t2 = t2
    t3 = t3
    Events <- TwoEvents
    Workers <- TwoWorkers
    TaskIds <- TwoTasks
    BatchSize = 2
    MaxAttempts = 2
    AsynqMaxRetry = 1
    Faults <- AllFaults
SYMMETRY Symmetry
INVARIANT TypeOK
INVARIANT DeadMeansExhausted
INVARIANT DeliveredMeansPublished
INVARIANT BudgetMatchesStatus
INVARIANT ExclusiveDispatch
PROPERTY ImplementsDelivery
PROPERTY VerdictStands
CHECK_DEADLOCK FALSE
