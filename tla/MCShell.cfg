SPECIFICATION Spec
CONSTANTS
    Requests = {r1, r2}
    Changes = {m1}
    PoolSize = 2
    MayLeak = TRUE
INVARIANT AnswerTellsTruth
INVARIANT MadeOnce
INVARIANT ChangesAreAudited
PROPERTY EventuallyStopped
CHECK_DEADLOCK FALSE
