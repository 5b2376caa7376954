SPECIFICATION PoolFairSpec
CONSTANTS
    Threads = {t1, t2, t3}
    NoThread = NoThread
    InitNum = 1
    ContextNum = 8
    ContextsPerThr = 4
    MaxTimesNotServed = 2
    MaxNotEmptyTimes = 2
    MayStop = TRUE
INVARIANTS
    Accounts
PROPERTIES
    StopReturns
    ShrinksWhenIdle
CHECK_DEADLOCK FALSE
