CONSTANTS
    t1 = t1  t2 = t2  k1 = k1  k2 = k2
    Caller = Caller
    Sweeper = Sweeper
    Targets = {t1}
    Jobs = {k1, k2}
    LostAnswers = FALSE
SPECIFICATION FairSpec
INVARIANT DispatchedOnce
PROPERTY EveryRequestSettles
CHECK_DEADLOCK FALSE
