CONSTANTS
    t1 = t1  t2 = t2  k1 = k1  k2 = k2
    Caller = Caller
    Sweeper = Sweeper
    Targets = {t1, t2}
    Jobs = {k1}
    LostAnswers = FALSE
SPECIFICATION Spec
INVARIANTS CompletedMeansRan JobTellsOutcome
PROPERTY ImplementsReviewed
CHECK_DEADLOCK FALSE
SYMMETRY Symmetry
