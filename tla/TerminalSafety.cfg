CONSTANTS
    w1 = w1
    None = None
    Windows = {w1}
    MaxSockets = 3
    MaxOutput = 3
    History = 2
    MaxDetached = 1
SPECIFICATION FairSpec
INVARIANTS ExactOutput NoOrphan PausedHasReader CapRespected
PROPERTY EveryShellEnds
