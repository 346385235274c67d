CONSTANTS
    w1 = w1  w2 = w2
    Nobody = Nobody
    Workers = {w1, w2}
    Commands = {1}
    Webhooks = {2}
    Tries = 2
    MaxAttempts = 2
SPECIFICATION FairSpec
INVARIANTS OneCommandOfAttempts StepsInOrder JobTellsRun
PROPERTIES RunSettledOnce MarkPreventsReplay EveryRunSettles
CHECK_DEADLOCK FALSE
