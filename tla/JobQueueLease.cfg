CONSTANTS
    j1 = j1  j2 = j2  s1 = s1  s2 = s2  w1 = w1  w2 = w2
    Nobody = Nobody
    Jobs = {j1}
    Slots = {s1, s2}
    Workers = {w1, w2}
    WorkerOf <- OwnWorkers
    MaxAttempts <- Twice
    Owner <- Unowned
    Node <- Unowned
    LeaseLen = 3
    RetryDelay = 1
    CallLag = 1
    MaxGlobal = 0
    MaxPerUser = 0
    MaxPerNode = 0
SPECIFICATION Spec
INVARIANTS TypeOK ExclusiveExecution
PROPERTIES SettledForGood SettlesOwnAttempt ImplementsWork
