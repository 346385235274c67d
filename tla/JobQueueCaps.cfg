CONSTANTS
    j1 = j1  j2 = j2  s1 = s1  s2 = s2  w1 = w1  w2 = w2  user = user
    Nobody = Nobody
    Jobs = {j1, j2}
    Slots = {s1, s2}
    Workers = {w1, w2}
    WorkerOf <- OwnWorkers
    MaxAttempts <- Once
    Owner <- Unowned
    Node <- Unowned
    LeaseLen = 2
    RetryDelay = 0
    CallLag = 1
    MaxGlobal = 1
    MaxPerUser = 0
    MaxPerNode = 0
SPECIFICATION CapsSpec
INVARIANTS CapsRespected
SYMMETRY Symmetry
