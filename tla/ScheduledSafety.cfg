CONSTANTS
    w1 = w1  w2 = w2
    None = None
    Workers = {w1, w2}
    Period = 2
    ClaimLease = 1
    MaxTime = 3
SPECIFICATION Spec
INVARIANTS DispatchesOccurrences
PROPERTIES NoOccurrenceLost ClaimYieldsToEdit
CHECK_DEADLOCK FALSE
