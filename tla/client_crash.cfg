SPECIFICATION Spec
CONSTANTS
    c1 = c1
    c2 = c2
    c3 = c3
    k1 = k1
    k2 = k2
    Callers = {c1, c2, c3}
    Keys = {k1, k2}
    KeyOf <- MCKeyOf
    NumWorkers = 2
    QueueSize = 1
    MaxRetries = 1
    MaxBoots = 2
    Events = {"crash"}
SYMMETRY MCSymmetry
INVARIANT TypeOK
INVARIANT NoDuplicateWork
INVARIANT RetryCountPersisted
INVARIANT RetryBudget
INVARIANT WaitersHaveWork
INVARIANT RowsHaveWork
PROPERTY AnsweredAfterSettled
CHECK_DEADLOCK FALSE
