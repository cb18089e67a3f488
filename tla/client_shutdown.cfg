SPECIFICATION Spec
CONSTANTS
    c1 = c1
    c2 = c2
    c3 = c3
    k1 = k1
    k2 = k2
    Callers = {c1, c3}
    Keys = {k1, k2}
    KeyOf <- MCKeyOf
    NumWorkers = 2
    QueueSize = 1
    MaxRetries = 1
    MaxBoots = 2
    Events = {"stop", "drain", "restart", "crash", "upsertError", "storageError"}
INVARIANT NoLostWork
INVARIANT NothingOutlivesStop
PROPERTY ImplementsLedger
CHECK_DEADLOCK FALSE
