SPECIFICATION FairSpec
CONSTANTS
    c1 = c1
    c2 = c2
    c3 = c3
    k1 = k1
    k2 = k2
    Callers = {c1, c2}
    Keys = {k1}
    KeyOf <- MCKeyOf
    NumWorkers = 1
    QueueSize = 3
    MaxRetries = 1
    MaxBoots = 1
    Events = {"cancel", "upsertError"}
PROPERTY EveryItemLeaves
CHECK_DEADLOCK FALSE
