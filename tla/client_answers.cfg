SPECIFICATION FairSpec
CONSTANTS
    c1 = c1
    c2 = c2
    c3 = c3
    k1 = k1
    k2 = k2
    Callers = {c1, c2, c3}
    Keys = {k1, k2}
    KeyOf <- MCKeyOf
    NumWorkers = 2
    QueueSize = 1
    MaxRetries = 1
    MaxBoots = 1
    Events = {}
PROPERTY EveryRequestAnswered
