SPECIFICATION Spec
CONSTANTS
    a1 = a1
    a2 = a2
    b1 = b1
    ca = ca
    cb = cb
    k1 = k1
    Tasks = {a1, a2, b1}
    Conns = {ca, cb}
    ConnOf <- MCConnOf
    Keys = {k1}
    Ops = {"upsert", "increment", "delete", "push", "remove", "purge"}
    Ids = {1}
    MaxCalls = 4
INVARIANT TypeOK
INVARIANT OneTransaction
PROPERTY ImplementsAtomicStore
PROPERTY EveryOperationEnds
CHECK_DEADLOCK FALSE
