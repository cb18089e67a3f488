SPECIFICATION Spec
CONSTANTS
    app = app
    op = op
    k1 = k1
    k2 = k2
    App = app
    Operators = {op}
    Keys = {k1, k2}
    ListLimit = 2
    MaxLaunches = 3
    MaxSubmits = 2
    MaxPurges = 1
    FaultSets <- Crashing
SYMMETRY MCSymmetry
INVARIANT ReplayDropsNothing
CHECK_DEADLOCK FALSE
