SPECIFICATION Spec
CONSTANTS
    app = app
    op = op
    k1 = k1
    k2 = k2
    App = app
    Operators = {op}
    Keys = {k1, k2}
    ListLimit = 2
    MaxLaunches = 3
    MaxSubmits = 2
    MaxPurges = 1
    FaultSets <- AloneOrShared
SYMMETRY MCSymmetry
INVARIANT TypeOK
INVARIANT OnlyReplayDrops
INVARIANT SharedWorkIsHeld
INVARIANT SnapshotIdsStayTrue
INVARIANT ReplayAddsNoDuplicates
INVARIANT ExitCodeIsTrue
CHECK_DEADLOCK FALSE
