SPECIFICATION Spec
CONSTANTS
    t1 = t1
    t2 = t2
    t3 = t3
    Tasks = {t1, t2, t3}
    Token = 3
    Configs <- Overridden
    MaxTime = 8
SYMMETRY MCSymmetry
INVARIANT TypeOK
INVARIANT BucketRateRespected
INVARIANT SleepSuffices
CHECK_DEADLOCK FALSE
