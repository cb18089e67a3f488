SPECIFICATION FairSpec
CONSTANTS
    p1 = p1
    p2 = p2
    p3 = p3
    Calls = {p1, p2, p3}
    FailureThreshold = 3
    RollingWindow = 4
    RateNum = 1
    RateDen = 2
    OpenSeconds = 2
    MaxProbes = 2
    Outcomes = {"success", "failure", "throttled", "cancelled"}
INVARIANT TypeOK
INVARIANT TrialsBounded
INVARIANT ClosedIsHealthy
INVARIANT HalfOpenHasProbe
PROPERTY CoolDownRespected
PROPERTY ProbingEnds
