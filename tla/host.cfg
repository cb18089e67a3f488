SPECIFICATION Spec
CONSTANTS
    i1 = i1
    i2 = i2
    i3 = i3
    Calls = {i1, i2, i3}
    FailureThreshold = 2
    RollingWindow = 2
    RateNum = 1
    RateDen = 1
    OpenSeconds = 2
    MaxProbes = 1
    MaxRetries = 2
    BaseDelay = 1
    MaxDelay = 3
    Jitter = TRUE
    Replies <- AnyReply
INVARIANT TypeOK
INVARIANT OncePerCoolDown
PROPERTY EveryItemSettles
