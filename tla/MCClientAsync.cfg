SPECIFICATION Spec
CONSTANTS
    p = p
    q = q
    Instance <- MCInstance
    Rival <- MCRival
    Limit = 1
    LockTimeout = 2
    RefreshInterval = 1
    RetryStep = 1
    CallTimeout = 1
    Strict = FALSE
    Forbid = FALSE
    Async = TRUE
    MaxIdentifiers = 2
    MaxHeartbeats = 2
    MaxFaults = 1
    MaxTime = 5
PROPERTY
    LossIsReal
CHECK_DEADLOCK FALSE
