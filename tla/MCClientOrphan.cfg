SPECIFICATION Spec
CONSTANTS
    p = p
    q = q
    Instance <- MCInstance
    Rival <- MCRival
    Limit = 1
    LockTimeout = 4
    RefreshInterval = 1
    RetryStep = 1
    CallTimeout = 3
    Strict = TRUE
    Forbid = TRUE
    Async = FALSE
    MaxIdentifiers = 2
    MaxHeartbeats = 2
    MaxFaults = 0
    MaxTime = 7
PROPERTY
    LossIsReal
CHECK_DEADLOCK FALSE
