SPECIFICATION Spec
CONSTANTS
    p = p
    q = q
    Instance <- MCInstance
    Rival <- MCRival
    Limit = 1
    LockTimeout = 2
    RefreshInterval = 1
    RetryStep = 1
    CallTimeout = 1
    Strict = FALSE
    Forbid = FALSE
    Async = FALSE
    MaxIdentifiers = 2
    MaxHeartbeats = 2
    MaxFaults = 0
    MaxTime = 5
INVARIANT
    LostEventTruthful
CHECK_DEADLOCK FALSE
