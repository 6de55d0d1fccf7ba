SPECIFICATION Spec
CONSTANTS
    p = p
    q = q
    Instance <- MCInstance
    Rival <- MCRival
    Limit = 1
    LockTimeout = 2
    RefreshInterval = 1
    RetryStep = 1
    CallTimeout = 1
    Strict = TRUE
    Forbid = TRUE
    Async = FALSE
    MaxIdentifiers = 2
    MaxHeartbeats = 2
    MaxFaults = 2
    MaxTime = 5
INVARIANTS
    TypeOK
    HeartbeatCovers
    BeliefBounded
    SlotHasOwner
    LostEventTruthful
PROPERTIES
    LossIsReal
    LossSticks
CHECK_DEADLOCK FALSE
