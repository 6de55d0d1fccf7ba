SPECIFICATION Spec
CONSTANTS
    a = a
    b = b
    requests = requests
    tokens = tokens
    Identifier <- TwoRequests
    Order <- LongFirst
    Limit <- MCLimit
    Window <- MCWindow
    MaxCost = 2
    Asks <- MCAsks
    AcquireTimeout = 2
    WaitJitter = 0
    AnswersLost = TRUE
    ResendDelay = 2
    AdjustFails = FALSE
    MaxAdjusts = 1
    MaxTime = 3
PROPERTIES
    AdmissionWithinLimits
CHECK_DEADLOCK FALSE
