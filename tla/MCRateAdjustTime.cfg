SPECIFICATION Spec
CONSTANTS
    a = a
    b = b
    requests = requests
    tokens = tokens
    Identifier <- TwoRequests
    Order <- ShortFirst
    Limit <- MCLimit
    Window <- MCWindow
    MaxCost = 2
    Asks <- MCAsks
    AcquireTimeout = 2
    WaitJitter = 0
    AnswersLost = TRUE
    ResendDelay = 1
    AdjustFails = FALSE
    MaxAdjusts = 1
    MaxTime = 3
PROPERTIES
    KeepsAdmissionTime
CHECK_DEADLOCK FALSE
