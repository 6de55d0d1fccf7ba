SPECIFICATION Spec
CONSTANTS
    a = a
    b = b
    requests = requests
    tokens = tokens
    Identifier <- TwoRequests
    Order <- ShortFirst
    Limit <- MCLimit
    Window <- MCWindow
    MaxCost = 2
    Asks <- MCAsks
    AcquireTimeout = 2
    WaitJitter = 0
    AnswersLost = TRUE
    ResendDelay = 0
    AdjustFails = TRUE
    MaxAdjusts = 2
    MaxTime = 3
PROPERTIES
    AdjustSettles
CHECK_DEADLOCK FALSE
