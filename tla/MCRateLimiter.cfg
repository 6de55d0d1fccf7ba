SPECIFICATION Spec
CONSTANTS
    a = a
    b = b
    requests = requests
    tokens = tokens
    Identifier <- TwoRequests
    Order <- ShortFirst
    Limit <- MCLimit
    Window <- MCWindow
    MaxCost = 2
    Asks <- MCAsks
    AcquireTimeout = 2
    WaitJitter = 1
    AnswersLost = TRUE
    ResendDelay = 0
    AdjustFails = FALSE
    MaxAdjusts = 1
    MaxTime = 4
INVARIANTS
    TypeOK
    PermitMatchesLog

PROPERTIES
    AdmissionWithinLimits
    ResentIsAdmitted
    EveryAcquireEnds

CHECK_DEADLOCK FALSE
