SPECIFICATION Spec
CONSTANTS
    p = p
    q = q
    Submitter <- MCAlone
    Timeout <- MCTimeout
    MaxSize = 1
    ReplyTtl = 1
    Block = 2
    MinBlock = 1
    ReadTimeout = 2
    Budget = 2
    Pause = 1
    ResendDelay = 0
    MaxRuns <- MCRuns
    MaxFaults = 2
    Horizon = 4
INVARIANTS
    AnswerKept
CHECK_DEADLOCK FALSE
