SPECIFICATION Spec

CONSTANTS
    p = p
    q = q
    Submitter <- MCBoth
    Timeout <- MCTimeout
    MaxSize = 1
    ReplyTtl = 7
    Block = 2
    MinBlock = 2
    ReadTimeout = 2
    Budget = 1
    Pause = 1
    ResendDelay = 1
    MaxRuns <- MCRuns
    MaxFaults = 2
    Horizon = 8

INVARIANTS
    TypeOK
    QueuedOnce
    AnswerKept
    EndsHonestly

CHECK_DEADLOCK FALSE
