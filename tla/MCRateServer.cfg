SPECIFICATION Spec

CONSTANTS
    a = a
    b = b
    c = c
    tokens = tokens
    Identifier <- ThreeRequests
    Order <- OneLimit
    Limit <- ThreeUnits
    Window <- TwoMilliseconds
    MaxCost = 2
    Skew <- ClientClocks
    KeysLost = TRUE
    MaxTime = 4

INVARIANTS
    TotalMatchesLog
    KeysExpire
    LogOutlivesEntries
    RetryAfterExact

CHECK_DEADLOCK FALSE
