SPECIFICATION FSpec
CONSTANTS
    a = a
    b = b
    Identifier <- MCIdentifier
    Limit = 1
    LockTimeout <- OneTimeout
    Skew <- ServerClock
    MaxTime = 3
    MaxToken = 3
PROPERTY
    TokensSurviveFailover
