SPECIFICATION Spec
CONSTANTS
    a = a
    b = b
    c = c
    Identifier <- MCIdentifier
    Limit = 2
    LockTimeout <- MixedTimeouts
    Skew <- ServerClock
    MaxTime = 6
    MaxToken = 4
INVARIANTS
    OwnersWithinLimit
    KeyOutlivesMembers
PROPERTIES
    FencingMonotonic
    LeaseHonoured
    ImplementsLeases
