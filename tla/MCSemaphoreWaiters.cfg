SPECIFICATION Spec

CONSTANTS
    a = a
    b = b
    c = c
    d = d
    Client <- MCClient
    Impatient <- MCImpatient
    Timed <- MCTimed
    Limit = 2
    MaxFaults = 2

INVARIANTS
    TypeOK
    NoMissedWakeup
    TokensBounded

PROPERTIES
    FreeSlotIsUsed
    AcquireReturns
