SPECIFICATION Spec

CONSTANTS
    v = v
    w = w
    Worker <- MCWorker
    MaxJobs = 2
    Mortal = {1}
    MaxAdmitted = 2
    MaxFaults = 2
    Faults = {"error", "resent", "crash", "stall"}
    MaxRequeues = 1
    LateRequeues = FALSE
    MayStop = {v}
    Prunes = TRUE

INVARIANTS
    StaysDeliverable
    HandBackSticks

PROPERTIES
    NoRerun
    RequeuedFirst

CHECK_DEADLOCK FALSE
