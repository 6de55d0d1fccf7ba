SPECIFICATION Spec

CONSTANTS
    v = v
    w = w
    Worker <- MCWorker
    MaxJobs = 2
    Mortal = {1}
    MaxAdmitted = 1
    MaxFaults = 1
    Faults = {"crash"}
    MaxRequeues = 0
    LateRequeues = TRUE
    MayStop = {}
    Prunes = FALSE

INVARIANT
    WaitingHonest

CHECK_DEADLOCK FALSE
