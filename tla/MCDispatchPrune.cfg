SPECIFICATION Spec
CONSTANTS
    v = v
    w = w
    Worker <- MCWorker
    MaxJobs = 1
    Mortal = {}
    MaxAdmitted = 1
    MaxFaults = 3
    Faults = {"crash", "lapse"}
    MaxRequeues = 0
    LateRequeues = TRUE
    MayStop = {}
    Prunes = TRUE
INVARIANTS
    NothingLost
CHECK_DEADLOCK FALSE
