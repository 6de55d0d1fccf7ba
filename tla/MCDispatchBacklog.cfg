SPECIFICATION Spec

CONSTANTS
    v = v
    w = w
    Worker <- MCWorker
    MaxJobs = 2
    Mortal = {}
    MaxAdmitted = 1
    MaxFaults = 0
    Faults = {}
    MaxRequeues = 1
    LateRequeues = TRUE
    MayStop = {v}
    Prunes = FALSE

INVARIANT
    RunsOnce

CHECK_DEADLOCK FALSE
