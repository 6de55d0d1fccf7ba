SPECIFICATION Spec

CONSTANTS
    v = v
    w = w
    Worker <- MCWorker
    MaxJobs = 2
    Mortal = {}
    MaxAdmitted = 2
    MaxFaults = 0
    Faults = {}
    MaxRequeues = 1
    LateRequeues = TRUE
    MayStop = {v}
    Prunes = FALSE

PROPERTY
    RequeuedFirst

CHECK_DEADLOCK FALSE
