SPECIFICATION Spec
CONSTANTS
    v = v
    w = w
    Worker <- MCWorker
    MaxJobs = 1
    Mortal = {}
    MaxAdmitted = 1
    MaxFaults = 1
    Faults = {"error", "crash"}
    MaxRequeues = 1
    LateRequeues = TRUE
    MayStop = {v}
    Prunes = FALSE
PROPERTIES
    EveryJobEnds
    StopEnds
CHECK_DEADLOCK FALSE
