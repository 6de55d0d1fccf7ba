SPECIFICATION Spec

CONSTANTS
    v = v
    w = w
    Worker <- MCWorker
    MaxJobs = 2
    Mortal = {1}
    MaxAdmitted = 2
    MaxFaults = 2
    Faults = {"fatal", "crash", "lapse", "hard stop"}
    MaxRequeues = 0
    LateRequeues = TRUE
    MayStop = {v}
    Prunes = FALSE

INVARIANTS
    TypeOK
    RunsOnce

PROPERTIES
    AdmitsInOrder

CHECK_DEADLOCK FALSE
