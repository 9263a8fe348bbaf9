\* Two workers, two requests, crashes of every process.
SPECIFICATION FairSpec
CONSTANTS
    MaxJobs = 2
    Workers = {w1, w2}
    MayCrash = TRUE
INVARIANTS
    TypeOK
    ExclusiveReservation
    AcceptedStaysOnDisk
    OnlyWholeOpenJobs
PROPERTIES
    ImplementsLifecycle
    FirstIsReserved
CHECK_DEADLOCK FALSE
