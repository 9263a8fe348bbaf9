\* Two workers, three requests, crashes of every process.
SPECIFICATION FairSpec
CONSTANTS
    Jobs = {j1, j2, j3}
    Workers = {w1, w2}
    NoJob = NoJob
INVARIANTS
    TypeOK
    ExclusiveReservation
    RequestsAccounted
    FreshBeforeRetried
PROPERTIES
    ImplementsLifecycle
    QueuedIsReserved
CHECK_DEADLOCK FALSE
