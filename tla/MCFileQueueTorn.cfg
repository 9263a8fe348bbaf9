\* No process dies: can the queue lose an accepted job before it is read?
SPECIFICATION Spec
CONSTANTS
    MaxJobs = 1
    Workers = {w1}
    MayCrash = FALSE
INVARIANTS
    KeptUntilRead
CHECK_DEADLOCK FALSE
