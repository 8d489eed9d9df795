SPECIFICATION Spec
CONSTANTS
    Workers = {w1, w2}
    NoWorker = NoWorker
    Kinds = {"cancel", "reschedule", "create"}
    MaxOrphans = 1
INVARIANTS
    FailedMeansNoEffect
CHECK_DEADLOCK FALSE
