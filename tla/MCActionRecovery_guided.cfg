SPECIFICATION GuidedSpec
CONSTANTS
    Workers = {w1}
    NoWorker = NoWorker
    Kinds = {"cancel", "reschedule", "create"}
    MaxOrphans = 1
PROPERTIES
    ExecutionIsTakenUp
CHECK_DEADLOCK FALSE
