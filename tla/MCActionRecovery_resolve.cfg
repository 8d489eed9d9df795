SPECIFICATION CalmingSpec
CONSTANTS
    Workers = {w1, w2}
    NoWorker = NoWorker
    Kinds = {"cancel", "create"}
    MaxOrphans = 1
PROPERTIES
    EventuallyResolved
CHECK_DEADLOCK FALSE
