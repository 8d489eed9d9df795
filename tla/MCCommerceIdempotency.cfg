SPECIFICATION FairSpec
CONSTANTS
    Requests = {r1, r2, r3, r4}
    Fingerprints = {f1, f2}
    NoRecord = NoRecord
INVARIANTS
    AnswersAreDurable
    ReuseIsReal
    RecordMeansDone
PROPERTIES
    KeepsPromise
    EveryRequestEnds
CHECK_DEADLOCK FALSE
