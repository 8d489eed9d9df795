SPECIFICATION Spec
CONSTANTS
    Workers = {w1, w2, w3}
    NoWorker = NoWorker
    Kinds = {"cancel", "reschedule", "create"}
    MaxOrphans = 1
SYMMETRY Symmetry
INVARIANTS
    AtMostOneEffect
    GatesBeforeDispatch
    CalledOffMeansNotSent
    ExecutionIsExclusive
    FailureIsReal
    SuccessIsReal
    IInv
PROPERTIES
    TerminalIsFinal
    NoLateEffect
    ImplementsContract
CHECK_DEADLOCK FALSE
