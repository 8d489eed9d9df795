SPECIFICATION FairSpec
CONSTANTS
    Txns = {t1, t2}
    Orders = {o1, o2}
    Products = {1, 2}
    Slots = {1, 2}
    NoOrder = NoOrder
    NoSlot = NoSlot
    Operations = {"create", "cancel", "reschedule", "refund", "return"}
    Supply = 1
    Capacity = 1
    Total = 1
    Bought = 1
INVARIANTS
    SlotsBalance
    WithinOrder
    CancelledOnce
    NothingOversold
PROPERTIES
    RejectionChangesNothing
    EveryWriteEnds
CHECK_DEADLOCK FALSE
