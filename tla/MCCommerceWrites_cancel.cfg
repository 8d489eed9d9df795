SPECIFICATION Spec
CONSTANTS
    Txns = {t1, t2}
    Orders = {o1, o2}
    Products = {1}
    Slots = {1}
    NoOrder = NoOrder
    NoSlot = NoSlot
    Operations = {"create", "cancel"}
    Supply = 2
    Capacity = 1
    Total = 1
    Bought = 1
INVARIANTS
    StockBalances
CHECK_DEADLOCK FALSE
