SPECIFICATION Spec
CONSTANTS
    plain = plain
    guarded = guarded
    barred = barred
    Handlers = {h1, h2, h3}
    NoHandler = NoHandler
    Facts = {plain, guarded, barred}
    GateOf <- FactGates
    Days = {40, 41}
    SlotDays = {39, 40, 41, 71, 72, 73}
    DeliveryDays = {9, 10, 11, 40, 41}
    Quantities = {1, 2}
    Amounts = {1, 500, 501, 502}
SYMMETRY Symmetry
INVARIANTS
    OneLiveRequest
    AnsweredAsAsked
    PolicyFitsCommerce
    FingerprintTellsGate
PROPERTIES
    CorrectionsSpareTheDispatched
CHECK_DEADLOCK FALSE
