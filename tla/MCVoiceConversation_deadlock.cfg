SPECIFICATION Spec
CONSTANTS
    text = text
    first = first
    second = second
    Requests <- AllRequests
    VoiceRequests <- Deliveries
    Turns = {t1, t2}
    ToolUsers = {}
    MaxCalls = 1
    NoOne = NoOne
INVARIANT LoserIsToldBusy
CHECK_DEADLOCK FALSE
