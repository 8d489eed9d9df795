SPECIFICATION Spec
CONSTANTS
    text = text
    first = first
    second = second
    Requests <- AllRequests
    VoiceRequests <- Deliveries
    Turns = {t1, t2}
    ToolUsers = {text}
    MaxCalls = 1
    NoOne = NoOne
SYMMETRY Symmetry
INVARIANTS
    OneRunningTurn
    TranscriptIntact
    VoiceTurnOnce
    HeardOnceAndDurable
PROPERTIES
    EndedRunsAreFrozen
CHECK_DEADLOCK FALSE
