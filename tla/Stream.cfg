CONSTANTS
    MaxSent = 4
    MaxRelayed = 1
    MaxRecv = 3
    MaxWire = 3
SPECIFICATION StreamSpec
INVARIANTS
    LinesInOrder
    NobodyCutOff
    RepliesInOrder
PROPERTIES
    EveryLineHandled
    RepliesDelivered
CHECK_DEADLOCK FALSE
