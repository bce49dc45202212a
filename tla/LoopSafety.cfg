CONSTANTS
    Fds = {f1, f2}
    Listener = Listener
    MaxIn = 2
    MaxPending = 2
    MaxWire = 1
    MaxBacklog = 1
SPECIFICATION LoopSpec
SYMMETRY FdSymmetry
INVARIANTS
    LoopTypeOK
    FdsAligned
    PollOutArmed
    NothingSkipped
    NothingLeftOpen
CHECK_DEADLOCK FALSE
