CONSTANTS
    Fds = {f1}
    Listener = Listener
    MaxIn = 1
    MaxPending = 1
    MaxWire = 1
    MaxBacklog = 1
SPECIFICATION FairSpec
PROPERTY SigintStops
CHECK_DEADLOCK FALSE
