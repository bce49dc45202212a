CONSTANTS
    Fds = {f1, f2}
    Listener = Listener
    MaxIn = 1
    MaxPending = 1
    MaxWire = 1
    MaxBacklog = 1
SPECIFICATION FairSpec
PROPERTIES
    QueuedReachesWire
    InputIsRead
    DeadPeerRemoved
    SigintStopsUnlessEntering
CHECK_DEADLOCK FALSE
