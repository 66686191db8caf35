\* a full send queue is one unit less than two full writer buffers
CONSTANTS
    p1 = p1
    p2 = p2
    Peers = {p1, p2}
    Configs <- Services
    Remote = Remote
    Slots = {1, 2, 3}
    Fds = {1, 2, 3}
    ListenFd = 1
    Free = Free
    Listen = Listen
    NumAddr = 2
    Good = 2
    max_fds_net = 3
    FlushSize = 2
    SendqMax = 3
    SendsUUID = FALSE
SPECIFICATION FairSpec
INVARIANTS
    ReferencesValid
    StreamComplete
PROPERTIES
    Reconnects
    OutputDelivered
