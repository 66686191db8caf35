CONSTANTS
    k1 = k1
    k2 = k2
    Clients = {k1, k2}
    Configs <- Traffic
    AcceptMax = 2
    RequestMax = 1
    WakeupMax = 4
SPECIFICATION FairSpec
INVARIANTS
    NothingLeaks
    RepliesInOrder
PROPERTIES
    RequestsAnswered
