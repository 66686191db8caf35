\* one busy input client
CONSTANTS
    t1 = t1
    t2 = t2
    c1 = c1
    c2 = c2
    o1 = o1
    Tasks = {t1, t2}
    InClients = {c1}
    OutClients = {o1}
    Nobody = Nobody
    Main = Main
    Sdr = TRUE
    Alloc = 2
    MaxSent = 4
    MaxRead = 2
    MaxRounds = 1
SPECIFICATION FairSpec
\* Main stops after MaxRounds
CHECK_DEADLOCK FALSE
INVARIANTS
    EveryMessageOnce
    InputExclusive
PROPERTIES
    PoolRunReturnsUnlocked
