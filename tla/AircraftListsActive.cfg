CONSTANTS
    a1 = a1
    a2 = a2
    t1 = t1
    t2 = t2
    r1 = r1
    Aircraft = {a1, a2}
    Tiles = {t1, t2}
    Flights <- TwoOrLocated
    NoTile = NoTile
    Active = Active
    Readers = {r1}
    ScannedList <- ScanActive
    Decode = Decode
    Upkeep = Upkeep
    Nobody = Nobody
    None = None
    Garbage = Garbage
    AllocStep = 1
    StoresReordered = TRUE
SPECIFICATION FairSpec
INVARIANTS
    ListsComplete
PROPERTIES
    ReadersSafe
    StopTheWorldReturns
