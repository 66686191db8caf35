SPECIFICATION Spec
CONSTANTS
    ShowOnly <- MCShowOnly
    Receivers <- MCReceivers
    Air <- MCAir
    Hash <- MCHash
    MinBits = 1
    MaxBits = 2
    GrowPart = 3
    ShrinkPart = 4
    MaxPhases = 2
INVARIANTS
    NothingInvented
    CleanCopyWins
PROPERTIES
    ImplementsMemory
