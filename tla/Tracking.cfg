SPECIFICATION Spec
CONSTANTS
  Mixes <- MCMixes
  NLBounds <- MCNLBounds
  MaxMessages = 4
  JsonReliable = 1
  PositionPersistence = 1
CHECK_DEADLOCK FALSE
INVARIANTS
    TruePositions
PROPERTIES
    RejectedLeavesNoTrace
    NoUnearnedJump
    BetterSourceKept
