SPECIFICATION Spec
CONSTANTS
  SFour = 2
  MinCurrent = 2
  Reserve = 2
  ChunkPoints = 6
  BigChunk = 4
  ChunkDuration = 4
  Keep = 6
  Inactive = 3
  Stale = 1
  MaxElapsed = 2
  BufferLong = 1
  Gaps = {4}
  Budgets <- MCBudgets
INVARIANTS
  TraceConsistent
PROPERTIES
  ImplementsLog
CHECK_DEADLOCK FALSE
