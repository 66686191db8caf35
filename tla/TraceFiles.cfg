SPECIFICATION FairSpec
CONSTANTS
  Aircraft = {1, 2}
  Chains <- MCChains
  TaskCount = 1
  Invocations = 2
  Alloted = 1
  RecentPoints = 4
  Day = 12
  Trigger = 2
  Close = 9
  Hour = 10
  Spread = {0, 1}
  PermIvals = {5, 25}
  Followed = {1, 2}
  Mixes <- MCMixes
INVARIANTS
  FilesComplete
PROPERTIES
  EveryPositionShown
