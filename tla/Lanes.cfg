CONSTANTS
  N = 3
  MaxRuns = 2
  MinLimit = 1
  MaxLimit = 2
  Configs <- LaneConfigs
SPECIFICATION LanesSpec
INVARIANTS
  CompletedRunHandledAll
  StageInOrder
  Bookkeeping
PROPERTIES
  KeepsContract
