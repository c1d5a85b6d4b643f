CONSTANTS
  N = 3
  MaxRuns = 1
  MinLimit = 1
  MaxLimit = 1
  Configs <- ArrowConfigs
SPECIFICATION LanesSpec
INVARIANT
  CheckpointCovers
