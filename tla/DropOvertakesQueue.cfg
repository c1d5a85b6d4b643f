CONSTANTS
  N = 3
  MaxRuns = 1
  Configs <- DropConfigs
SPECIFICATION Spec
INVARIANT CheckpointCovers
