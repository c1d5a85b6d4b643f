CONSTANTS
  N = 3
  MaxRuns = 2
  Configs <- MCConfigs
SPECIFICATION Spec
INVARIANTS
  TypeOK
  CheckpointCovers
  CompletedRunHandledAll
  AckedIsAccountedFor
  ReplayWindow
PROPERTIES
  CheckpointMonotone
  KeepsContract
