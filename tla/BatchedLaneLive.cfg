CONSTANTS
  N = 3
  MaxRuns = 1
  Configs <- LiveConfigs
SPECIFICATION FairSpec
INVARIANTS
  QueueBounded
PROPERTIES
  QueuedIsFlushed
  RunEnds
