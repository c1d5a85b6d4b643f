CONSTANTS
  Workers = {a}
  Elsewhere = Elsewhere
  None = None
  MaxErrors = 2
  MaxRuns = 2
  MaxLeases = 2
  Chain = 2
  MaxCancels = 2
  MaxRecords = 4
  MaxLimit = 2
  Batches = 3
  InFlight = 2
SPECIFICATION RuntimeSpec
INVARIANTS
  LateWritesBounded
  RunsTakeTurns
  AllReleasedOnce
  OutcomeIsTrue
  StreamIsFaithful
  PoolIsCurrent
PROPERTIES
  LeavingEnds
  StopEnds
  LostRunStops
