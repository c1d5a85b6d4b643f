CONSTANTS
  Workers = {a}
  Elsewhere = Elsewhere
  None = None
  MaxErrors = 2
  MaxRuns = 1
  MaxLeases = 1
SPECIFICATION Spec
INVARIANT
  PoolStopsLast
