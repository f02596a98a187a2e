SPECIFICATION Spec
CONSTANTS
  e1 = e1
  e2 = e2
  e3 = e3
  Events <- MCEvents
  InlineEvents <- MCInline
  Poison <- MCPoison
  BatchSize = 2
  Lookback = 1
  MaxTime = 3
  MaxFaults = 1
PROPERTY FailuresAreRetried
CHECK_DEADLOCK FALSE
