SPECIFICATION Spec
CONSTANTS
  NoOne = NoOne
  Recipients = {r1,r2}
  Waves = {w1,w2}
  HeldWaves = {w2}
  LegacyDeferred = {}
  Late = {r2}
  EarlyWave = w1
  LateWave = w2
  Spare = 0
  WaveOf <- MCWaveOf
  Reserved <- MCReserved
  MaxAttempts = 1
  MaxCrashes = 0
  MaxRaises = 1
  MaxOperator = 1
INVARIANTS TerminalRunIsQuiet CompletedWaveIsQuiet TerminalRunHoldsNoCapacity
CHECK_DEADLOCK FALSE
