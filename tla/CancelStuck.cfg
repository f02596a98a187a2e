SPECIFICATION FairSpec
CONSTANTS
  NoOne = NoOne
  Recipients = {r1}
  Waves = {w1}
  HeldWaves = {}
  LegacyDeferred = {}
  Late = {}
  EarlyWave = w1
  LateWave = w1
  Spare = 0
  WaveOf <- MCWaveOf
  Reserved <- MCReserved
  MaxAttempts = 1
  MaxCrashes = 0
  MaxRaises = 0
  MaxOperator = 1
PROPERTY CanceledRunReleases
CHECK_DEADLOCK FALSE
