SPECIFICATION Spec
CONSTANTS
  NoOne = NoOne
  Recipients = {r1}
  Waves = {w1}
  HeldWaves = {}
  LegacyDeferred = {}
  Late = {}
  EarlyWave = w1
  LateWave = w1
  Spare = 0
  WaveOf <- MCWaveOf
  Reserved <- MCReserved
  MaxAttempts = 1
  MaxCrashes = 1
  MaxRaises = 0
  MaxOperator = 0
PROPERTY SuccessSurvivesRestart
CHECK_DEADLOCK FALSE
