SPECIFICATION FairSpec
CONSTANTS
  NoOne = NoOne
  Recipients = {r1}
  Waves = {w1}
  HeldWaves = {}
  LegacyDeferred = {r1}
  Late = {}
  EarlyWave = w1
  LateWave = w1
  Spare = 0
  WaveOf <- MCWaveOf
  Reserved <- MCReserved
  MaxAttempts = 1
  MaxCrashes = 1
  MaxRaises = 1
  MaxOperator = 1
PROPERTIES ExpiringRecipientEnds QuiescentRunFinishes
CHECK_DEADLOCK FALSE
