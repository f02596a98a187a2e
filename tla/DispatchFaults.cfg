SPECIFICATION Spec
CONSTANTS
  NoOne = NoOne
  Recipients = {r1}
  Waves = {w1}
  HeldWaves = {w1}
  LegacyDeferred = {}
  Late = {}
  EarlyWave = w1
  LateWave = w1
  Spare = 1
  WaveOf <- MCWaveOf
  Reserved <- MCReserved
  MaxAttempts = 2
  MaxCrashes = 1
  MaxRaises = 1
  MaxOperator = 2
INVARIANTS TypeOK SubmissionInv AtMostOneSubmission SuccessIsAccounted CapacityConsumedOnce
PROPERTIES SubmitsOnlyWhileLive IntentOwnsAttention ImplementsContract
CHECK_DEADLOCK FALSE
