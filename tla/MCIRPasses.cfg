CONSTANTS
  Modulus = 4
  Fuel = 60
  MaxRounds = 8
  Forwarding = FALSE
  Addends = {1, 2}
  LabelNames <- MCLabelNames
  Jobs <- MCJobs
  Inputs <- MCInputs
  Memory <- MCMemory
SPECIFICATION Spec
CHECK_DEADLOCK FALSE
INVARIANTS
  TypeOK
  MeaningKept
  ObfuscationKept
  Resolves
  Settled
  JumpsAsWritten
