CONSTANTS
  Modulus = 4
  Fuel = 60
  MaxRounds = 8
  Forwarding = TRUE
  Addends = {1, 2}
  LabelNames <- MCLabelNames
  Jobs <- MCJobs
  Inputs <- MCInputs
  Memory <- MCMemory
SPECIFICATION Spec
CHECK_DEADLOCK FALSE
INVARIANT
  ObfuscationKept
