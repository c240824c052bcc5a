CONSTANTS
  Names <- MCNames
  Effects <- MCEffects
  Conditions <- MCConditions
  Depth = 6
  Programs <- MCPrograms
  Stdlib <- MCStdlib
  InitVm = "init"
  StaticData = "data"
  Generated <- MCGenerated
  Helpers <- MCHelpers
  NoName = ""
SPECIFICATION Spec
CHECK_DEADLOCK FALSE
INVARIANTS TypeOK MeaningKept LoadRunsProgram Resolves AllWritten
PROPERTY Finished
