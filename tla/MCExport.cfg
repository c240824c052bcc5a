CONSTANTS
  Names <- MCNames
  Effects <- MCEffects
  Conditions <- MCConditions
  Depth = 6
  Programs <- MCCallsExport
  Stdlib <- MCStdlib
  InitVm = "init"
  StaticData = "data"
  Generated <- MCGenerated
  Helpers <- MCHelpers
  NoName = ""
SPECIFICATION Spec
CHECK_DEADLOCK FALSE
INVARIANT ExportsKept
