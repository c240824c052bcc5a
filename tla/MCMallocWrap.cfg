CONSTANTS
  DataStart = 4
  HeapMax = 12
  SizeMod = 16
  Sizes <- MCWrapSizes
  Data <- MCData
SPECIFICATION Spec
INVARIANT PayloadFits
