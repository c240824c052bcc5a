CONSTANTS
  DataStart = 4
  HeapMax = 12
  SizeMod = 16
  Sizes <- MCSizes
  Data <- MCData
SPECIFICATION Spec
INVARIANTS TypeOK HeapWhole PayloadFits FreeAsserts
PROPERTIES FailsWhenFull CallsReturn ImplementsHeap
