CONSTANTS
  A = A
  B = B
  C = C
  E = E
  Labels = {A, B, C, E}
  Programs <- TrailingPrograms
  Width = 2
  MaxFrames = 4
SPECIFICATION Spec
INVARIANT EntriesReturn
CHECK_DEADLOCK FALSE
