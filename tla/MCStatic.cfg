CONSTANTS
  A = A
  B = B
  C = C
  E = E
  Labels = {A, B, C, E}
  Programs <- StaticPrograms
  Width = 2
  MaxFrames = 4
SPECIFICATION Spec
INVARIANT NoDanglingLabel
CHECK_DEADLOCK FALSE
