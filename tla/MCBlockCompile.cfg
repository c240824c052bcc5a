CONSTANTS
  A = A
  B = B
  C = C
  E = E
  Labels = {A, B, C, E}
  Programs <- MCPrograms
  Width = 2
  MaxFrames = 4
SPECIFICATION Spec
INVARIANTS TypeOK NeverZero EnteredIsEmitted
PROPERTY ImplementsIR
CHECK_DEADLOCK FALSE
