CONSTANTS
  Objects = {o1, o2, o3}
  Statics = {self}
  Literals = {lit}
  TextOf <- MCTextOf
  Chars = {"a"}
  Breaking = {}
  Nul = "0"
  Null = null
  MaxLen = 1
  MaxArgs = 3
  MaxRefs = 3
  Left = {"clear literal", "float without memory"}
SPECIFICATION Spec
SYMMETRY Symmetry
CHECK_DEADLOCK FALSE
INVARIANTS TypeOK SlotsAccounted SlotsReused RefsAccounted TextKept CacheCurrent LiteralsKept
