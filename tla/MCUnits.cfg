CONSTANTS
  Jobs <- MCJobs
  IncludeDirs <- MCIncludeDirs
  Legal <- MCLegal
  Gen <- MCGen
  Numbered <- MCNumbered
  Spelled <- MCSpelled
  None = none
  HeapSize = 10
  MaxLoads = 2
SPECIFICATION Spec
CHECK_DEADLOCK FALSE
INVARIANTS TypeOK HeadersOnce ScopesBind NamesUnique StaticsRead
PROPERTIES VerifiedCompiles Boots
