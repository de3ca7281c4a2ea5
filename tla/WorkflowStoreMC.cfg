SPECIFICATION Spec
CONSTANTS
  MaxId = 5
  MaxNodes = 2
  Vals = {1, 2}
  NewVal = 1
  Stamps = {1, 2, 3, 4, 5, 6, 7, 8, 9, 10}
  Limit = 2
  Files <- SavedFiles
  MaxWrites = 3
INVARIANTS
  CacheAgrees
  IdsAreFresh
  NoDanglingEdge
PROPERTIES
  ImplementsHistory
CHECK_DEADLOCK FALSE
VIEW UpToStamps
