SPECIFICATION Spec
CONSTANTS
  MaxId = 3
  MaxNodes = 2
  Vals = {1, 2}
  NewVal = 1
  Stamps = {1, 2, 3, 4, 5, 6, 7, 8}
  Limit = 2
  Files = {}
  MaxWrites = 3
PROPERTIES
  DragIsOneEntry
CHECK_DEADLOCK FALSE
