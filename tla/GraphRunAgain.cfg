SPECIFICATION Spec
CONSTANTS
  Nodes = {1, 2, 3}
  KindsOf <- Chain
  MaxEdges = 2
  Graphs <- Family
  MaxRuns = 2
INVARIANTS
  InputsAreFresh
  NoNetLeaks
CHECK_DEADLOCK FALSE
