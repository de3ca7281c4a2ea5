SPECIFICATION Spec
CONSTANTS
  Nodes = {1, 2, 3}
  KindsOf <- Join
  MaxEdges = 2
  Graphs <- Family
  MaxRuns = 1
INVARIANTS
  FailureNeverShowsAsMissing
CHECK_DEADLOCK FALSE
