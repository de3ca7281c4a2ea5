SPECIFICATION Spec
CONSTANTS
  Nodes = {1, 2, 3}
  KindsOf <- AnyKind
  MaxEdges = 3
  Graphs <- Family
  MaxRuns = 1
INVARIANTS
  SkipIffUnreachable
  VerdictStands
  SkipReasonIsRight
  IInv
CHECK_DEADLOCK FALSE
