SPECIFICATION Spec
CONSTANTS
  Nodes = {n1, n2}
  NoNode = NoNode
  MaxRuns = 2
  MaxEpoch = 0
INVARIANTS
  JoinNeverStuck
CHECK_DEADLOCK FALSE
