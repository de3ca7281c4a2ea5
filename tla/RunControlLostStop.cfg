SPECIFICATION Spec
CONSTANTS
  Nodes = {n1, n2}
  NoNode = NoNode
  MaxRuns = 1
  MaxEpoch = 1
INVARIANTS
  CancelIsObserved
CHECK_DEADLOCK FALSE
