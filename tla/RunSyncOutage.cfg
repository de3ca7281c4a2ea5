SPECIFICATION SpecSync
CONSTANTS
  Nodes = {n1}
  NoNode = NoNode
  MaxRuns = 2
  MaxEpoch = 2
  MaxSends = 2
  MaxConns = 2
  MaxTimeouts = 0
INVARIANTS
  IdleIsShown
CHECK_DEADLOCK FALSE
