SPECIFICATION SpecSync
CONSTANTS
  Nodes = {n1, n2}
  NoNode = NoNode
  MaxRuns = 3
  MaxEpoch = 3
  MaxSends = 3
  MaxConns = 1
  MaxTimeouts = 0
SYMMETRY NodeSymmetry
INVARIANTS
  CanvasAgrees
  PausedIsShown
  IdleIsShownOnline
  NothingFreshIsDropped
CHECK_DEADLOCK FALSE
