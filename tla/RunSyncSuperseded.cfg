SPECIFICATION SpecSync
CONSTANTS
  Nodes = {n1}
  NoNode = NoNode
  MaxRuns = 3
  MaxEpoch = 3
  MaxSends = 3
  MaxConns = 1
  MaxTimeouts = 0
PROPERTY
  SupersededIsDropped
CHECK_DEADLOCK FALSE
