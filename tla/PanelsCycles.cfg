SPECIFICATION Spec
CONSTANTS
  Models = {q1, q2}
  Layers = {l1}
  MaxSeq = 4
  ConfigNodes = {m1, m2}
  NotSelected = ns
  MaxKeys = 2
  MaxDialogs = 1
  Files = {f1, f2}
  NoFile = nf
  MaxEffects = 3
  MaxRuns = 2
  MaxOutages = 1
  MaxServers = 3
  CanvasNodes = {m1, m2}
  MaxEdges = 1
  StyledIds = {"node-1", "node-2"}
  StyledTypes <- MCStyledTypes
  NoneSelected = "none"
  GraphNodes = {1, 2, 3}
  EdgeSpace <- MCEdges
  NoEdge = none
SYMMETRY FilesSymmetry
CHECK_DEADLOCK FALSE
INVARIANT
  UnmarkedLieOnNone
