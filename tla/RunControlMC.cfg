SPECIFICATION FairSpec
CONSTANTS
  Nodes = {n1, n2}
  NoNode = NoNode
  MaxRuns = 2
  MaxEpoch = 2
INVARIANTS
  EventsCarryTheirRun
  SnapshotIsOfThisRun
  PauseShownIsReal
  IInv
PROPERTIES
  ImplementsService
  ResumeIsNotLost
  OnlyAHoldBlocks
  StopEndsRun
  JoinReturns
CHECK_DEADLOCK FALSE
