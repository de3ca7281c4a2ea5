SPECIFICATION Spec
CONSTANTS
  Sockets = {s1, s2, s3}
  NoSocket = NoSocket
  MaxCalls = 2
  MaxFlips = 2
  MaxSessions = 2
  AttemptCap = 1
INVARIANTS
  IInv
  OneConnection
PROPERTIES
  KeepsPromise
  ComesBack
  EveryCallSettles
CHECK_DEADLOCK FALSE
