SPECIFICATION Spec
CONSTANTS
  Sockets = {s1, s2, s3}
  NoSocket = NoSocket
  MaxCalls = 0
  MaxFlips = 1
  MaxSessions = 2
  AttemptCap = 1
INVARIANTS
  FreshIsNoReconnect
CHECK_DEADLOCK FALSE
