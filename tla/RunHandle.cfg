CONSTANTS
  w1 = w1
  w2 = w2
  Waiters = {w1, w2}
  Timeout <- MCTimeout
  PollInterval = 1
  RpcTimeout = 2
  Statuses = {"running", "degraded", "recovering", "unnamed", "gone"}
  LatestStart = 0
SPECIFICATION Spec
INVARIANTS TypeOK ReportIsFresh TimeoutIsHonest BoundedWait
PROPERTIES WaitEnds
CHECK_DEADLOCK FALSE
