CONSTANTS
  h1 = h1
  h2 = h2
  e1 = e1
  e2 = e2
  NoEngine = NoEngine
  NoHost = NoHost
  NoAddr = NoAddr
  p1 = p1
  p2 = p2
  p3 = p3
  p4 = p4
  Hosts = {h1}
  Engines = {e1, e2}
  Ports = {p1, p2, p3, p4}
  InterruptAt = {"poll", "probe"}
  HostsMayDie = FALSE
  KernelMayStall = FALSE
SPECIFICATION Spec
INVARIANTS TypeOK NoAbandonedEngine HostExitLeavesNothing ReleasedMeansReleased
PROPERTIES GraceBeforeKill ReadyIsOwnEngine StartupEnds StopCompletes
CHECK_DEADLOCK FALSE
