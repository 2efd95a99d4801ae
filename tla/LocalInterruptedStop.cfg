CONSTANTS
  h1 = h1
  h2 = h2
  e1 = e1
  e2 = e2
  NoEngine = NoEngine
  NoHost = NoHost
  NoAddr = NoAddr
  p1 = p1
  p2 = p2
  p3 = p3
  p4 = p4
  Hosts = {h1}
  Engines = {e1}
  Ports = {p1, p2, p3}
  InterruptAt = {"t_wait"}
  HostsMayDie = FALSE
  KernelMayStall = FALSE
SPECIFICATION Spec
INVARIANT ReleasedMeansReleased
CHECK_DEADLOCK FALSE
