CONSTANTS
  h1 = h1
  h2 = h2
  e1 = e1
  e2 = e2
  NoEngine = NoEngine
  NoHost = NoHost
  NoAddr = NoAddr
  p1 = p1
  p2 = p2
  p3 = p3
  p4 = p4
  Hosts = {h1, h2}
  Engines = {e1, e2}
  Ports = {p1, p2, p3}
  InterruptAt = {}
  HostsMayDie = FALSE
  KernelMayStall = FALSE
SPECIFICATION Spec
PROPERTY ReadyIsOwnEngine
CHECK_DEADLOCK FALSE
