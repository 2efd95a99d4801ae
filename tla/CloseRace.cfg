CONSTANTS
  t1 = t1
  t2 = t2
  t3 = t3
  Main = t1
  Threads = {t1, t2, t3}
SPECIFICATION Spec
INVARIANTS AllReturnedMeansReleased ExitStopsEngine
PROPERTIES ClosesEnd CloseEndsEngine
CHECK_DEADLOCK FALSE
