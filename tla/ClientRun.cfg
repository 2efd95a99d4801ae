CONSTANTS
  r1 = r1
  r2 = r2
  id1 = id1
  id2 = id2
  b1 = b1
  Main = Main
  NoId = NoId
  Runs = {r1, r2}
  Ids = {id1, id2}
  Builders = {b1}
  Early <- MCEarly
  Late <- MCLate
  Labels <- MCLabels
  Of <- MCOf
  Start <- MCStart
  MaxCalls = 2
  MaxLate = 1
  LateWhile <- MCLateWhile
  MaxUint64 = 9
  MaxInt32 = 9
  Request <- MCRequest
  Plans <- MCPlans
  Stoppers = {r1}
  MayClose = TRUE
  Garbled = TRUE
SPECIFICATION BuiltSpec
INVARIANTS TypeOK AppliedInOrder ReturnedMeansComplete ErrorNamesPipeline StopReachesItsRun
INVARIANTS SubmittedAsDeclared WindowOnlyOffIfAsked
PROPERTIES ImplementsSubmission CallsEnd
CHECK_DEADLOCK FALSE
