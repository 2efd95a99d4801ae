CONSTANTS
  r1 = r1
  r2 = r2
  id1 = id1
  id2 = id2
  b1 = b1
  Main = Main
  NoId = NoId
  Runs = {r1, r2}
  Ids = {id1, id2}
  Builders = {b1}
  Early <- MCFew
  Late = {}
  Labels <- MCLabels
  Of <- MCOf
  Start <- MCStart
  MaxCalls = 1
  MaxLate = 0
  LateWhile <- MCLateWhile
  MaxUint64 = 9
  MaxInt32 = 9
  Request <- MCRequest
  Plans <- MCPlans
  Stoppers = {r1, r2}
  MayClose = TRUE
  Garbled = FALSE
SPECIFICATION BuiltSpec
INVARIANT OnlyConduitErrors
CHECK_DEADLOCK FALSE
