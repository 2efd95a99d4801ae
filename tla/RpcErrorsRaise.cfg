CONSTANTS
  MaxDetails = 1
SPECIFICATION Spec
INVARIANT NeverRaises
CHECK_DEADLOCK FALSE
