CONSTANTS
  MaxDetails = 3
SPECIFICATION Spec
INVARIANTS TypeOK AlwaysActionable ReasonIsConduits UnreachableToldApart
CHECK_DEADLOCK FALSE
