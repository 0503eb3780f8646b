SPECIFICATION Spec
CHECK_DEADLOCK FALSE
CONSTANTS
  MaxSockets = 2
  InCap = 1
  OutBound = 2
INVARIANTS
  NoThreadOutlivesItsSocket
  ReapsOnlyTheDead
PROPERTIES
  DropEnds
  DeadIsReaped
