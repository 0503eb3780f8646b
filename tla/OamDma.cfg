SPECIFICATION OamSpec
CONSTANTS
  OamBytes = 5
  Pages = {p1, p2}
  Other = other
CHECK_DEADLOCK FALSE
INVARIANTS
  OnSchedule
  CopiedIsInOam
  NeverTorn
