CONSTANTS
  Sources = {1, 2}
  Families = {"dmg", "cgb"}
  MaxLate = 1
SPECIFICATION Spec
INVARIANTS
  DiHolds
  GateFollowsSleep
  HaltEndsPromptly
  OnlyTheClearedIsSquashed
  CancelledOnlyFor
PROPERTIES
  RequestsSurvive
