SPECIFICATION Spec
CONSTANTS
  MaxLen = 1
  DstBlocks = 2
  CopyCycles = 1
  LineDots = 40
  Flips = {8, 11}
  MaxOps = 1
  MaxShift = 3
INVARIANTS
  ActiveMeansArmed
  LengthIsWhatIsOwed
  OneBlockPerHBlank
  SleepDefers
