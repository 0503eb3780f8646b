SPECIFICATION Spec
CONSTANTS
  FlashSize = 8
  SectorSize = 4
  PageLen = 2
  Unlock1 = 1
  Unlock2 = 2
  ProgramCycles = 1
  EraseCycles = 2
  ChipEraseCycles = 3
  CyclesPerSecond = 2
  Limit <- MCLimit
  Width <- MCWidth
  DayLow = 2
  Addrs = {1, 2, 5}
  Chunks = {1, 3}
INVARIANTS
  ClockKeepsTime
PROPERTIES
  NothingErasedUnasked
  ProgramsWhatWasLoaded
