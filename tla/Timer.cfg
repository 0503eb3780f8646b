CONSTANTS
  DivMod = 128
  TimaMod = 4
  HalfPeriod <- MCHalfPeriod
  InitialDiv <- MCInitialDiv
SPECIFICATION FairSpec
INVARIANTS
  TimerInterruptIsLate
  StopClocksOnce
PROPERTIES
  TimaRefinement
  RunningTimerInterrupts
