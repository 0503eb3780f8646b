CONSTANTS
  Width = 2
  DivMod = 16
  SlowHalf = 8
  FastHalf = 4
  QueueCap = 1
  EdgeCap = 5
SPECIFICATION Spec
INVARIANTS
  EveryEdgeCounts
PROPERTIES
  InterruptMeansDone
  ReceivedByte
