SPECIFICATION Spec
CONSTANTS
  Tap = 2
  FrameSteps = 4
  LengthMax = 2
  VolMax = 2
  CountMod = 3
  Levels <- MCLevels
INVARIANTS
  SequencerFollowsTap
  PlayingHasLength
PROPERTIES
  LengthClockIsAGateEdge
  EnvelopeKeepsPace
