SPECIFICATION Spec
CONSTANTS
  Design <- MCUnevenDesign
  UnitsPerKey = 2
  MaxDelayKey = 3
  Table <- MCTable
  Timing <- MCTiming
  Vectors <- MCVectors
  TotalLimit = 3
  LpInitLimit = 1
  SaPhaseLimit = 1
  LongestStretch = 1
INVARIANT SearchSeesBaseline
