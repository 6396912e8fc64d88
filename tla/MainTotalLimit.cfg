SPECIFICATION Spec
CONSTANTS
  Design <- MCEvenDesign
  UnitsPerKey = 2
  MaxDelayKey = 3
  Table <- MCTable
  Timing <- MCTiming
  Vectors <- MCVectors
  TotalLimit = 2
  LpInitLimit = 1
  SaPhaseLimit = 3
  LongestStretch = 3
INVARIANT SearchHeedsTotalLimit
