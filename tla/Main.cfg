SPECIFICATION FairSpec
CONSTANTS
  Design <- MCEvenDesign
  UnitsPerKey = 2
  MaxDelayKey = 3
  Table <- MCTable
  Timing <- MCTiming
  Vectors <- MCVectors
  TotalLimit = 3
  LpInitLimit = 1
  SaPhaseLimit = 2
  LongestStretch = 2
INVARIANTS
  TypeOK
  ReportsMatchStructures
  BaselineIsOriginal
  ResultFromOriginal
  RealisableSolutionsAgree
PROPERTY Exits
