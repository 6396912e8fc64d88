SPECIFICATION Spec
CONSTANTS
  UnitsPerKey = 1
  Designs <- MCDesigns
  Problem <- MCProblem
  Delay <- MCDelay
  Branch <- MCBranch
  Path <- MCPath
  Start <- MCStart
  Lower <- MCLower
  Upper <- MCUpper
  Evaluate <- MCEvaluate
  Correction <- MCCorrection
  Gain = 2
  EpsPerUnit = 4
  TimeLimit = 1
  MaxIterations = 6
INVARIANT TypeOK
PROPERTY HandsBackTheBest
PROPERTY SetupStepRepairs
