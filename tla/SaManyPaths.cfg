SPECIFICATION FairSpec
CONSTANTS
  UnitsPerKey = 1
  Branch <- MCBranch
  Path <- MCPath
  Delay <- MCDelay
  OptSS <- MCOptSS
  OptFF <- MCOptFF
  Launch <- MCLaunch
  Capture <- MCCapture
  EvalState <- MCEvalState
  InitAssignments <- MCOriginal
  Design <- AllPairs
  NoImproveLimit = 4
  BranchNoImproveLimit = 1
  TopPathPoolInit = 1
  TopPathPoolGrowEvery = 3
  TopPathPoolGrowStep = 1
  SetupTnsOnlyIters = 5
  TimeLimit = 1
  MaxIterations = 9
INVARIANT PoolIsWorst
INVARIANT WindowBackedByAttempts
PROPERTY SetupBestNeverLost
PROPERTY Terminates
