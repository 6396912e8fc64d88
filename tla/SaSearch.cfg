SPECIFICATION Spec
CONSTANTS
  UnitsPerKey = 1
  Branch <- MCBranch
  Path <- MCPath
  Delay <- MCDelay
  OptSS <- MCOptSS
  OptFF <- MCOptFF
  Launch <- MCLaunch
  Capture <- MCCapture
  EvalState <- MCEvalState
  InitAssignments <- MCWithinBounds
  Design <- BothWays
  NoImproveLimit = 3
  BranchNoImproveLimit = 2
  TopPathPoolInit = 1
  TopPathPoolGrowEvery = 3
  TopPathPoolGrowStep = 1
  SetupTnsOnlyIters = 3
  TimeLimit = 1
  MaxIterations = 9
INVARIANT TypeOK
INVARIANT ContextFresh
INVARIANT IncumbentDominates
INVARIANT SetupIncumbentExact
INVARIANT StallWindowWithinPhase
INVARIANT PoolFollowsIterations
INVARIANT PlainResultMeansConverged
PROPERTY HandsBackTheBest
PROPERTY SetupRepairOneWay
PROPERTY BlacklistIsPermanent
