CONSTANTS
  N <- MCN
  P <- MCP
  Values <- MCValues
  Executed <- MCExecuted
  Orders <- MCOrders
  Stages <- MCStages
  Gamma <- MCGamma
  A <- MCA
  C <- MCC
  M <- MCM
  StepSizes <- MCStepSizes
SPECIFICATION Spec
INVARIANT TypeOK
INVARIANT ReadsFollowWrites
INVARIANT FillFollowsPaths
INVARIANT FactorsReproduceW
INVARIANT SolvesAreExact
INVARIANT ReducedSolveIsActiveSubsystem
INVARIANT CompactKernelAgrees
INVARIANT EmittedChapmanIsPlanned
INVARIANT IncrementsAreTransposes
CHECK_DEADLOCK FALSE
