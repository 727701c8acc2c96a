CONSTANTS
  DtTotal <- MCDtTotal
  HMin <- MCHMin
  Times <- MCTimes
  JustPast <- MCJustPast
  Rest <- MCRest
  FirstSteps <- MCFirstSteps
  AcceptFactors <- MCAcceptFactors
  RejectFactors <- MCRejectFactors
  OneSecond <- MCOneSecond
  Species <- MCSpecies
  Orders <- MCOrders
  Tolerance <- MCTolerance
  Magnitudes <- MCMagnitudes
  Threshold <- MCThreshold
  Reads <- MCReads
SPECIFICATION KernelSpec
INVARIANT TypeOK
INVARIANT ReductionTypeOK
INVARIANT FlagsCountRejections
INVARIANT FailedSizeIsNotRetried
INVARIANT IntegrateKeepsFloor
PROPERTY FloorMovesClock
PROPERTY ImplementsOuterStep
PROPERTY NaNStaysPut
PROPERTY UnjudgedCellReturns
PROPERTY EmptyStepNeverReturns
PROPERTY KernelTermination
CHECK_DEADLOCK FALSE
