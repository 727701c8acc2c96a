CONSTANTS
  DtTotal <- MCDtTotal
  OneSecond <- MCOneSecond
  MaxSteps <- MCMaxSteps
  AcceptFactors <- MCAcceptFactors
  RejectFactors <- MCRejectFactors
  MaxRuns <- MCMaxRuns
SPECIFICATION Spec
INVARIANT TypeOK
INVARIANT BufferIsTrajectory
INVARIANT SweepsReplayTrajectory
INVARIANT OverflowLeavesOneStepUnrecorded
PROPERTY ForwardReturns
CHECK_DEADLOCK FALSE
