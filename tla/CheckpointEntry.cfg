CONSTANTS
  DtTotal <- MCDtTotal
  OneSecond <- MCOneSecond
  MaxSteps <- MCMaxSteps
  AcceptFactors <- MCAcceptFactors
  RejectFactors <- MCRejectFactors
  MaxRuns <- MCMaxRuns
SPECIFICATION Spec
INVARIANT StateSavedAtStepEntry
CHECK_DEADLOCK FALSE
