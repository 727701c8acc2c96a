CONSTANTS
  P <- MCP
  Species <- MCSpecies
  Stages <- MCStages
  Gamma <- MCGamma
  A <- MCA
  C <- MCC
  M <- MCM
  Probes <- MCProbes
  Orders <- MCOrders
SPECIFICATION Spec
INVARIANT AdjointIdentity
CHECK_DEADLOCK FALSE
