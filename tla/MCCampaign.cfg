CONSTANTS
  Required <- MCRequired
  Blocks <- MCBlocks
  MinimumBlocks <- MCMinimumBlocks
  MaximumCount <- MCMaximumCount
  MaxSessions <- MCMaxSessions
SPECIFICATION Spec
INVARIANT EvidenceIsRetained
INVARIANT ComparableIsOneSession
CHECK_DEADLOCK FALSE
