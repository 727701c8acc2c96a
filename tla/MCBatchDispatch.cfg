CONSTANTS
  model = model
  chemistry = chemistry
  nobody = nobody
  Callers <- MCCallers
  NoCaller <- MCNoCaller
  Batches <- MCBatches
  Faults <- MCFaults
  Extents <- MCExtents
  Capacity <- MCCapacity
  Slots <- MCSlots
SPECIFICATION Spec
INVARIANT TypeOK
INVARIANT EachCellOnce
INVARIANT ReportIsComplete
INVARIANT ForcingStaysAlive
