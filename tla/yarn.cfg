CONSTANTS
  Jobs = {j1, j2, j3}
  MaxConcurrent = 2
SPECIFICATION FairSpec
CHECK_DEADLOCK FALSE
INVARIANTS IndInv
PROPERTIES CancelledCallReturns CancelledWorkerEnds JobGetsSlot
