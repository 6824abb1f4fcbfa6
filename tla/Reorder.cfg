SPECIFICATION FairReorder
CONSTANTS
  Setups <- AllSetups
  Latency = 1
  MayStop = TRUE
  MaxEvents = 2
  MaxTime = 3
INVARIANTS InOrder ExactlyOnce DrainComplete
PROPERTY EventuallyProcessed
CHECK_DEADLOCK FALSE
