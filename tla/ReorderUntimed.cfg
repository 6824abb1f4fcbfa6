SPECIFICATION ReorderSpec
CONSTANTS
  Setups <- UntimedSetup
  Latency = 1
  MayStop = FALSE
  MaxEvents = 2
  MaxTime = 4
INVARIANT EventWrapperValid
CHECK_DEADLOCK FALSE
