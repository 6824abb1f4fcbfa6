SPECIFICATION MCSpec
CONSTANTS
  w1 = w1
  Writers = {w1, w2}
  Mortal = {}
  Size = 8
  HighPriorityArea = 2
  Requests <- MixedRequests
  MaxPushes = 3
  MaxUnorderedPushes = 3
  MaxTime = 1
  Reorder = TRUE
  MayStop = TRUE
  None = None
INVARIANTS EventsIntact ExactlyOnce UnorderedWoken
PROPERTIES ImplementsChannel EventuallyDrained WritersReturn
CHECK_DEADLOCK FALSE
