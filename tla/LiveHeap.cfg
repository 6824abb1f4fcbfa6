SPECIFICATION Spec
CONSTANTS
  t1 = t1
  t2 = t2
  t3 = t3
  p1 = p1
  s1 = s1
  Pids = {p1, p2}
  Root = p1
  Threads <- MCThreads
  First <- MCFirst
  None = None
  Addrs = {a1}
  Null = Null
  Stacks = {s1}
  NoStack = NoStack
  Values = {1}
  Samples <- MCSamples
  k_max_consecutive_failures = 2
  RingSize = 2
  HighPriority = 1
  MayTimeout = TRUE
  MayFailNotify = TRUE
  MayFill = TRUE
  ForkWindow = TRUE
  MaxCalls = 3
INVARIANTS NoPhantom NoneMissing StacksCounted LiveProcessKnown
SYMMETRY MCSymmetry
