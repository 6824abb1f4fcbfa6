CONSTANTS
  Threads = {t1, t2}
  NoThread = NoThread
  Libs = {Exe, Self, l1, l2}
  Exe = Exe
  Lazy = {l2}
  Excluded = {Self}
  Bases = {1, 2}
  MayFail = TRUE
  Periodic = TRUE
  MaxCalls = 5
SPECIFICATION Spec
INVARIANTS StoppedUnhooked BuffersOutliveStop
PROPERTY CallsReturn
CHECK_DEADLOCK FALSE
