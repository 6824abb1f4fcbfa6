SPECIFICATION Spec
CONSTANTS
  Apps = {program, child}
  Clients = {program, child}
  MayFail = TRUE
  ForkMayFail = TRUE
  kMaxConn = 1
  Modes = {"wrapper", "wrapper_alloc", "library", "pid"}
  MaxStarts = 2
  MaxWorkers = 2
INVARIANTS LoadsWholeLibrary ReadyBeforeProgram
PROPERTIES StartReturns ServerStops
CHECK_DEADLOCK FALSE
