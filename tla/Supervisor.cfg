SPECIFICATION FairSupervisor
CONSTANTS
  WorkerPeriod = 2
  WorkerMayFail = TRUE
  MayCrash = TRUE
  SpawnMayFail = TRUE
  MaxForks = 3
  MaxSignals = 2
INVARIANTS SingleWorker RespawnsAreSpaced
PROPERTY TerminationCompletes
CHECK_DEADLOCK FALSE
