SPECIFICATION FairSpec
CONSTANTS
  WorkerPeriod = 4
  MaxErrorsAllowed = 1
  MayFail = TRUE
  MayCrash = TRUE
  CreateMayFail = TRUE
  MaxSamples = 2
  MaxCycles = 5
INVARIANTS ExportsTheOtherProfile SentExactlyOnce SequenceIncreases
PROPERTY EventuallySent
CHECK_DEADLOCK FALSE
