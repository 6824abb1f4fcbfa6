SPECIFICATION SetupSpec
CONSTANTS
  CommandLines <- MCCommandLines
  num_cpu = 2
  Tids = {t2}
  k_max_nb_perf_event_open = 4
  Addresses = {1, 2, 3, 4, 5}
INVARIANTS WatchersUsable WorkerReadsItsBuffers NothingLeft
CHECK_DEADLOCK FALSE
