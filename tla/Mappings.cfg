CONSTANTS
  a = a
  b = b
  Anon = Anon
  JitDump = JitDump
  Files <- MCFiles
  Pids = {p1, p2}
  First = p1
  Loaded <- MCLoaded
  Candidates <- MCCandidates
  Pages = {1, 3}
  MaxTime = 4
  MaxPending = 2
  Unreliable = TRUE
  k_nb_requests_between_backpopulates = 1
SPECIFICATION Spec
INVARIANTS NoOverlap RightFile ReadRepairs
CHECK_DEADLOCK FALSE
