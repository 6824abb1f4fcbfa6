CONSTANTS
  a = a
  b = b
  c = c
  f = f
  g = g
  Anon = Anon
  JitDump = JitDump
  Files <- MCFiles
  Pids = {p1, p2}
  First = p1
  Loaded <- MCLoaded
  Exes <- MCExes
  Candidates <- MCCandidates
  JitRecords <- MCJitRecords
  Walks <- MCWalks
  Inlined <- MCInlined
  Unnamed = {b}
  Roots = {a}
  Local = {a}
  Broken = {c}
  FileSize <- MCFileSize
  kMaxStackDepth = 5
  maximum_pids = 1
  k_nb_requests_between_backpopulates = 1
  k_nb_bin_lookups = 2
  MaxTime = 4
  MaxPending = 2
  MaxCycles = 1
SYMMETRY Symmetry
SPECIFICATION Spec
INVARIANT BaseFrameLast
INVARIANT NamesCurrent
INVARIANT AddressesCurrent
INVARIANT HealsAfterOne
CHECK_DEADLOCK FALSE
