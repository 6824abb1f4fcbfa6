----------------------------- MODULE Processes -----------------------------
(***************************************************************************)
(* What the library in the profiled processes and the worker of ddprof     *)
(* talk about: processes, and addresses of blocks of their memory.         *)
(***************************************************************************)
EXTENDS FiniteSets

CONSTANTS
  Pids,           \* process identifiers
  Addrs,          \* addresses of blocks
  Null            \* the null address, "not to be accounted for"

ASSUME ProcessesAssumption == IsFiniteSet(Addrs) /\ Null \notin Addrs
=============================================================================
