--------------------------- MODULE LiveAllocation ---------------------------
(***************************************************************************)
(* The worker's record of the allocations of the profiled processes that   *)
(* are still live, and of the processes it knows.  An allocation sample    *)
(* registers its address under the stack that allocated it, a deallocation *)
(* event takes it back, and a process that sent nothing for a whole upload *)
(* period, or that is replaced, is forgotten with all its allocations.     *)
(***************************************************************************)
EXTENDS Processes, Integers

CONSTANTS
  Stacks,         \* unwound stacks with at least one frame
  NoStack,        \* an unwound stack without frames
  Values          \* sizes a sample may stand for

\* A sample stands for at least one byte: a multiple of the sampling interval.
ASSUME LiveAssumption ==
  /\ NoStack \notin Stacks
  /\ Values \subseteq Nat \ {0}

VARIABLES
  live,           \* PidStacks of every process (_watcher_vector)
  process_map,    \* processes with a Process object
  visited         \* processes seen since the last cycle (_visited_pid)

liveVars == <<live, process_map, visited>>

(***************************************************************************)
(* A PidStacks.  _address_map gives every registered address its value and *)
(* its entry in _unique_stacks; an address it does not hold has value 0    *)
(* and NoStack here.  _unique_stacks has the keys `unique_stacks', with    *)
(* the sum of the values and the number of the addresses of each.          *)
(***************************************************************************)
NoAllocations ==
  [value |-> [a \in Addrs |-> 0], unique_stack |-> [a \in Addrs |-> NoStack],
   unique_stacks |-> {},
   sum |-> [s \in Stacks |-> 0], count |-> [s \in Stacks |-> 0]]

\* Mutant of Detach: the stack goes with its last address in any case.
DetachSame(h, address, keep) ==
  LET s == h.unique_stack[address]
      left == IF h.count[s] # 0 THEN h.count[s] - 1 ELSE 0
  IN  [h EXCEPT !.sum[s] = IF left = 0 THEN 0 ELSE @ - h.value[address],
                !.count[s] = left,
                !.unique_stacks = IF left = 0 THEN @ \ {s} ELSE @]

\* Take an address off its stack's sum and count, and drop the stack when
\* that was its last address, unless it is the one to keep.
Detach(h, address, keep) ==
  LET s == h.unique_stack[address]
      left == IF h.count[s] # 0 THEN h.count[s] - 1 ELSE 0
      erase == left = 0 /\ s # keep
  IN  [h EXCEPT !.sum[s] = IF erase THEN 0 ELSE @ - h.value[address],
                !.count[s] = left,
                !.unique_stacks = IF erase THEN @ \ {s} ELSE @]

RegisterDeallocation(h, address) ==
  IF h.unique_stack[address] = NoStack
  THEN h
  ELSE [Detach(h, address, NoStack) EXCEPT !.value[address] = 0,
                                           !.unique_stack[address] = NoStack]

RegisterAllocation(h, uo, address, value) ==
  IF uo = NoStack
  THEN h
  ELSE LET found == [h EXCEPT !.unique_stacks = @ \cup {uo}]
           cleaned == IF h.value[address] # 0 THEN Detach(found, address, uo)
                                              ELSE found
       IN  [cleaned EXCEPT !.value[address] = value,
                           !.unique_stack[address] = uo,
                           !.sum[uo] = @ + value,
                           !.count[uo] = @ + 1]

LiveAddrs(h) == {a \in Addrs : h.unique_stack[a] # NoStack}

-----------------------------------------------------------------------------
LiveInit ==
  /\ live = [p \in Pids |-> NoAllocations]
  /\ process_map = {}
  /\ visited = {}

\* Mutant of worker_pid_free: keeps the allocations.
FreeProcessesOnly(ps, heaps, known) ==
  /\ live' = heaps
  /\ process_map' = known \ ps

\* Report what is still live of some processes and forget them.
worker_pid_free(ps, heaps, known) ==
  /\ live' = [p \in Pids |-> IF p \in ps THEN NoAllocations ELSE heaps[p]]
  /\ process_map' = known \ ps

\* A sample is unwound, which makes its process known and visited; an
\* allocation that the library tracks is registered.  The process is
\* forgotten when its mappings turn out to be inconsistent.
ddprof_pr_sample(p, address, uo, value, inconsistent) ==
  LET heaps == IF address = Null THEN live
               ELSE [live EXCEPT ![p] =
                       RegisterAllocation(@, uo, address, value)]
  IN  /\ visited' = visited \cup {p}
      /\ worker_pid_free(IF inconsistent THEN {p} ELSE {},
                         heaps, process_map \cup {p})

ddprof_pr_deallocation(p, address) ==
  /\ live' = [live EXCEPT ![p] = RegisterDeallocation(@, address)]
  /\ UNCHANGED <<process_map, visited>>

ddprof_pr_mmap(p) ==
  /\ visited' = visited \cup {p}
  /\ UNCHANGED <<live, process_map>>

\* The process runs another program.
ddprof_pr_comm(p) ==
  /\ worker_pid_free({p}, live, process_map)
  /\ UNCHANGED visited

\* p is a new process: whatever is recorded of it belongs to an older one.
ddprof_pr_fork(p) ==
  /\ worker_pid_free({p}, live, process_map)
  /\ visited' = visited \cup {p}

\* The part of an export cycle that concerns processes.
clear_unvisited_pids ==
  /\ worker_pid_free(process_map \ visited, live, process_map)
  /\ visited' = {}

\* The worker process ends and a new one is started.
WorkerRestart ==
  /\ live' = [p \in Pids |-> NoAllocations]
  /\ process_map' = {}
  /\ visited' = {}

LiveNext ==
  \/ \E p \in Pids, a \in Addrs \cup {Null}, uo \in Stacks \cup {NoStack},
        v \in Values, inconsistent \in BOOLEAN :
       ddprof_pr_sample(p, a, uo, v, inconsistent)
  \/ \E p \in Pids, a \in Addrs : ddprof_pr_deallocation(p, a)
  \/ \E p \in Pids :
       ddprof_pr_mmap(p) \/ ddprof_pr_comm(p) \/ ddprof_pr_fork(p)
  \/ clear_unvisited_pids
  \/ WorkerRestart

LiveSpec == LiveInit /\ [][LiveNext]_liveVars

-----------------------------------------------------------------------------
PidStacks ==
  [value : [Addrs -> Values \cup {0}],
   unique_stack : [Addrs -> Stacks \cup {NoStack}],
   unique_stacks : SUBSET Stacks,
   sum : [Stacks -> Int], count : [Stacks -> Nat]]

LiveTypeOK ==
  /\ live \in [Pids -> PidStacks]
  /\ process_map \subseteq Pids
  /\ visited \subseteq Pids

AddrsOf(h, s) == {a \in Addrs : h.unique_stack[a] = s}

\* The pointers of the address map never dangle, whatever the order of
\* allocations, deallocations and lost events: the stack an address points to
\* is in the table, a stack is in the table exactly as long as an address
\* points to it, and its count is the number of those addresses.  (The count
\* is a guard against erasing a stack under another address.)
StacksCounted ==
  \A p \in Pids :
    /\ \A a \in Addrs : live[p].value[a] = 0 <=>
                          live[p].unique_stack[a] = NoStack
    /\ \A s \in Stacks :
         /\ live[p].count[s] = Cardinality(AddrsOf(live[p], s))
         /\ s \in live[p].unique_stacks <=> AddrsOf(live[p], s) # {}

\* Live allocations belong to known processes: only those are looked at when
\* a cycle forgets the silent ones, so the record of any other would stay.
LiveProcessKnown ==
  \A p \in Pids : LiveAddrs(live[p]) # {} => p \in process_map

=============================================================================
