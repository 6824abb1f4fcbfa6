------------------------------ MODULE LiveHeap ------------------------------
(***************************************************************************)
(* The live heap of the profiled processes, from the hooks to the worker's *)
(* record: AllocationTracker and LiveAllocation composed through the ring  *)
(* buffer.  The worker also sees samples of other kinds and the kernel's   *)
(* records of forks, which come through other buffers.                     *)
(***************************************************************************)
EXTENDS AllocationTracker, LiveAllocation

ASSUME SamplesAssumption == Samples \subseteq [stack : Stacks \cup {NoStack}, value : Values]

VARIABLES
  announced,      \* processes whose fork record the worker has not seen yet
  unreported,     \* history: addresses whose deallocation was not reported,
                  \* or is not going to be, though the allocation was
  forgotten       \* history: tracked addresses that the worker lost

history == <<unreported, forgotten>>
vars == <<trackerVars, liveVars, announced, history>>

Init ==
  /\ TrackerInit
  /\ LiveInit
  /\ announced = {}
  /\ unreported = [p \in Pids |-> {}]
  /\ forgotten = [p \in Pids |-> {}]

\* Addresses of the events of a process in a part of the ring buffer.
Reported(events, type, p) ==
  {events[i].addr : i \in {j \in 1 .. Len(events) :
                             events[j].type = type /\ events[j].pid = p}}

\* Those of the samples whose stack has no frames.
Frameless(events, p) ==
  {events[i].addr : i \in {j \in 1 .. Len(events) :
                             /\ events[j].type = "sample" /\ events[j].pid = p
                             /\ events[j].sample.stack = NoStack}}

\* Addresses whose allocation is being reported, or taken back, and those
\* whose deallocation is.
BeingAdded(p) ==
  {addr[t] : t \in {u \in Threads : /\ proc[u] = p /\ op[u] = "alloc"
                                    /\ \/ pc[u] = "push_alloc"
                                       \/ pc[u] = "pushed" /\ res[u] # "ok"}}

BeingRemoved(p) ==
  {ptr[t] : t \in {u \in Threads : proc[u] = p /\ pc[u] = "push_dealloc"}}

-----------------------------------------------------------------------------
\* Steps of the hooks, with their history.
Library(A) == A /\ UNCHANGED <<liveVars, announced>>

\* An address that enters the set is about to be reported.
HookAdd(t) ==
  /\ Library(Add(t))
  /\ forgotten' = [forgotten EXCEPT ![proc[t]] =
                     @ \ (tracked'[proc[t]] \ tracked[proc[t]])]
  /\ UNCHANGED unreported

\* dallocx may take out the address that another thread was just given: its
\* own block, freed before, was not in the set.
HookRemove(t) ==
  /\ Library(Remove(t))
  /\ unreported' = [unreported EXCEPT ![proc[t]] =
       @ \cup IF op[t] = "dallocx" /\ pc'[t] = "push_dealloc"
              THEN in_use[proc[t]] \cap {ptr[t]} ELSE {}]
  /\ UNCHANGED forgotten

\* What is reported under another process's identifier is missed in the one
\* and kept in the other.  What is reported and then taken back is kept.
HookPushAlloc(t) ==
  LET p == proc[t]
      r == pid[p]
      sent == IF ring' = ring THEN {} ELSE {addr[t]} \ {Null}
  IN  /\ Library(push_alloc_sample(t))
      /\ unreported' = [unreported EXCEPT ![r] =
                          IF r = p /\ res'[t] = "ok"
                          THEN @ \ (sent \cap tracked[p]) ELSE @ \cup sent]
      /\ forgotten' = [forgotten EXCEPT ![p] = IF r = p THEN @
                                               ELSE @ \cup sent]

\* A lost deallocation leaves the address with the worker.  One that arrives
\* after the address was allocated again takes the new allocation away.
HookPushDealloc(t) ==
  LET p == proc[t]
      r == pid[p]
      sent == ring' # ring
  IN  /\ Library(push_dealloc_sample(t))
      /\ unreported' = [unreported EXCEPT ![p] =
                          IF ~sent THEN @ \cup {ptr[t]}
                          ELSE IF r = p THEN @ \ ({ptr[t]} \ BeingAdded(p))
                          ELSE @]
      /\ forgotten' = [forgotten EXCEPT ![r] =
                         @ \cup IF sent THEN tracked[r] \cap {ptr[t]} ELSE {}]

\* The child starts with the parent's set, none of which the worker has.
HookFork(t, c, q) ==
  /\ Fork(t, c, q) /\ UNCHANGED liveVars
  /\ announced' = announced \cup {q}
  /\ forgotten' = [forgotten EXCEPT ![q] = tracked[proc[t]]]
  /\ UNCHANGED unreported

HookOther(t) ==
  /\ Library(\/ AllocHook(t) \/ FreeHook(t) \/ Pushed(t) \/ Ref(t)
             \/ allocation_tracking_free(t) \/ notify_fork(t))
  /\ UNCHANGED history

ProcessExit(p) ==
  /\ Library(Exit(p))
  /\ unreported' = [unreported EXCEPT ![p] = {}]
  /\ forgotten' = [forgotten EXCEPT ![p] = {}]

-----------------------------------------------------------------------------
\* Steps of the worker.  What it had of the processes it forgets is missed,
\* with the events it read; of what it would have kept, only that remains
\* which is still to be read.  Of the others it misses what it read and did not
\* register: "avoid sending empty stacks".
Forget(ps, read) ==
  /\ forgotten' = [p \in Pids |->
       forgotten[p] \cup IF p \in ps
                         THEN LiveAddrs(live[p]) \cup (Reported(read, "sample", p) \ {Null})
                         ELSE Frameless(read, p) \ (LiveAddrs(live[p]) \cup {Null})]
  /\ unreported' = [p \in Pids |->
       IF p \in ps
       THEN unreported[p] \cap
              (Reported(ring', "sample", p) \cup BeingAdded(p))
       ELSE unreported[p]]

Worker(A) ==
  /\ A
  /\ UNCHANGED <<proc, started, in_use, tracker, hook, calls>>

ReadSample ==
  LET e == Head(ring)
  IN  /\ ring # <<>> /\ e.type = "sample"
      /\ ring' = Tail(ring)
      /\ \E inconsistent \in BOOLEAN :
           /\ Worker(ddprof_pr_sample(e.pid, e.addr, e.sample.stack,
                                      e.sample.value, inconsistent))
           /\ Forget(IF inconsistent THEN {e.pid} ELSE {}, <<e>>)
      /\ UNCHANGED announced

ReadDeallocation ==
  LET e == Head(ring)
  IN  /\ ring # <<>> /\ e.type = "deallocation"
      /\ ring' = Tail(ring)
      /\ Worker(ddprof_pr_deallocation(e.pid, e.addr))
      /\ UNCHANGED <<announced, history>>

\* A sample of another watcher, for instance of CPU time, or a new mapping.
OtherSample(p) ==
  /\ Alive(p)
  /\ UNCHANGED <<ring, announced>>
  /\ \E inconsistent \in BOOLEAN, s \in Samples :
       /\ Worker(ddprof_pr_sample(p, Null, s.stack, s.value, inconsistent))
       /\ Forget(IF inconsistent THEN {p} ELSE {}, <<>>)

NewMapping(p) ==
  /\ Alive(p)
  /\ Worker(ddprof_pr_mmap(p))
  /\ UNCHANGED <<ring, announced, history>>

ForkRecord(p) ==
  /\ p \in announced
  /\ announced' = announced \ {p}
  /\ UNCHANGED ring
  /\ Worker(ddprof_pr_fork(p))
  /\ Forget({p}, <<>>)

Cycle ==
  /\ UNCHANGED <<ring, announced>>
  /\ Worker(clear_unvisited_pids)
  /\ Forget(process_map \ visited, <<>>)

\* What the old worker had read and not processed is lost with it.
Restart ==
  \E n \in 0 .. Len(ring) :
    /\ ring' = SubSeq(ring, n + 1, Len(ring))
    /\ Worker(WorkerRestart)
    /\ Forget(Pids, SubSeq(ring, 1, n))
    /\ UNCHANGED announced

Next ==
  \/ \E t \in Threads :
       \/ HookAdd(t) \/ HookRemove(t) \/ HookPushAlloc(t)
       \/ HookPushDealloc(t) \/ HookOther(t)
       \/ \E c \in Threads, q \in Pids : HookFork(t, c, q)
  \/ ReadSample \/ ReadDeallocation \/ Cycle \/ Restart
  \/ \E p \in Pids :
       ProcessExit(p) \/ OtherSample(p) \/ NewMapping(p) \/ ForkRecord(p)

Spec == Init /\ [][Next]_vars

-----------------------------------------------------------------------------
\* No phantom: an address that the worker shows as live is in the set of its
\* process, unless its deallocation is on its way, was lost, or will not be
\* reported because tracking was stopped.
NoPhantom ==
  \A p \in Pids : track_deallocations[p] =>
    LiveAddrs(live[p]) \subseteq
      tracked[p] \cup unreported[p] \cup BeingRemoved(p)
        \cup Reported(ring, "deallocation", p)

\* None missing: an address of the set is live for the worker, unless its
\* allocation is on its way or the worker lost it.
NoneMissing ==
  \A p \in Pids : track_deallocations[p] =>
    tracked[p] \subseteq
      LiveAddrs(live[p]) \cup forgotten[p] \cup BeingAdded(p)
        \cup Reported(ring, "sample", p)
=============================================================================
