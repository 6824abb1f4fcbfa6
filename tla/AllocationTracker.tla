-------------------------- MODULE AllocationTracker --------------------------
(***************************************************************************)
(* The library inside the profiled processes.  Its hooks wrap the          *)
(* functions of the allocator; a sampled allocation is entered in the      *)
(* process's set of addresses and reported, and the deallocation of an     *)
(* address of that set is reported too.  The threads of a process run the  *)
(* hooks concurrently, and all processes report into one ring buffer.      *)
(***************************************************************************)
EXTENDS Processes, Integers, Sequences

CONSTANTS
  Threads,        \* threads of all processes
  First,          \* the threads of the process that starts the library
  Root,           \* that process
  Samples,        \* what is reported with an allocation: stack and size
  None,           \* no process
  k_max_consecutive_failures,
  RingSize,       \* events the ring buffer holds
  HighPriority,   \* of these, room that only deallocations may use
  MayTimeout,     \* the ring buffer's lock may not be obtained in time
  MayFailNotify,  \* the write to the event file descriptor may fail
  MayFill,        \* the address set may be full
  ForkWindow,     \* hooks may run in a forked child before notify_fork does
  MaxCalls        \* bound on the calls of hooks

ASSUME TrackerAssumption ==
  /\ First \subseteq Threads /\ Root \in Pids /\ None \notin Pids
  /\ k_max_consecutive_failures \in Nat \ {0}
  /\ RingSize \in Nat /\ HighPriority \in 0 .. RingSize
  /\ {MayTimeout, MayFailNotify, MayFill, ForkWindow} \subseteq BOOLEAN
  /\ MaxCalls \in Nat

VARIABLES
  proc,                 \* the process of each thread
  started,              \* the processes there have been
  in_use,               \* external: the allocator's blocks in use
  instance,             \* _instance is set
  track_deallocations,
  tracked,              \* _allocated_address_set
  failure_count,
  pid,                  \* _state.pid, the identifier put in events
  pc, op, ptr,          \* a thread's place in a hook, the hook, its address
  addr, res,            \* the address to report, the result of a push
  ring,                 \* events reported and not yet read
  calls                 \* calls of hooks so far

tracker == <<instance, track_deallocations, tracked, failure_count, pid>>
hook == <<pc, op, ptr, addr, res>>
trackerVars == <<proc, started, in_use, tracker, hook, ring, calls>>

TrackerInit ==
  /\ proc = [t \in Threads |-> IF t \in First THEN Root ELSE None]
  /\ started = {Root}
  /\ in_use = [p \in Pids |-> {}]
  /\ instance = [p \in Pids |-> p = Root]
  /\ track_deallocations = [p \in Pids |-> p = Root]
  /\ tracked = [p \in Pids |-> {}]
  /\ failure_count = [p \in Pids |-> 0]
  /\ pid = [p \in Pids |-> p]
  /\ pc = [t \in Threads |-> "idle"]
  /\ op = [t \in Threads |-> "none"]
  /\ ptr = [t \in Threads |-> Null]
  /\ addr = [t \in Threads |-> Null]
  /\ res = [t \in Threads |-> "ok"]
  /\ ring = <<>>
  /\ calls = 0

Alive(p) == \E t \in Threads : proc[t] = p

\* is_deallocation_tracking_active
Tracking(p) == instance[p] /\ track_deallocations[p]

Goto(t, l) == pc' = [pc EXCEPT ![t] = l]

\* The threads of ts leave their hooks.
Return(ts) ==
  /\ pc' = [t \in Threads |-> IF t \in ts THEN "idle" ELSE pc[t]]
  /\ op' = [t \in Threads |-> IF t \in ts THEN "none" ELSE op[t]]
  /\ ptr' = [t \in Threads |-> IF t \in ts THEN Null ELSE ptr[t]]
  /\ addr' = [t \in Threads |-> IF t \in ts THEN Null ELSE addr[t]]
  /\ res' = [t \in Threads |-> IF t \in ts THEN "ok" ELSE res[t]]

\* A thread enters a hook.
Call(t) ==
  /\ proc[t] # None /\ pc[t] = "idle"
  /\ ForkWindow \/ pid[proc[t]] = proc[t]
  /\ calls < MaxCalls /\ calls' = calls + 1

\* Blocks some thread is allocating, or freeing and has not freed yet.
Held(p) == {ptr[t] : t \in {u \in Threads : /\ proc[u] = p
                                            /\ pc[u] # "idle"
                                            /\ op[u] # "dallocx"}}

\* track_allocation_s, with the address the allocator returned: nothing is
\* done when the tracker is not set up or the allocation is not sampled.
track_allocation_s(t, p, a) ==
  \/ Return({t})
  \/ /\ instance[p]
     /\ Goto(t, "add")
     /\ op' = [op EXCEPT ![t] = "alloc"]
     /\ ptr' = [ptr EXCEPT ![t] = a]
     /\ UNCHANGED <<addr, res>>

\* malloc, calloc, new, memalign...  An allocation that fails is tracked with
\* a null address by the hooks that do not look at what they got.
AllocHook(t) ==
  /\ Call(t)
  /\ \E a \in (Addrs \ in_use[proc[t]]) \cup {Null} :
       /\ in_use' = [in_use EXCEPT ![proc[t]] = @ \cup ({a} \ {Null})]
       /\ track_allocation_s(t, proc[t], a)
  /\ UNCHANGED <<proc, started, tracker, ring>>

\* track_allocation: the address is entered in the set, which fails when it
\* is there already or the set is full; it is then reported without address.
Add(t) ==
  LET p == proc[t]
  IN  /\ pc[t] = "add"
      /\ \/ /\ ~track_deallocations[p] \/ ptr[t] = Null
            /\ addr' = [addr EXCEPT ![t] = ptr[t]]
            /\ UNCHANGED tracked
         \/ /\ track_deallocations[p] /\ ptr[t] \notin tracked[p] \cup {Null}
            /\ addr' = [addr EXCEPT ![t] = ptr[t]]
            /\ tracked' = [tracked EXCEPT ![p] = @ \cup {ptr[t]}]
         \/ /\ track_deallocations[p]
            /\ MayFill \/ ptr[t] \in tracked[p]
            /\ addr' = [addr EXCEPT ![t] = Null]
            /\ UNCHANGED tracked
      /\ Goto(t, "push_alloc")
      /\ UNCHANGED <<proc, started, in_use, instance, track_deallocations,
                     failure_count, pid, op, ptr, res, ring, calls>>

\* Reserve, fill and commit an event, then wake the reader up.
Push(t, event, room) ==
  \/ /\ Len(ring) < room
     /\ ring' = Append(ring, event)
     /\ \/ res' = [res EXCEPT ![t] = "ok"]
        \/ MayFailNotify /\ res' = [res EXCEPT ![t] = "error"]
  \/ /\ Len(ring) >= room
     /\ res' = [res EXCEPT ![t] = "warn"]
     /\ UNCHANGED ring
  \/ /\ MayTimeout
     /\ res' = [res EXCEPT ![t] = "error"]
     /\ UNCHANGED ring

push_alloc_sample(t) ==
  /\ pc[t] = "push_alloc"
  /\ \E s \in Samples :
       Push(t, [type |-> "sample", pid |-> pid[proc[t]], addr |-> addr[t],
                sample |-> s], RingSize - HighPriority)
  /\ Goto(t, "pushed")
  /\ UNCHANGED <<proc, started, in_use, tracker, op, ptr, addr, calls>>

\* free(): both stores, which only a thread that loaded _instance before the
\* first could tell apart from one.
Free(p) ==
  /\ track_deallocations' = [track_deallocations EXCEPT ![p] = FALSE]
  /\ instance' = [instance EXCEPT ![p] = FALSE]

\* Too many errors in a row stop the profiling of allocations.
free_on_consecutive_failures(p, failure) ==
  LET n == failure_count[p] + 1
  IN  /\ failure_count' =
           [failure_count EXCEPT ![p] = IF failure THEN n ELSE 0]
      /\ IF failure /\ n >= k_max_consecutive_failures
         THEN Free(p)
         ELSE UNCHANGED <<track_deallocations, instance>>

\* Mutant of Pushed: an allocation that was not reported stays in the set.
PushedKept(t) ==
  LET p == proc[t]
  IN  /\ pc[t] = "pushed"
      /\ free_on_consecutive_failures(p, res[t] = "error")
      /\ IF op[t] = "alloc"
         THEN Return({t})
         ELSE Goto(t, "ref") /\ UNCHANGED <<op, ptr, addr, res>>
      /\ UNCHANGED <<proc, started, in_use, tracked, pid, ring, calls>>

\* What follows a push: an allocation that was not reported leaves the set, a
\* deallocation goes on to the allocator's function.
Pushed(t) ==
  LET p == proc[t]
  IN  /\ pc[t] = "pushed"
      /\ free_on_consecutive_failures(p, res[t] = "error")
      /\ IF op[t] = "alloc"
         THEN /\ tracked' = [tracked EXCEPT ![p] =
                    IF res[t] # "ok" /\ track_deallocations'[p]
                    THEN @ \ {addr[t]} ELSE @]
              /\ Return({t})
         ELSE /\ Goto(t, "ref")
              /\ UNCHANGED <<tracked, op, ptr, addr, res>>
      /\ UNCHANGED <<proc, started, in_use, pid, ring, calls>>

\* Mutant of FreeHook: free and delete give the block back before they track
\* it.
FreeFirst(t) ==
  LET p == proc[t]
  IN  /\ Call(t)
      /\ \E a \in in_use[p] \ Held(p), o \in {"free", "dallocx"} :
           /\ in_use' = [in_use EXCEPT ![p] = @ \ {a}]
           /\ op' = [op EXCEPT ![t] = o]
           /\ ptr' = [ptr EXCEPT ![t] = a]
      /\ Goto(t, IF Tracking(p) THEN "remove" ELSE "ref")
      /\ UNCHANGED <<proc, started, tracker, addr, res, ring>>

\* free and delete track the block and then free it, realloc and xallocx
\* before they change it; dallocx and sdallocx free it first.
FreeHook(t) ==
  LET p == proc[t]
  IN  /\ Call(t)
      /\ \E a \in in_use[p] \ Held(p), o \in {"free", "dallocx", "realloc"} :
           /\ in_use' = [in_use EXCEPT ![p] =
                           IF o = "dallocx" THEN @ \ {a} ELSE @]
           /\ op' = [op EXCEPT ![t] = o]
           /\ ptr' = [ptr EXCEPT ![t] = a]
      /\ Goto(t, IF Tracking(p) THEN "remove" ELSE "ref")
      /\ UNCHANGED <<proc, started, tracker, addr, res, ring>>

\* track_deallocation: only an address of the set is reported.
Remove(t) ==
  LET p == proc[t]
      found == track_deallocations[p] /\ ptr[t] \in tracked[p]
  IN  /\ pc[t] = "remove"
      /\ tracked' = [tracked EXCEPT ![p] = IF found THEN @ \ {ptr[t]} ELSE @]
      /\ Goto(t, IF found THEN "push_dealloc" ELSE "ref")
      /\ UNCHANGED <<proc, started, in_use, instance, track_deallocations,
                     failure_count, pid, op, ptr, addr, res, ring, calls>>

\* A full ring buffer is retried a few times; the result is that of the last
\* attempt.
push_dealloc_sample(t) ==
  /\ pc[t] = "push_dealloc"
  /\ Push(t, [type |-> "deallocation", pid |-> pid[proc[t]],
              addr |-> ptr[t]], RingSize)
  /\ Goto(t, "pushed")
  /\ UNCHANGED <<proc, started, in_use, tracker, op, ptr, addr, calls>>

\* The allocator's function, after the deallocation was tracked.  What realloc
\* returns is tracked as an allocation; a realloc that fails keeps the block.
Ref(t) ==
  LET p == proc[t]
  IN  /\ pc[t] = "ref"
      /\ \/ /\ op[t] # "realloc"
            /\ in_use' = [in_use EXCEPT ![p] =
                            IF op[t] = "free" THEN @ \ {ptr[t]} ELSE @]
            /\ Return({t})
         \/ /\ op[t] = "realloc"
            /\ in_use' = [in_use EXCEPT ![p] = @ \ {ptr[t]}]
            /\ Return({t})
         \/ /\ op[t] = "realloc"
            /\ \E a \in (Addrs \ in_use[p]) \cup {ptr[t]} :
                 /\ in_use' = [in_use EXCEPT ![p] = (@ \ {ptr[t]}) \cup {a}]
                 /\ track_allocation_s(t, p, a)
         \/ /\ op[t] = "realloc"
            /\ track_allocation_s(t, p, Null)
            /\ UNCHANGED in_use
      /\ UNCHANGED <<proc, started, tracker, ring, calls>>

\* allocation_tracking_free, called by ddprof_stop_profiling.
allocation_tracking_free(t) ==
  /\ Call(t) /\ instance[proc[t]]
  /\ Free(proc[t])
  /\ UNCHANGED <<proc, started, in_use, tracked, failure_count, pid, hook,
                 ring>>

\* The child c of a fork has a copy of the memory, and only the thread that
\* called fork.
Fork(t, c, q) ==
  LET p == proc[t]
      Copy(f) == [f EXCEPT ![q] = f[p]]
  IN  /\ Call(t)
      /\ proc[c] = None /\ q \notin started
      /\ proc' = [proc EXCEPT ![c] = q]
      /\ started' = started \cup {q}
      /\ in_use' = Copy(in_use)
      /\ instance' = Copy(instance)
      /\ track_deallocations' = Copy(track_deallocations)
      /\ tracked' = Copy(tracked)
      /\ failure_count' = Copy(failure_count)
      /\ pid' = Copy(pid)
      /\ UNCHANGED <<hook, ring>>

notify_fork(t) ==
  /\ proc[t] # None /\ pc[t] = "idle" /\ pid[proc[t]] # proc[t]
  /\ pid' = [pid EXCEPT ![proc[t]] = proc[t]]
  /\ UNCHANGED <<proc, started, in_use, instance, track_deallocations,
                 tracked, failure_count, hook, ring, calls>>

\* A process exits or is killed, at any point of a hook; its memory is gone.
Exit(p) ==
  LET Drop(f, v) == [f EXCEPT ![p] = v]
  IN  /\ Alive(p)
      /\ proc' = [t \in Threads |-> IF proc[t] = p THEN None ELSE proc[t]]
      /\ Return({t \in Threads : proc[t] = p})
      /\ in_use' = Drop(in_use, {}) /\ tracked' = Drop(tracked, {})
      /\ instance' = Drop(instance, FALSE)
      /\ track_deallocations' = Drop(track_deallocations, FALSE)
      /\ failure_count' = Drop(failure_count, 0) /\ pid' = Drop(pid, p)
      /\ UNCHANGED <<started, ring, calls>>
=============================================================================
