------------------------------ MODULE Overrides ------------------------------
(***************************************************************************)
(* How the library gets its hooks called.  It writes their addresses over  *)
(* the entries of the loaded objects that lead to the allocator, keeps the *)
(* old values, follows the objects that are loaded and unloaded meanwhile, *)
(* and puts the values back when profiling stops.  The threads of the      *)
(* program go on calling through these entries all the time.               *)
(*                                                                         *)
(* An object has one entry, standing for all of them: a walk over the      *)
(* objects treats them together, and holds the linker's lock meanwhile.    *)
(* The buffers of the tracker (ring buffer, address set) are known by the  *)
(* number of the start that made them.                                     *)
(***************************************************************************)
EXTENDS Integers

CONSTANTS
  Threads, NoThread,
  Libs,           \* names of the objects
  Exe,            \* the executable, at base 0
  Lazy,           \* objects whose entries are resolved by their first call
  Excluded,       \* this library itself, the linker and the vdso
  Bases,          \* addresses at which objects are loaded
  MayFail,        \* mprotect and the attachment to the ring buffer may fail
  Periodic,       \* the interval of the check of loaded libraries is not 0
  MaxCalls        \* bound on the calls of the program

ASSUME OverridesAssumption ==
  /\ NoThread \notin Threads /\ Exe \in Libs
  /\ Lazy \subseteq Libs /\ Excluded \subseteq Libs
  /\ Bases \subseteq Nat \ {0} /\ MaxCalls \in Nat
  /\ {MayFail, Periodic} \subseteq BOOLEAN

VARIABLES
  images,         \* the loaded objects, by base address
  adds,           \* dlpi_adds: how many objects were ever loaded
  overrides,      \* g_symbol_overrides: a set with the object, or empty
  g_mutex,        \* its lock
  started, allocation_profiling_started,
  instance,       \* AllocationTracker::_instance is set
  mutex,          \* the lock of the tracker
  next_check_time,
  session,        \* starts so far
  rb, mapped,     \* the buffers the tracker refers to; those that exist (0: none)
  pc, op, from, hold,   \* a thread's place, call, calling object, buffers in use
  reentry_guard,
  calls, faulted

tracker == <<instance, mutex, next_check_time, session, rb, mapped>>
object == <<images, adds>>
state == <<started, allocation_profiling_started>>
thread == <<pc, op, from, hold, reentry_guard>>
vars == <<object, overrides, g_mutex, state, tracker, thread, calls, faulted>>

\* An entry bound at load time is on a page made read-only afterwards.
Image(lib) == [lib |-> lib, got |-> IF lib \in Lazy THEN "lazy" ELSE "ref", writable |-> lib \in Lazy]

Init ==
  /\ images = [b \in {0} |-> Image(Exe)] /\ adds = 1
  /\ overrides = {} /\ g_mutex = NoThread
  /\ started = FALSE /\ allocation_profiling_started = FALSE
  /\ instance = FALSE /\ mutex = NoThread /\ next_check_time = "never"
  /\ session = 0 /\ rb = 0 /\ mapped = 0
  /\ pc = [t \in Threads |-> "run"] /\ op = [t \in Threads |-> "none"]
  /\ from = [t \in Threads |-> -1] /\ hold = [t \in Threads |-> 0]
  /\ reentry_guard = [t \in Threads |-> FALSE]
  /\ calls = 0 /\ faulted = FALSE

Goto(t, l) == pc' = [pc EXCEPT ![t] = l]

Call(t, o, b) ==
  /\ pc[t] = "run" /\ calls < MaxCalls /\ calls' = calls + 1
  /\ op' = [op EXCEPT ![t] = o] /\ from' = [from EXCEPT ![t] = b]

\* The call returns; the guards it took are released.
Return(t) ==
  /\ Goto(t, "run")
  /\ op' = [op EXCEPT ![t] = "none"] /\ from' = [from EXCEPT ![t] = -1]
  /\ hold' = [hold EXCEPT ![t] = 0] /\ reentry_guard' = [reentry_guard EXCEPT ![t] = FALSE]

\* Memory that is not mapped, or not writable, was written: the process ends.
Fault ==
  /\ faulted' = TRUE /\ pc' = [t \in Threads |-> "gone"]
  /\ UNCHANGED <<images, overrides, g_mutex, mutex, op, from, hold, reentry_guard>>
-----------------------------------------------------------------------------
(* The program and its linker                                              *)

\* Through an entry not resolved yet the linker is called, through the hook
\* the tracker.
Malloc(t) == \E b \in DOMAIN images :
  /\ images[b].got # "ref"
  /\ Call(t, "malloc", b)
  /\ Goto(t, IF images[b].got = "lazy" THEN "resolve" ELSE "hook")
  /\ UNCHANGED <<object, overrides, g_mutex, state, tracker, hold, reentry_guard, faulted>>

Resolve(t) ==
  /\ pc[t] = "resolve"
  /\ images' = [images EXCEPT ![from[t]].got = "ref"]
  /\ Return(t)
  /\ UNCHANGED <<adds, overrides, g_mutex, state, tracker, calls, faulted>>

\* DlopenHook: the object is loaded, then the overrides are updated.
Dlopen(t) == \E b \in DOMAIN images, c \in Bases \ DOMAIN images, lib \in Libs :
  /\ \A d \in DOMAIN images : images[d].lib # lib
  /\ images' = [d \in DOMAIN images \cup {c} |-> IF d = c THEN Image(lib) ELSE images[d]]
  /\ adds' = adds + 1
  /\ IF images[b].got = "hook"
       THEN Call(t, "dlopen", b) /\ Goto(t, "lock")
       ELSE Call(t, "none", -1) /\ UNCHANGED pc
  /\ UNCHANGED <<overrides, g_mutex, state, tracker, hold, reentry_guard, faulted>>

\* The program does not unload an object whose code it is running.
Dlclose(t) == \E b \in DOMAIN images \ {0} :
  /\ \A u \in Threads : from[u] # b
  /\ Call(t, "none", -1)
  /\ images' = [c \in DOMAIN images \ {b} |-> images[c]]
  /\ UNCHANGED <<adds, overrides, g_mutex, state, tracker, pc, hold, reentry_guard, faulted>>

\* No thread starts or stops profiling.
Steady == \A t \in Threads : op[t] \notin {"start", "stop"}

\* The child, which has only the thread that forked.  The parent goes on as if
\* nothing happened.
Fork(t) ==
  /\ Steady
  /\ Call(t, "none", -1)
  /\ \E u \in Threads : u # t /\ pc[u] # "gone"
  /\ pc' = [u \in Threads |-> IF u = t THEN pc[u] ELSE "gone"]
  /\ UNCHANGED <<object, overrides, g_mutex, state, tracker, hold, reentry_guard, faulted>>

TimePasses ==
  /\ next_check_time = "later" /\ ~faulted /\ next_check_time' = "past"
  /\ UNCHANGED <<object, overrides, g_mutex, state, instance, mutex, session, rb, mapped, thread, calls, faulted>>
-----------------------------------------------------------------------------
(* Start and stop                                                          *)

\* ddprof_start_profiling_internal up to setup_overrides.  The previous ring
\* buffer is unmapped and the address set made again before the new buffer is
\* attached; when that fails the library counts as started all the same.
Start(t) ==
  /\ Steady /\ ~started
  /\ Call(t, "start", -1)
  /\ session' = session + 1
  /\ \E ok \in {TRUE, ~MayFail} :
       IF ok THEN /\ instance' = TRUE /\ next_check_time' = "later"
                  /\ rb' = session' /\ mapped' = session'
                  /\ Goto(t, "lock") /\ UNCHANGED started
             ELSE /\ mapped' = 0 /\ started' = TRUE
                  /\ Goto(t, "end") /\ UNCHANGED <<instance, next_check_time, rb>>
  /\ UNCHANGED <<object, overrides, g_mutex, allocation_profiling_started, mutex, hold, reentry_guard, faulted>>

\* ddprof_stop_profiling, up to restore_overrides.
Stop(t) ==
  /\ Steady /\ started
  /\ Call(t, "stop", -1)
  /\ Goto(t, IF allocation_profiling_started THEN "lock" ELSE "end")
  /\ started' = allocation_profiling_started
  /\ UNCHANGED <<object, overrides, g_mutex, allocation_profiling_started, tracker, hold, reentry_guard, faulted>>

End(t) ==
  /\ pc[t] = "end" /\ Return(t)
  /\ UNCHANGED <<object, overrides, g_mutex, state, tracker, calls, faulted>>

\* Mutant of AllocationTrackingFree: the ring buffer is unmapped.
MutantAllocationTrackingFree(t) ==
  /\ pc[t] = "free" /\ (instance => mutex = NoThread)
  /\ instance' = FALSE /\ mapped' = 0
  /\ started' = FALSE /\ allocation_profiling_started' = FALSE
  /\ Return(t)
  /\ UNCHANGED <<object, overrides, g_mutex, mutex, next_check_time, session, rb, calls, faulted>>

\* allocation_tracking_free waits for a check of the libraries in progress,
\* unless the tracker gave up before; the buffers stay mapped.
AllocationTrackingFree(t) ==
  /\ pc[t] = "free" /\ (instance => mutex = NoThread)
  /\ instance' = FALSE
  /\ started' = FALSE /\ allocation_profiling_started' = FALSE
  /\ Return(t)
  /\ UNCHANGED <<object, overrides, g_mutex, mutex, next_check_time, session, rb, mapped, calls, faulted>>
-----------------------------------------------------------------------------
(* The hook of an allocation                                               *)

\* The allocator is called; then nothing more happens when the tracker is not
\* set up, or the allocation is not sampled.
TrackAllocation(t) ==
  /\ pc[t] = "hook"
  /\ \/ Return(t)
     \/ /\ instance
        /\ reentry_guard' = [reentry_guard EXCEPT ![t] = TRUE]
        /\ hold' = [hold EXCEPT ![t] = rb]
        /\ Goto(t, "push") /\ UNCHANGED <<op, from>>
  /\ UNCHANGED <<object, overrides, g_mutex, state, tracker, calls, faulted>>

\* push_alloc_sample, with the buffers it began with or those of a start since.
\* The timer is looked at after an event that was sent, and not for mmap; a
\* last error in a row ends the profiling.
Push(t) ==
  /\ pc[t] = "push"
  /\ \/ hold[t] # mapped /\ Fault /\ UNCHANGED instance
     \/ rb = mapped /\ Return(t)
        /\ (instance' = FALSE \/ UNCHANGED instance) /\ UNCHANGED <<images, overrides, g_mutex, mutex, faulted>>
     \/ /\ rb = mapped /\ next_check_time = "past"
        /\ Goto(t, "timer")
        /\ UNCHANGED <<images, instance, overrides, g_mutex, mutex, op, from, hold, reentry_guard, faulted>>
  /\ UNCHANGED <<adds, state, next_check_time, session, rb, mapped, calls>>

\* update_timer: one thread finds the time past.  The state of the tracker is
\* sent and update_overrides called with the lock held.
UpdateTimer(t) ==
  /\ pc[t] = "timer" /\ mutex = NoThread
  /\ IF next_check_time # "past"
       THEN Return(t) /\ UNCHANGED <<images, overrides, g_mutex, mutex, next_check_time, faulted>>
     ELSE IF ~Periodic
       THEN Return(t) /\ next_check_time' = "never" /\ UNCHANGED <<images, overrides, g_mutex, mutex, faulted>>
     ELSE IF rb # mapped
       THEN Fault /\ UNCHANGED next_check_time
       ELSE /\ next_check_time' = "later"
            /\ mutex' = t /\ Goto(t, "lock")
            /\ UNCHANGED <<images, overrides, g_mutex, op, from, hold, reentry_guard, faulted>>
  /\ UNCHANGED <<adds, state, instance, session, rb, mapped, calls>>
-----------------------------------------------------------------------------
(* symbol_overrides.cc and class SymbolOverrides                           *)

NoOverrides == [nb |-> -1, libs |-> [b \in {} |-> b]]

MutantLock(t) ==   \* without the guard against reentry
  /\ pc[t] = "lock" /\ g_mutex = NoThread /\ g_mutex' = t
  /\ Goto(t, IF op[t] = "stop" THEN "restore" ELSE "count")
  /\ UNCHANGED <<object, overrides, state, tracker, op, from, hold, reentry_guard, calls, faulted>>

\* setup_overrides, restore_overrides and update_overrides.
Lock(t) ==
  /\ pc[t] = "lock" /\ g_mutex = NoThread /\ g_mutex' = t
  /\ reentry_guard' = [reentry_guard EXCEPT ![t] = TRUE]
  /\ Goto(t, IF op[t] = "stop" THEN "restore" ELSE "count")
  /\ UNCHANGED <<object, overrides, state, tracker, op, from, hold, calls, faulted>>

\* The locks are released: that of the tracker too when the timer had it.
Unlock(t) ==
  /\ g_mutex' = NoThread
  /\ mutex' = IF mutex = t THEN NoThread ELSE mutex
  /\ IF op[t] = "stop"
       THEN /\ Goto(t, "free") /\ reentry_guard' = [reentry_guard EXCEPT ![t] = FALSE]
            /\ UNCHANGED <<op, from, hold>>
       ELSE Return(t)
  /\ IF op[t] = "start" THEN started' = TRUE /\ allocation_profiling_started' = TRUE
                        ELSE UNCHANGED state

\* SymbolOverrides::update_overrides: nothing to do unless objects were loaded.
CountLoadedLibraries(t) ==
  /\ pc[t] = "count"
  /\ LET o == IF op[t] = "start" /\ overrides = {} THEN {NoOverrides} ELSE overrides
     IN IF \A x \in o : x.nb = adds
          THEN Unlock(t) /\ overrides' = o
          ELSE /\ overrides' = {[x EXCEPT !.nb = adds] : x \in o}
               /\ Goto(t, "apply")
               /\ UNCHANGED <<g_mutex, mutex, state, op, from, hold, reentry_guard>>
  /\ UNCHANGED <<object, instance, next_check_time, session, rb, mapped, calls, faulted>>

Overridable == {b \in DOMAIN images : images[b].lib \notin Excluded}

\* Allocations made while the lock is held enter the hook again: only the
\* guard keeps them from the timer, and from waiting for the lock.
Reenters(t) == ~reentry_guard[t] /\ instance /\ next_check_time = "past"

\* The objects at a base not known before get the hooks; the others are taken
\* for the ones that were there, and what is gone is forgotten.  An entry that
\* cannot be made writable keeps its value, which is recorded all the same.
ApplyOverrides(t) ==
  /\ pc[t] = "apply"
  /\ \E x \in overrides :
       LET new == Overridable \ DOMAIN x.libs
       IN \E failed \in IF MayFail THEN SUBSET new ELSE {{}} :
            /\ images' = [b \in DOMAIN images |->
                            IF b \in new \ failed
                              THEN [images[b] EXCEPT !.got = "hook", !.writable = TRUE] ELSE images[b]]
            /\ overrides' = {[x EXCEPT !.libs = [b \in Overridable |->
                 IF b \in new THEN [name |-> images[b].lib, old |-> images[b].got] ELSE x.libs[b]]]}
  /\ IF Reenters(t)
       THEN Goto(t, "timer") /\ UNCHANGED <<g_mutex, mutex, state, op, from, hold, reentry_guard>>
       ELSE Unlock(t)
  /\ UNCHANGED <<adds, instance, next_check_time, session, rb, mapped, calls, faulted>>

\* Objects that restore_overrides writes to.
Restored == UNION {{b \in DOMAIN x.libs \cap DOMAIN images : x.libs[b].name = images[b].lib} : x \in overrides}

Restore(b) == [images[b] EXCEPT !.got = (CHOOSE x \in overrides : TRUE).libs[b].old]

MutantRestoreOverrides(t) ==   \* g_symbol_overrides is not reset
  /\ pc[t] = "restore"
  /\ IF \A b \in Restored : images[b].writable
       THEN /\ images' = [b \in DOMAIN images |-> IF b \in Restored THEN Restore(b) ELSE images[b]]
            /\ overrides' = {[x EXCEPT !.libs = NoOverrides.libs] : x \in overrides} /\ Unlock(t) /\ UNCHANGED faulted
       ELSE Fault /\ UNCHANGED state
  /\ UNCHANGED <<adds, instance, next_check_time, session, rb, mapped, calls>>

\* The pages are not made writable again.
RestoreOverrides(t) ==
  /\ pc[t] = "restore"
  /\ IF \A b \in Restored : images[b].writable
       THEN /\ images' = [b \in DOMAIN images |-> IF b \in Restored THEN Restore(b) ELSE images[b]]
            /\ overrides' = {} /\ Unlock(t) /\ UNCHANGED faulted
       ELSE Fault /\ UNCHANGED state
  /\ UNCHANGED <<adds, instance, next_check_time, session, rb, mapped, calls>>
-----------------------------------------------------------------------------
\* What a thread does inside a call.
Step(t) ==
  \/ Resolve(t) \/ TrackAllocation(t) \/ Push(t) \/ UpdateTimer(t)
  \/ Lock(t) \/ CountLoadedLibraries(t) \/ ApplyOverrides(t) \/ RestoreOverrides(t)
  \/ AllocationTrackingFree(t) \/ End(t)

Next ==
  \/ \E t \in Threads :
       Malloc(t) \/ Dlopen(t) \/ Dlclose(t) \/ Fork(t) \/ Start(t) \/ Stop(t) \/ Step(t)
  \/ TimePasses

\* A thread that can go on is scheduled.  The calls are bounded, so a lock is
\* not contended forever.
Spec == Init /\ [][Next]_vars /\ \A t \in Threads : WF_vars(Step(t))
-----------------------------------------------------------------------------
\* Once ddprof_stop_profiling has put the entries back, no loaded object calls
\* a hook, whatever was loaded and unloaded since the start, and no check of
\* the libraries still under way in another thread installs one again.
StoppedUnhooked ==
  Steady /\ ~allocation_profiling_started /\ ~faulted =>
    \A b \in DOMAIN images : images[b].got # "hook"

\* A hook that stop overtook still finds the buffers it is writing to: they
\* are unmapped by the next start, not by allocation_tracking_free.
BuffersOutliveStop ==
  \A t \in Threads : pc[t] = "push" /\ hold[t] = session => mapped = session

\* A lock whose owner is not in the child.
Orphaned == \E l \in {g_mutex, mutex} \ {NoThread} : pc[l] = "gone"

\* Every hook, load, start and stop returns: the two locks are taken in one
\* order, and no thread waits for the one it holds when the library allocates
\* while it has the overrides locked.  The child of a fork made while another
\* thread held a lock is excepted.
CallsReturn ==
  \A t \in Threads : pc[t] # "run" ~> pc[t] \in {"run", "gone"} \/ Orphaned

=============================================================================
