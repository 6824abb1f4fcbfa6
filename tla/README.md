# Verification of ddprof

TLA+ models of the concurrent parts of ddprof, the TLC runs that check them on
small instances, and TLAPS proofs for every size. `PROJECT.json` ties each
definition to the lines of the source it models, and each property to a run, to
a mutation of the code that breaks it and to the hazard it addresses.

## 1. The system

ddprof samples the CPU use and the allocations of Linux processes and sends
profiles to a backend.

```
 profiled process                         profiler
 +---------------------------+           +------------------------------------+
 | hooks (malloc, free, ...) |           | parent: spawn_workers, waitpid     |
 |  -> AllocationTracker     |           |    | fork, restart                  |
 |       -> AddressBitset    |  MPSC     |    v                               |
 |       -> ring buffer -----|--ring---->| worker: worker_loop                |
 +---------------------------+  eventfd  |    -> event queue (reordering)     |
        kernel (perf_event) ----perf---->|    -> unwinding, DsoHdr, processes |
                                ring     |    -> LiveAllocation, profiles     |
        library start  <---socket------->|    -> export thread -> backend     |
                                         +------------------------------------+
```

| Part | State | Operations | What makes it hard |
|---|---|---|---|
| MPSC ring buffer (`ringbuffer_utils.hpp`) | positions in the shared mapping, record headers with Busy and Discard bits, spinlock | reserve, commit, read, discard, advance | writers in several processes, records filled outside the lock, release out of order, death of a writer, restart of the reader |
| worker loop (`perf_mainloop.cc`) | priority queue of events that point into ring buffers | poll, read, process the oldest, advance, hangup | rings of two kinds with different ways to advance, events that are too recent, errors in the middle of a batch |
| supervision (`perf_mainloop.cc`) | `g_child_pid`, `g_termination_requested`, `PersistentWorkerState` | fork, wait, restart, forward a signal | signals at any instruction, flags in shared memory that outlive a worker |
| worker cycle (`ddprof_worker.cc`) | two profiles, `i_current_pprof`, `exp_tid`, `exp_error` | aggregate, cycle, export, clean up | export thread next to the worker, timed join, cancellation, restarts |
| address set (`address_bitset.cc`) | tables of atomic slots, counts | add, remove | lock-free insertion, tombstones, table creation race |
| allocation tracker (`allocation_tracker.cc`) | `_instance`, tracker state, thread-local state | track, push, retry, free, re-init, timer | hooks in flight while the tracker is freed and started again, failure counter, fork with the mutex held |
| hooks (`symbol_overrides.cc`) | reentry guard, original symbols | one hook per function | the order of the real call and of the tracking |
| live allocations (`live_allocation.cc`) | stacks and addresses by watcher and process | register, deregister, clear | lost and unmatched events, pointers between the two maps |
| processes and mappings (`ddprof_process.cc`, `dso_hdr.cc`) | visited set, mappings, backpopulation state | mmap, fork, exec, exit, cycle | events older than what was read from /proc, pid reuse, overlaps |
| start-up (`main.cc`, `dd_profiling.cc`, `loader.c`, `daemonize.cc`, `ipc.cc`) | shared temporary files, three processes and a pipe, listening socket, server thread | extract, double fork, hand over, serve, connect, shut down | processes that race or die, a signal sent before anybody waits for it, a worker replaced while a client connects |
| watchers and perf events (`perf_watcher.cc`, `pevent_lib.cc`, `ddprof.cc`) | watchers, descriptors, mappings of two processes | parse, open, map, enable, clean up | one call of many failing, addresses inherited by the worker |
| unwinding and symbols (`unwind*.cc`, `symbol_hdr.hpp`, `*_symbol_lookup.cc`, `ddprof_module_lib.cc`) | caches by process, file and address, modules of libdwfl | look up, register, free | caches filled from a /proc that is ahead of the events, pids that run another program |

The libraries the profiler calls (libdwfl, libdatadog), parsing, and the encoding
of profiles are data conversions; section 6 says what is left out and why.

What has to be right, part by part: no event is lost, torn, duplicated or used
after its slot was given back; events are processed in timestamp order; at most
one worker runs, and signals end the profiler; no profile is written while it is
exported, and no sample vanishes without an error; an address is found again
exactly when it was added; the live heap the worker reports is the one the library
tracks, up to counted losses; a sample is attributed to what its process was
running; the program is profiled from its start, and left alone after a stop.

## 2. Modules

| Module | Models | Proofs |
|---|---|---|
| `EventChannel` | what the ring buffer promises: sent events are delivered at most once | |
| `MPSCRingBuffer` | `MPSCRingBufferWriter`, `MPSCRingBufferReader`, `mpsc_rb_*` and the part of the worker that reads | `MPSCRingBufferInv`, `MPSCRingBufferProofs` |
| `EventReorder` | `worker_loop`, `worker_process_ring_buffers_ordered`, `worker_process_ring_buffers`, perf ring buffers | `EventReorderProofs` |
| `Supervisor` | `spawn_workers`, `handle_signal`, `worker` | `ProcessProofs` |
| `WorkerCycle` | `ddprof_worker_cycle`, `ddprof_worker_export_thread`, `ddprof_exporter_export`, `ddprof_worker_free` | `WorkerProofs` |
| `AddressTable` | `AddressBitset::init`, `add`, `remove`, `get_table` | `AddressTableProofs` |
| `Processes` | processes and addresses, shared by the next three | |
| `LiveAllocation` | `LiveAllocation`, `ProcessHdr`'s known and visited processes, `worker_pid_free`, `clear_unvisited_pids` and the `ddprof_pr_*` handlers | `LiveHeapProofs` |
| `AllocationTracker` | `AllocationTracker` and the order of operations in the hooks | |
| `LiveHeap` | the two composed through the ring buffer | `LiveHeapProofs` |
| `Overrides` | `SymbolOverrides`, start, stop and the timer of the tracker, the dlopen hook | `OverridesProofs` |
| `DsoHdr` | `Dso` and `DsoHdr` as operators on one process's map | |
| `Mappings` | the processes, the kernel's events, and the handlers that apply them to `DsoHdr` | `MappingsProofs` |
| `SymbolHdr` | `SymbolHdr` and the symbol and mapping lookups | |
| `Modules` | `FileInfo`s, `DwflWrapper`, `report_module` | |
| `Unwind` | `unwindstate_unwind`, `unwind_dwfl`, symbolization and the handlers that free a process, over `SymbolHdr`, `Modules` and `DsoHdr` | |
| `Loader` | the constructor of `loader.c` and `get_or_create_temp_file` | |
| `Daemonize` | `daemonize` | |
| `WorkerServer` | `WorkerServer`, `Client` and their sockets | |
| `Startup` | `main.cc` and `ddprof_start_profiling`, composing the three before | `ProcessProofs` |
| `Watchers` | `context_add_watchers` and what it calls | |
| `PEvents` | `pevent_*`, `ddprof_setup`, `ddprof_teardown`, `worker_library_init` | `WorkerProofs` |

`MC...` modules give the constants their values. Operators that are said to be
mutants are not used by any specification: they are the mutated forms of a
definition named in `PROJECT.json`.

### MPSCRingBuffer

Positions count words (the unit of `kRingBufferAlignment`), never wrap, and
index `hdr` modulo `Size`; a word holds either the header of a record or
payload of a record, with the identity of the record that wrote it, so that
stale contents of a previous lap are visible. One action per step another
process can see: construction of the writer (which caches `reader_pos`), lock,
lock timeout, header, `writer_pos`, unlock, payload, commit (clears Busy),
notification. The reader reads a header, skips discarded records, stops at a
busy one, processes or queues the event, discards it and moves `reader_pos` over
the discarded prefix. `Kill` ends a writer between any two steps; a worker
restart keeps the shared mapping and drops the reader's queue.

Choices that need a word: in ordered mode the code loads `writer_pos` for each
event, so no snapshot is kept, while the unordered reader's snapshot is
`Limit`; the head that `mpsc_rb_advance_if_possible` loads may only be too
small, which commutes with a shorter advance; the positions' 64-bit overflow is
out of reach (2^64 bytes); `mask < x` in bytes is `Size <= x` in words; the
drain with `time_point::max()` is `MaxTime`; the retries of the tracker are
further pushes; `Notify` merges the load of the tail with the write of the
eventfd, between which only a reader that goes to sleep later can come.

Run: `MPSC`. Whether the worker reorders events is chosen at the start; without
reordering, one of the two writers may be killed. The buffer has eight words, of
which two records nearly fill it, so that the third straddles its end over the
first, and workers restart and hang up. Three pushes let a writer lap the buffer,
fill it completely and race for its last free words. `ImplementsChannel` is the
refinement of `EventChannel` (`INSTANCE EventChannel WITH`). `EventuallyDrained`
is what the timeout of poll is for: in ordered mode commit compares with
`reader_pos`, which lags behind what has been read, and does not notify a worker
that sleeps with events in its queue; without reordering there is no lost wake-up
(`UnorderedWoken`). `WritersReturn` holds although a writer died with the lock: the
others time out. Fairness: the worker's steps are weakly fair, as
its loop never blocks but in poll, which has a timeout (weakly fair `Wake`);
writers' steps are weakly fair because a thread inside a hook runs, with the
exception of a killed one; nothing makes the program call a hook.

### EventReorder

The worker with several ring buffers, perf and MPSC. An event has a time, the
time at which it is visible may be up to `kMaxSampleLatency` later. The queue
is a set of events ordered as `EventWrapper::operator<` orders them. A perf ring
buffer has at most one event in the queue and is advanced as a whole; an MPSC
ring buffer gives back prefixes. The variable `setup` is
a choice, made in the initial state, of the kinds of ring buffers, of the loop
(ordered or not) and of whether records without time occur. Runs: `Reorder` (two
perf ring buffers, a perf and an MPSC one, and the unordered loop) and the
disagreement `ReorderUntimed`. Two rings with a handful of
events are enough: the loop treats rings one by one, and an inversion involves
two events. Fairness as above; `Tick` is fair because time passes.

### Supervisor

The parent's steps in `spawn_workers`, its signal handler as an action that is
enabled between any two of them unless signals are blocked, the worker from
fork to exit, and the three fields in shared memory. Fatal errors, crashes
and failing forks can be switched off. `RespawnsAreSpaced` and `ErrorsReported`
depend on the worker having reset the flags in shared memory: the history
variable `unstarted` records that a fork failed or that a worker died before
that. Run: `Supervisor` (the steps of parent and worker are weakly fair for
`TerminationCompletes`, signals are not required to arrive). `MaxForks` and `MaxSignals` bound the runs, not the
proofs.

### WorkerCycle

The worker thread and the export thread with the two profiles. A sample is a
number; a profile is the set of samples aggregated since its reset, and the
backend is the log of what was sent with its sequence number. `Join` may time
out while the thread still runs, `Send` may fail, `Free` cancels the thread
without waiting for it, `Crash` and `Respawn` model a restart, over which only
the sequence number survives. `lost` collects the samples that a crash, a fatal
error or a failed `pthread_create` took away: nothing else may go missing. Run:
`Cycle`. A worker makes four exports before it is replaced and tolerates one
error per exporter, so that the two exporters' counters alternate up to their
common bound, and the sequence numbers of two workers follow each other. The worker,
the export thread and the parent are scheduled (weak fairness); failures and crashes
are not required.

### AddressTable

The set of addresses the hooks share, one action per atomic load,
compare-and-exchange or counter update. `clear`,
which only tests call, is left out. `Chunk` and `Home` stand for the chunk
index and the hash; the dedicated table of large allocations, which `init` creates,
is the chunk `large`. A table is named by the thread that created it, or `init`, and
its chunk: a thread creates no second one for a chunk, as the first attempt leaves
one installed.
The environment follows the allocator: an address is given out again only after
it was freed, and hooks call `add` before malloc returns and `remove` before
free is called, unless `EarlyReuse` says that an address can come back while it
is in the set, which `dallocx`, whose hook untracks after the call, and
functions that are not hooked make possible. `setup` is the choice among such
configurations.

An allocation that fails is tracked as well: `CallAddNull` is `add` of the null
pointer, which is the value of an empty slot (the assertion against it is off in a
release build). It finds an empty slot or a tombstone, stores what means "empty", and
counts. Two ghosts follow it: `nulls`, how many of them a table has counted, and
`emptied`, whether one took the place of a tombstone, behind which a probe then no
longer looks. `CountMatches` accounts for the former, `RemoveFindsTracked` excepts the
latter. `remove` of the null pointer, which only `munmap` of it causes, reads slots up
to an empty one and changes none; it is left out.

Run: `AddressRace` (a race between chunks, full tables, failed allocations, early
reuse). Tables of two and four slots with colliding addresses reach wrap-around,
tombstone reuse, full tables and exhausted probes.

### LiveAllocation

A `PidStacks` is a record: the value and the stack of each address, the keys of
`_unique_stacks`, and the sum and the count of each stack. `Detach` is the code
that `register_allocation` and `register_deallocation` share; the former has
already inserted the new stack when it runs, which is why it must not erase a
stack that is equal to it. One action per handler: a sample makes its process
known and visited, a mapping and a fork only visited, a deallocation neither. A
fork record and an exec forget what was recorded of the process. There is one
watcher that tracks live allocations. A sample of size zero does not occur: the
library reports a multiple of the sampling interval. `StacksCounted` (the count of
a stack is the number of its live addresses) and `LiveProcessKnown` are checked in
the composition below and proved for any instance.

### AllocationTracker and LiveHeap

The library in several processes. A thread inside a hook goes through `add`,
`push_alloc`, `pushed` or `remove`, `push_dealloc`, `pushed`, `ref`; each is one
access to what threads share. `in_use` is the allocator: `free` and `delete` track
and then give the block back, `dallocx` and `sdallocx` the other way round, and
`realloc`, `rallocx` and `xallocx` untrack, call and track what they got. Sampling
is a choice. The set of addresses is abstract (its table is `AddressTable`), and
so is the ring buffer (`MPSCRingBuffer`): a bounded sequence of which the last
`HighPriority` places are for deallocations, with pushes that find it full, time
out, or commit and fail to notify. A fork copies the memory, and until
`notify_fork` has run the child reports under its parent's identifier. The two
stores of `free()` are one step, for the reason given there.

`LiveHeap` adds the worker: it reads the ring buffer, sees other samples,
mappings and fork records at any time, forgets processes and is replaced.
Library and worker cannot agree exactly, so two history variables collect the
causes the code has for a difference, and nothing else may be one: `unreported`
(a deallocation that was lost, an allocation taken back after it was sent, one
that was sent under another identifier, one that a `dallocx` of another thread
removed) and `forgotten` (what the worker dropped with a process or a restart,
the set a forked child inherits, a late deallocation of an address that was given
out again, a sample whose stack has no frames, which `register_allocation` leaves
out). `NoPhantom` and `NoneMissing` hold while deallocations are tracked.
Run: `LiveHeap` with three calls of hooks by the threads of two processes, one address,
samples with and without frames, a ring buffer of two events and stopping after two
errors; three calls
are enough for allocation, free and re-allocation of the address by different
threads, and for a fork between two of them. The two threads of the first
process are symmetric, and only invariants are checked.

### Overrides

An object has one entry of its global offset table, standing for all of them,
which is unresolved, leads to the allocator or leads to the hook; objects are known
by their base address, as `SymbolOverrides` knows them. Program threads call through
the entries, load and unload objects, fork, start and stop profiling; a hook that
has sent an event may find that it is time to look for new libraries and then takes
the tracker's lock and that of the overrides. Buffers carry the number of the start
that made them, so that the use of an old one is seen: `Fault` ends the process.
Assumed of the program: it does not call start and stop concurrently or fork during
them, and does not unload an object whose code is running. Symbol lookup always
finds the reference. The reentry guard is part of the step `Lock`: it is a flag of the
thread itself, taken right after the mutex (`symbol_overrides.cc:943-944`), and no
other thread can tell the two apart. The storage the flag is in, which is created when
a thread first enters a hook, is not modelled.

Run: `Overrides`, with two threads, four objects (the executable, an excluded one
and one that is bound lazily among them), two base addresses, so that an object
returns to the place of another one, and five calls: start, load, allocation, stop
and one that races with them. `CallsReturn` needs the guard against reentry, since
the library's own allocations enter its hooks while it holds the locks. Threads are
weakly fair; calls are bounded, so no lock is contended forever.

### DsoHdr and Mappings

`DsoHdr` has the operations on one process's map: pages are numbers, a map is a set
of mappings, an insertion erases what the new mapping covers and cuts or splits the
rest. `Mappings` puts the processes next to it: they map, unmap, fork, exec, exit
and are sampled; the kernel's events wait in time order and may be lost; /proc is
read one line per step, while the process keeps running, and shows the present
instead of the time of the event at hand. The record of an event and the line of
/proc are conversions with a lemma each (`RecordIsExact`, `LineIsExact`). The ghost
`missed` collects the processes an event was lost of since the last whole read:
`RightFile` makes no promise for those, and `ReadRepairs` says that a read does away
with what was missed.

Run: `Mappings`, with two processes, mappings over three pages that cover, cut and
split each other, four steps of the processes and two pending events. Two processes
are needed for fork and for the reuse of a pid; four steps suffice for an event that
is overtaken by a read of /proc and then by a further change.

### SymbolHdr, Modules and Unwind

`Unwind` follows a sample to the stack of the profile. The walk itself is libdwfl's:
a sample carries the pages the walk would visit, a null address, or a failure. All
the rest is the worker's: per frame the mapping, the file, the module and its bias,
the symbol from one of the lookups, the error frames, the base frame, the frames of
the allocator that are skipped, symbolization with inlined functions into an array
of `kMaxStackDepth`, and the clean-up of a process on exec, fork, cycle, or when its
modules contradict its mappings. What the caches hold is compared with `history`,
the ghost record of what each program of a pid mapped and compiled, and with the
mappings at the time of the sample, which the sample carries. A new mapping cuts or
splits the ones below it, as the kernel does; a process that has ended may be a zombie,
whose /proc file is empty, until it is waited for.

`AddressesCurrent` says that a frame's address in its file is relative to the mapping
that held it, with two exceptions, without which it fails: `Moved`, a file the program
maps at two places, for which the first module is used, and `Shifted`, a mapping that
lost its beginning and kept its offset. A module that is loaded for the sample itself
has only the second one.

Assumed: events are not lost (that is `Mappings`) and /proc is read at once; a file is
mapped from its beginning and its segments over that, as the loader does; attaching
libdwfl to a process succeeds; a program's JIT compiler begins its own file, readable
while it lives. The retry with debug names, the cache of demangled names and the
special case of the profiling library's own file are left out, and so are samples of
pid 0: they are not unwound, but the test for contradicting modules is then made with
what the previous sample left, and frees what is kept for pid 0.

Run: `Unwind`, with two processes, three files (an executable of three pages with a
segment that is mapped again, one that is an executable and a library at two places,
and one that libdwfl refuses), anonymous mappings over the first page of the
executable and over its second one, a page of compiled code that two functions take in
turn, a stack of five places, four steps of the processes and one export cycle;
functions are symmetric. With five steps and fewer mappings (7.8 million states) TLC
finds no error either, in more time. Five places are the fewest that leave room for an
inlined function, an error frame and the base frame, and to fill them.

### Loader, Daemonize, WorkerServer and Startup

`Loader` is the extraction of the embedded library and executable into shared
temporary files by processes that race and die. `Daemonize` is the double fork, with
the pipe and the SIGTERM that releases the intermediate process. `WorkerServer` is
the socket: the kernel's queue of connections, the server thread of the current
worker, which waits at its end for the connections it has accepted, and clients
with a timeout. `Startup` composes them as `main.cc` and `dd_profiling.cc` do, in
four modes: a wrapped program, one that profiles allocations, a library that starts
the profiler from inside its program, and a given pid. Its daemon sets up, listens,
releases the intermediate process, tells the library and runs workers. A stop signals
the worker whose pid was in the reply (`profiler`), waits until it is gone and kills it
at the time limit; the profiler ends with that worker if it was still the current one
and had not asked to be replaced. That another process gets the same pid is left out.

Run: `Startup`, with a program and another one that loads the library, two starts,
two workers and a queue of one connection, every system call failing and every
process dying. Two processes are enough to race for a file and for the only place
in the queue; the second worker serves a client that connected to the first.
Fairness: every process runs on, the sockets' timeouts expire, and a worker that was
sent SIGTERM leaves its loop. A SIGTERM or a crash is not required to happen.

### Watchers and PEvents

`Watchers` computes the list of watchers from a command line and a preset.
`PEvents` opens, maps and enables the events one system call at a time, maps the
buffers again in the forked worker, whose address space has lost the perf mappings
while its `PEventHdr` still holds their addresses, and gives everything back; every
call may fail. An address stands for a range that holds a ring buffer.

Run: `Setup`, with every command line of up to two events and every preset and
target, two processors, a second thread of the profiled process and at most four
events, so that the limit is reached. It checks safety only: each process makes a
bounded number of calls and the run reaches its end or a failure.

## 3. Runs

| Run | Distinct states | Shows |
|---|---|---|
| `MPSC` | 424 thousand | no event is torn, lost or duplicated over laps, kills, hangups and restarts; refinement of `EventChannel`; every event is processed, every push returns |
| `Reorder` | 525 thousand | events of perf ring buffers in time order, all events once, nothing left after a hangup, all processed eventually |
| `ReorderUntimed` | (violation) | section 5 |
| `Supervisor` | 314 thousand | one worker, replacements spaced by `worker_period` exports, a signal ends the profiler |
| `Cycle` | 1.25 million | profiles are not shared between threads, samples are sent once, sequence numbers increase, all is sent |
| `AddressRace` | 1.43 million | a tracked address is found by `remove`, counts match the slots and the null pointers counted |
| `LiveHeap` | 874 thousand | the library's set and the worker's live heap agree up to the losses that are named |
| `Overrides` | 216 thousand | nothing hooked after a stop, buffers outlive it, no deadlock of the two locks |
| `Mappings` | 592 thousand | no overlap, the right file for a sample, a read repairs the map |
| `Unwind` | 836 thousand | names and file addresses of the sampled program, a base frame on each stack, one spoilt sample per inconsistency |
| `Startup` | 369 thousand | whole libraries, a program that runs after the set-up, starts and shutdowns that end |
| `Setup` | 2.7 million | usable watchers, mapped and enabled buffers in the worker, nothing left open |

Deadlock checking is on in `LiveHeap` only: in the others the system may stop (the
profiler exits, the bounded program ends), and what must happen before that is a
liveness property.

## 4. Proofs

What follows is proved for every value of the constants that satisfies the named
assumptions, and without the bounds of the runs mattering.

* **Ring buffer** (`MPSCRingBufferInv` defines the inductive invariant,
  `MPSCRingBufferProofs` proves the types, the arithmetic of positions, the steps of
  the writers and those of the worker, and the theorems).
  `CursorsOrdered`, `HeadersFresh`, `EventsIntact` and `ExactlyOnce` are not
  inductive by themselves. The invariant adds that the records between `reader_pos`
  and `writer_pos` tile that interval, that each of them still has its header in
  memory, that the writer inside the lock has a cached reader position that is at
  most the real one, and that a record's payload is complete once it is no longer
  busy. From it: no writer laps the reader, the reader never interprets stale bytes
  as a header, an event it holds stays intact, none is skipped or processed twice,
  also over restarts, and the ring buffer implements `EventChannel`:
  `ChannelRefined`. `WakeupsNotLost` is about the mode without reordering, and is
  what `UnorderedWoken` checks: `commit_internal` notifies only if it finds
  `reader_pos` at its own event, and still the worker never sleeps over a complete
  event that nobody announces. `WakeInv` has the argument: both read cursors agree
  whenever the worker is not using an event, and an event that is completed at their
  place after a pass took its snapshot has its announcement pending or made, up to
  the moment the worker sleeps.
* **Worker loop** (`EventReorderProofs`). Everything here is proved under `TimedSetups`:
  a profiler that reorders events meets no record whose time `hdr_time` cannot read.
  It is needed, as `ReorderUntimed` shows, and it is the only thing missing there:
  `EventsStayValid` is the property that run refutes. `RingInv` and `QueueInv` say that
  an event in the queue was read and is not released, that a perf ring buffer has one
  of them at most, and that between the push and the pop of a refill the processed
  event is still the top, since the pushed one is not older. `DoneInv` says that the
  events processed are those released, those marked discarded and the one about to be
  advanced over; it gives `ProcessedOnce`. A worker that was replaced may leave events
  marked discarded that its successor has not read again, and
  `mpsc_rb_advance_if_possible` follows such marks: `AheadInv` says that it is never
  called with one ahead of what was read, because the last event read is then too
  recent to be processed in that round. `DrainInv` says what a pass that has found no
  event knows of the ring buffers it has visited: `DrainsAll`. `OrderInv` says that no
  unprocessed event is older than a processed one, and that each ring buffer visited
  in a round has its oldest event in the queue or none that the round may take:
  `ProcessedInOrder`. How far `mpsc_rb_advance_if_possible` gets is
  the least event that is not marked, which exists by `Least`, the one use of
  well-founded induction.
* **Supervisor** (`ProcessProofs`). The invariant says that a worker that was
  not reaped is the child the parent waits for; with it at most one worker is
  alive (`SingleWorkerCorrect`). As long as every worker got to reset the
  shared flags (`~unstarted`), what `restart_worker` and `errors` say is what the
  last worker did, which gives `RespawnsSpaced` and `ErrorsAreReported`, crashes
  included.
* **Set of addresses** (`AddressTableProofs`). `ReachInv` says that a stored address is
  in the table of its chunk, less than `MaxProbe` slots from its home, and that none of
  the slots before it is empty: a slot that was used never becomes empty again, unless
  a null pointer takes the place of a tombstone (`emptied`). `FlowInv` says where a call
  is in its probe sequence, and `SeenInv`, up to then, that the slots it has passed are
  not empty. When addresses are not reused early, `TurnInv` says that one call at a
  time is at an address and `OnceInv` that no address is in two slots, that it is in one
  exactly when it is tracked, up to the call that has changed the slot and not yet
  returned, and that a removal has not passed it; hence `RemoveFinds`. `CountInv` is
  `CountFollows` for every table, also the ones that were not installed: the count is
  that of the stored addresses and of the null pointers ever added, up to the calls
  between their slot and their count. It needs the slots to be fewer than
  `CountModulus`, which stands for 2^64. `SetupsAssumption` takes from the allocator
  that no address is the tombstone's value, one; the null pointer is a value `add` gets.
* **Live allocations** (`LiveHeapProofs`). First the record: `StacksCounted` and
  `LiveProcessKnown` are inductive together with the types. The lemmas about
  `Detach`, `RegisterDeallocation` and `RegisterAllocation` say, by cases on
  whether the address is new, moves to another stack or comes back to its own,
  how the set of addresses of each stack changes, and that its count follows.
  From `IsFiniteSet(Addrs)`, `NoStack \notin Stacks` and `0 \notin Values` only.
  Then the composition. `RecordImplements`: each of its steps is a step of
  `LiveAllocation` or none. `NoPhantomShown` and `NoneIsMissing` are about what the
  worker shows now, and become inductive when they are said of what it will show once
  the ring is read (`Shown`). `PhantomInv` and `MissingInv` say so, taking into account
  what each thread in a hook has entered or taken out and not reported (`Adding`,
  `BeingRemoved`); `HookInv` says which thread has which block, so that no two report
  the same one, and `PidInv` that the worker knows no process that reports under
  another's identifier. `WorkerEffect` is what all the steps of the worker have in
  common, `Turn` what those of a thread do. The bounds on calls and on the size of the
  ring do not matter; `SamplesAssumption` gives the samples their types.
* **Mappings** (`MappingsProofs`). `MappingsNeverOverlap`: the lemmas
  `OutsideRange` to `InsertKeepsApart` show that what an insertion leaves of the old
  mappings are pieces of them that do not touch the new one, so that a map without
  overlaps stays one. The invariant adds the types of pending events, of the reads
  in progress and of the processes' own mappings, from which the inserted ones come.
  `ReadAlwaysRepairs`: while /proc is read and the process leaves its mappings alone,
  the lines already read are in the map, whole, because the lines of one read do not
  overlap and an insertion only takes from what it overlaps (`check_invariants` of
  the mappings at the start is part of `CandidatesAssumption`, and holds of any
  process).
* **Hooks** (`OverridesProofs`). `StoppedNeverHooked`: `EntriesInv` says that a
  hooked object has a record made for it, at its base and with its name, so that the
  restoration reaches it; `PlaceInv` where a thread can be in a call, and that one
  thread at most starts or stops; `PeriodInv` that the overrides exist only from a
  start to its stop, so that a check of the libraries that comes late finds none to
  update. `BuffersOutlive`: `BufferInv` says that a thread holds buffers of a start no
  later than the one the tracker refers to, and that those of the last start are
  mapped if the tracker refers to them.
* **Cycle and export** (`WorkerProofs`). `ProfilesNeverShared`, `SamplesSentOnce`
  and `SequenceNumbersIncrease` rest on one invariant. `ThreadInv` says where the
  worker can be while an export runs, and that the export reads the profile that is
  not being written; `SeqInv` that the numbers sent increase and are behind
  `profile_seq`, with that of a running export between; `FreshInv` that what may
  still be sent was not sent before; `KeptInv` that every sample is in a profile, in
  a running export, was sent, or is one of those in `lost`.
* **Perf events** (`WorkerProofs`). `BuffersAreMapped`: `MapInv` says that the events
  `pevent_mmap` has been at are mapped at their addresses, and claims nothing of the
  addresses the others inherited; a new mapping goes where nothing is, so that it takes
  none of theirs. `EnableInv` says the same of the files that `pevent_enable` has been at.
  `TeardownComplete`: in the profiler whatever is mapped is some event's (`SpaceInv`),
  because an event has no address when it is mapped, also after a failure that undid
  all; `FilesInv` says that every open file is one that `pevent_close_event` closes.
  `AddressesAssumption`: no ring buffer is at `nullptr`.
* **Start** (`ProcessProofs`). `WholeLibraries`: `Backed` says which files must be
  whole given how far a process is in its list, with or without a failure on the way;
  a file appears by a rename, and is whole from then on. `ProfilerReadyFirst`:
  `DaemonizeInv` relates what is in the pipe to how far the profiler is, so that the
  path is read only once it is set up, and says that the intermediate process of a
  wrapper ends only when no profiler is being set up; `AppInv` that a process which
  knows the socket path finds the profiler set up, and that nothing starts another
  one then. `AppsAssumption` asks for a process, the one that starts the profiler.

Model-checked only:

* all liveness: out of the prover's reach;
* the safety of `Unwind`, and `WatchersUsable` of `PEvents`: what the folds over
  frames and `SelectSeq` over the watchers compute would need induction over data;
* `RightFile` of `Mappings`: the invariant it needs says what the pending events will
  make of the map, a recursion over their queue.

## 5. Disagreements and observations

One disagreement is a run that is expected to end in a violation, with an entry
under `findings` that quotes the line.

* `ReorderUntimed`: a record of a type `hdr_time` does not know has time 0 and
  becomes the top of the queue between push and pop, so that pop removes it instead
  of the event that was just processed (`perf_mainloop.cc:300`).

Others were met while modelling. The models contain the behaviour, and where a
property would otherwise fail, its statement names the exception.

* Events of an MPSC ring buffer behind one that is too recent wait with it
  (`perf_mainloop.cc:264`) and may be processed out of order, against the comment
  at 190-201. `InOrder` is stated for perf ring buffers, whose events are ordered.
* `restart_worker` is set before the export (`ddprof_worker.cc:685`): a worker that
  fails in the export preceding its replacement is replaced, against
  `perf_mainloop.cc:103-105`.
* The two exporters count errors separately: the bound is `2 * allowed + 1` in a row.
* `AddressBitset::add` takes the first tombstone (`address_bitset.cc:161`) without
  looking for the address behind it, which may then be in the set twice.
* The null pointer of a failed allocation is added to the set (the hooks do not test
  it, `symbol_overrides.cc:150`), against the assertion at `address_bitset.cc:141`. The
  compare-and-exchange at 163 puts an empty slot in place of an empty one or of a
  tombstone: the count stays too high for good, and an address behind that tombstone
  is no longer found by `remove`, so that its deallocation is not reported.
* `pid_backpopulate` stores the time of the read before it opens /proc
  (`dso_hdr.cc:448`): a read that could not be made counts as made.
* A SIGTERM between `sigaction` (`daemonize.cc:59`) and `waitpid` (`:66`) has no
  effect, against the comment at 63-65: `SignalLost` in `StartReturns`.
* A failed mapping in the worker unmaps the addresses that were inherited from the
  profiler (`pevent_lib.cc:254`), where something else may be by then.
* `ring_buffer_create` does not test its mapping (`ringbuffer_utils.cc:90`).
* The name of the executable that labels samples is never erased: clean-up forgets
  the base frame and not `_exe_name_map` (`base_frame_symbol_lookup.hpp:20-23`), so
  that after an exec, or under a pid that is used again, it is that of the first
  program looked up. `NamesCurrent` is about the other names. A renamed thread keeps
  its old name.
* `adjust_start` (`dso.cc:149`) leaves the file offset of a mapping whose beginning was
  taken away, and `compute_elf_bias` computes the bias of a module from the two:
  addresses in such a mapping are off by what was cut (`Shifted`).
* Modules are kept by file (`dwfl_wrapper.cc:61`): a file that the program maps at
  a second place has frames there with the addresses of the first (`Moved`), until the
  worker frees what it keeps of the process.
* `ddprof_stop_profiling` signals the process of the reply (`dd_profiling.cc:368`,
  `:444`), which is a worker (`perf_mainloop.cc:122`). Once that worker was replaced, or
  if it was being replaced, the profiler goes on after the stop, and a later start
  finds it.
* An error mark on a file is removed at each first attempt (`unwind_dwfl.cc:143`),
  and a location without a function is written without looking for room
  (`symbolizer.cc:106`, `:122`): `BaseFrameLast` is stated for stacks that fit.
* A library loaded at the base of an unloaded one before the next check is taken for
  it and not hooked (`elfutils.cc:594`), against `elfutils.hpp:71`; `restore`
  writes without making pages writable (`elfutils.cc:541`); a fork while another
  thread holds the lock of the overrides leaves it locked in the child (`Orphaned`);
  a second start unmaps the buffers a hook may still be writing to
  (`allocation_tracker.cc:66`, `:161`), hence `BuffersOutliveStop` speaks of the
  buffers of the current session.

## 6. Not modelled

`PROJECT.json` lists every part with its status. Left out entirely:

* parsing and formatting: command line, event syntax (partly generated code), JIT
  files, lines of /proc beyond their meaning, labels and value types of profiles,
  and the conversion for libdatadog. They keep no state between calls; which
  values come out is a choice in the modules that use them;
* clocks: arithmetic on 64-bit cycle counts read from the hardware;
* the logger with its rate limiter, and the internal statistics: a wrong message or
  counter changes nothing else;
* reading a captured stack and capturing registers: bounds arithmetic on one buffer,
  and machine code;
* inspection of the host (capabilities, sysctl, system information): input and output.

Left out of modelled parts:

* `AddressBitset::clear`, which only tests call, and the move operations;
* the counts the tracker's timer reports, the choice of sampling intervals, the
  pthread hooks and the storage of thread-local state;
* `clear_pid_for_watcher`, reached only by an event that nothing sends;
* the choice between variants of libc in the loader, and the reuse of a worker's pid
  while a process still holds it;
* the lookup of symbols in hash tables and dynamic sections, for the hooks;
* weak memory: the atomic operations are modelled as sequentially consistent. The
  orders the code asks for (acquire and release on positions and headers) make the
  accesses of the models visible in the order in which they are modelled.
* the integers: positions, identifiers and counters of 64 bits do not wrap in the
  lifetime of a process.
