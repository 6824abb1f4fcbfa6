------------------------------- MODULE PEvents -------------------------------
(***************************************************************************)
(* The perf events and ring buffers of the profiler: opened, mapped and    *)
(* enabled by the profiler process (ddprof_setup), mapped again by the     *)
(* worker it forks, whose address space lacks the perf mappings, and given *)
(* back.  Every system call may fail.  An address stands for a range that  *)
(* holds a ring buffer.                                                    *)
(***************************************************************************)
EXTENDS Watchers, FiniteSets

CONSTANTS
  CommandLines,               \* the command lines considered
  num_cpu,
  Tids,                       \* threads of the profiled process beside the first
  k_max_nb_perf_event_open,
  Addresses

ASSUME SetupAssumption == num_cpu \in Nat \ {0} /\ k_max_nb_perf_event_open \in Nat

\* No ring buffer is at nullptr, which rb.base is without one.
ASSUME AddressesAssumption == 0 \notin Addresses

VARIABLES
  stage,
  cli,          \* the command line, until it is parsed
  watchers,     \* ctx.watchers
  at,           \* the watcher and the cpu to open next, or the event to map or enable
  pes,          \* PEventHdr: the events created so far
  use_override, \* mapping as another user first
  open,         \* open files: the event, and main, map or the thread they belong to
  enabled,      \* those that count into the ring buffer of their event
  space,        \* what each address is mapped to: an event, something else or nothing
  stomped       \* an address that belonged to something else was unmapped

setupVars == <<stage, cli, watchers, at, pes, use_override, open, enabled, space, stomped>>

NoBase == 0
Unused == <<>>
Other == <<"other">>
FreeAddresses == {a \in Addresses : space[a] = Unused}
Event(k) == <<"event", k>>

SetupInit ==
  /\ stage = "parse" /\ cli \in CommandLines /\ watchers = <<>>
  /\ at = <<1, 0>> /\ pes = <<>> /\ use_override = TRUE
  /\ open = {} /\ enabled = {}
  /\ space = [a \in Addresses |-> Unused] /\ stomped = FALSE

SetupFails == stage' = "exit"

\* context_set and check_incompatible_options
parse_input ==
  /\ stage = "parse"
  /\ cli' = "parsed"
  /\ LET ws == context_add_watchers(cli)
     IN IF Rejected(cli) THEN SetupFails /\ UNCHANGED watchers
        ELSE IF ~check_incompatible_options(cli, ws) THEN SetupFails /\ UNCHANGED watchers
        ELSE stage' = "open" /\ watchers' = ws
  /\ UNCHANGED <<at, pes, use_override, open, enabled, space, stomped>>
-----------------------------------------------------------------------------
(* pevent_open                                                             *)

NewEvent(custom) == [watcher |-> at[1], custom |-> custom,
                     exclude_kernel |-> TRUE, sub_fds |-> {}, base |-> NoBase]

\* pevent_create
TooMany == Len(pes) >= k_max_nb_perf_event_open

Opening == stage = "open" /\ at[1] \in DOMAIN watchers

FirstMapping == IF at[1] = Len(watchers) THEN stage' = "mmap" /\ at' = <<1, 0>>
                ELSE at' = <<at[1] + 1, 0>> /\ UNCHANGED stage

\* all_perf_configs_from_watcher: the attributes tried for cpu 0; the ones that
\* worked are used for the other cpus.
ExcludeKernel(w) ==
  {exclude \in BOOLEAN : /\ w.use_kernel = "off" => exclude
                         /\ w.use_kernel = "required" => ~exclude}

\* pevent_open_all_cpus, for one cpu: a failure for another thread is ignored.
open_cpu ==
  /\ Opening /\ IsPerf(watchers[at[1]]) /\ ~TooMany
  /\ \E sub_fds \in SUBSET Tids, exclude_kernel \in ExcludeKernel(watchers[at[1]]) :
       /\ at[2] > 0 => exclude_kernel = pes[Len(pes)].exclude_kernel
       /\ pes' = Append(pes, [NewEvent(FALSE) EXCEPT !.sub_fds = sub_fds,
                                                    !.exclude_kernel = exclude_kernel])
       /\ open' = open \cup {<<Len(pes'), f>> : f \in {"main"} \cup sub_fds}
  /\ IF at[2] + 1 < num_cpu THEN at' = <<at[1], at[2] + 1>> /\ UNCHANGED stage ELSE FirstMapping
  /\ UNCHANGED <<cli, watchers, use_override, enabled, space, stomped>>

\* A memory file and an event file; the metadata page is mapped, initialised and
\* unmapped.  The code does not test that mapping it worked before it writes there.
ring_buffer_create ==
  /\ Opening /\ IsCustom(watchers[at[1]]) /\ ~TooMany
  /\ pes' = Append(pes, NewEvent(TRUE))
  /\ open' = open \cup {<<Len(pes'), f>> : f \in {"main", "map"}}
  /\ FirstMapping \/ (stage' = "segv" /\ UNCHANGED at)
  /\ UNCHANGED <<cli, watchers, use_override, enabled, space, stomped>>

open_fails ==
  /\ Opening
  /\ SetupFails
  /\ UNCHANGED <<cli, watchers, at, pes, use_override, open, enabled, space, stomped>>
-----------------------------------------------------------------------------
(* pevent_mmap, in the profiler and in the worker                          *)

Mapping == stage \in {"mmap", "worker_mmap"}
evt == at[1]

MutantPeventMmapEvent ==   \* takes an event that has an address for mapped
  /\ Mapping /\ evt \in DOMAIN pes
  /\ \E a \in FreeAddresses :
       /\ pes' = [pes EXCEPT ![evt].base = IF @ = NoBase THEN a ELSE @]
       /\ space' = IF pes[evt].base = NoBase THEN [space EXCEPT ![a] = Event(evt)] ELSE space
  /\ at' = <<evt + 1, 0>>
  /\ UNCHANGED <<stage, cli, watchers, use_override, open, enabled, stomped>>

\* The addresses a mapping may get; perf buffers may be mapped once or mirrored,
\* the others mirrored.
perfown_sz == FreeAddresses

\* With rb_init.
pevent_mmap_event ==
  /\ Mapping /\ evt \in DOMAIN pes
  /\ \E a \in perfown_sz :
       /\ pes' = [pes EXCEPT ![evt].base = a]
       /\ space' = [space EXCEPT ![a] = Event(evt)]
  /\ at' = <<evt + 1, 0>>
  /\ UNCHANGED <<stage, cli, watchers, use_override, open, enabled, stomped>>

perfdisown(as) ==
  /\ space' = [a \in Addresses |-> IF a \in as THEN Unused ELSE space[a]]
  /\ stomped' = (stomped \/ \E a \in as : space[a] = Other)

\* Every event that has an address.
pevent_munmap == perfdisown({pes[i].base : i \in DOMAIN pes} \ {NoBase})

Unmapped == [i \in DOMAIN pes |-> [pes[i] EXCEPT !.base = NoBase]]

\* A mapping fails: all are undone, and pevent_setup and worker_library_init try
\* again as the user the process runs as.
mmap_fails ==
  /\ Mapping /\ evt \in DOMAIN pes
  /\ pevent_munmap /\ pes' = Unmapped
  /\ use_override' = FALSE
  /\ IF use_override THEN at' = <<1, 0>> /\ UNCHANGED stage ELSE SetupFails /\ UNCHANGED at
  /\ UNCHANGED <<cli, watchers, open, enabled>>

\* The user cannot be changed: nothing to undo.
override_fails ==
  /\ Mapping /\ evt = 1 /\ use_override
  /\ use_override' = FALSE
  /\ UNCHANGED <<stage, cli, watchers, at, pes, open, enabled, space, stomped>>

mapped ==
  /\ Mapping /\ evt > Len(pes)
  /\ stage' = IF stage = "mmap" THEN "enable" ELSE "loop"
  /\ at' = <<1, 0>>
  /\ UNCHANGED <<cli, watchers, pes, use_override, open, enabled, space, stomped>>

\* pevent_enable: the other threads' events are sent to the buffer of the first.
pevent_enable ==
  /\ stage = "enable"
  /\ IF evt > Len(pes) THEN stage' = "running" /\ UNCHANGED <<at, enabled>>
     ELSE \/ /\ at' = <<evt + 1, 0>>
             /\ enabled' = IF pes[evt].custom THEN enabled ELSE enabled \cup {f \in open : f[1] = evt}
             /\ UNCHANGED stage
          \/ ~pes[evt].custom /\ SetupFails /\ UNCHANGED <<at, enabled>>
  /\ UNCHANGED <<cli, watchers, pes, use_override, open, space, stomped>>
-----------------------------------------------------------------------------
(* The worker, a copy of the profiler process                              *)

\* The kernel does not copy perf mappings; PEventHdr is copied as it is.
fork_worker ==
  /\ stage = "running"
  /\ stage' = "worker_mmap" /\ at' = <<1, 0>> /\ use_override' = TRUE
  /\ space' = [a \in Addresses |->
       IF \E i \in DOMAIN pes : space[a] = Event(i) /\ ~pes[i].custom THEN Unused ELSE space[a]]
  /\ UNCHANGED <<cli, watchers, pes, open, enabled, stomped>>

\* The worker's other memory, such as the unwinding state it makes first.
mmap_other ==
  /\ stage = "worker_mmap" /\ \A a \in Addresses : space[a] # Other
  /\ \E a \in FreeAddresses : space' = [space EXCEPT ![a] = Other]
  /\ UNCHANGED <<stage, cli, watchers, at, pes, use_override, open, enabled, stomped>>

\* worker_library_free; the worker ends.
worker_free ==
  /\ stage = "loop"
  /\ pevent_munmap /\ pes' = Unmapped /\ stage' = "worker_exit"
  /\ UNCHANGED <<cli, watchers, at, use_override, open, enabled>>
-----------------------------------------------------------------------------
(* ddprof_teardown, in the profiler                                        *)

MutantPeventCloseEvent(i) ==   \* leaves the memory file of a custom event open
  {<<i, f>> : f \in {"main"} \cup pes[i].sub_fds}

\* pevent_close_event
pevent_close_event(i) ==
  {<<i, f>> : f \in {"main"} \cup pes[i].sub_fds \cup {m \in {"map"} : pes[i].custom}}

pevent_cleanup ==
  /\ stage = "running"
  /\ pevent_munmap
  /\ open' = open \ UNION {pevent_close_event(i) : i \in DOMAIN pes}
  /\ enabled' = enabled \cap open'
  /\ pes' = <<>> /\ stage' = "torn_down"
  /\ UNCHANGED <<cli, watchers, at, use_override>>

SetupNext ==
  \/ parse_input \/ open_cpu \/ ring_buffer_create \/ open_fails
  \/ pevent_mmap_event \/ mmap_fails \/ override_fails \/ mapped \/ pevent_enable
  \/ fork_worker \/ mmap_other \/ worker_free \/ pevent_cleanup

SetupSpec == SetupInit /\ [][SetupNext]_setupVars
-----------------------------------------------------------------------------
(* Properties                                                              *)

\* Every command line that is accepted gives watchers the profiler can use
\* (context_add_watchers): a perf watcher, for the mmap events; perf watchers before
\* the others, which depend on their events; and no event twice but for tracepoints,
\* also when events and a preset are given together.
WatchersUsable ==
  stage \notin {"parse", "exit"} =>
    /\ IsPerf(watchers[1])
    /\ \A i, j \in DOMAIN watchers : i < j =>
         /\ IsPerf(watchers[j]) => IsPerf(watchers[i])
         /\ watchers[i].event = watchers[j].event => watchers[i].event = "tracepoint"

\* A worker reads ring buffers that are mapped in its own address space, each of them
\* at an address of its own, whatever addresses it inherited and however often
\* mapping had to be tried; and all events but the custom ones are enabled.
WorkerReadsItsBuffers ==
  stage = "loop" =>
    /\ \A i \in DOMAIN pes : pes[i].base # NoBase /\ space[pes[i].base] = Event(i)
    /\ \A f \in open : f \in enabled \/ pes[f[1]].custom

\* The profiler gives back all files and mappings (ddprof_teardown).
NothingLeft == stage = "torn_down" => open = {} /\ FreeAddresses = Addresses

=============================================================================
