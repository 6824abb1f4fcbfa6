------------------------------ MODULE Watchers ------------------------------
(***************************************************************************)
(* From the events and the preset of the command line to the watchers of   *)
(* the profiler.  An event is given by its name, and for a tracepoint a    *)
(* group and an id; what else the event grammar lets one say of an event   *)
(* (cadence, value, scale, label) is copied and left out.                  *)
(***************************************************************************)
EXTENDS Naturals, Sequences

\* EVENT_CONFIG_TABLE, one event of each sort: a hardware and a software one, the
\* one that is sampled with the kernel if possible, the dummy and the allocations.
EventTable ==
  [hCPU   |-> [type |-> "perf", use_kernel |-> "off"],
   sPF    |-> [type |-> "perf", use_kernel |-> "required"],
   sCPU   |-> [type |-> "perf", use_kernel |-> "try"],
   sDUM   |-> [type |-> "perf", use_kernel |-> "off"],
   sALLOC |-> [type |-> "custom", use_kernel |-> "off"]]

Watcher(event, mode) ==
  [event |-> event, type |-> EventTable[event].type, use_kernel |-> EventTable[event].use_kernel,
   mode |-> mode]

tracepoint_default_watcher(mode) ==
  [event |-> "tracepoint", type |-> "perf", use_kernel |-> "required", mode |-> mode]

\* watcher_from_config: a known name, or a tracepoint whose id is given or found.
ValidConf(conf) == conf.name \in DOMAIN EventTable \/ (conf.group /\ conf.id # "unknown")

watcher_from_config(conf) ==
  IF conf.name \in DOMAIN EventTable THEN Watcher(conf.name, conf.mode)
                                     ELSE tracepoint_default_watcher(conf.mode)

\* add_watchers_from_events
watchers_from_str(confs) == [i \in DOMAIN confs |-> watcher_from_config(confs[i])]

find_duplicate_event(watchers) ==
  \E i, j \in DOMAIN watchers :
    i < j /\ watchers[i].event = watchers[j].event /\ watchers[j].event # "tracepoint"

presets ==
  [default         |-> <<Watcher("sCPU", "sum"), Watcher("sALLOC", "sum")>>,
   default_pid     |-> <<Watcher("sCPU", "sum")>>,
   cpu_only        |-> <<Watcher("sCPU", "sum")>>,
   alloc_only      |-> <<Watcher("sALLOC", "sum")>>,
   alloc_live_heap |-> <<Watcher("sALLOC", "live")>>,
   cpu_live_heap   |-> <<Watcher("sCPU", "sum"), Watcher("sALLOC", "live")>>]

\* The events of the command line win over those of the preset.
add_preset(preset, pid_or_global_mode, watchers) ==
  LET name == IF preset = "default" /\ pid_or_global_mode THEN "default_pid" ELSE preset
      New(w) == \A i \in DOMAIN watchers : watchers[i].event # w.event
  IN watchers \o SelectSeq(presets[name], New)

IsPerf(w) == w.type = "perf"
IsCustom(w) == w.type = "custom"

\* Without a perf watcher there would be no mmap events.
AddDummy(watchers) ==
  IF \E i \in DOMAIN watchers : IsPerf(watchers[i]) THEN watchers
  ELSE Append(watchers, Watcher("sDUM", "sum"))

MutantOrderWatchers(watchers) == watchers   \* not sorted

\* A stable sort, perf watchers first.
order_watchers(watchers) == SelectSeq(watchers, IsPerf) \o SelectSeq(watchers, IsCustom)

\* The command line: events, preset ("" if none), whether a pid or all processes are
\* to be profiled, and whether a library started the profiler.
pid_or_global_mode(cli) == cli.pid /\ ~cli.pipefd_to_library

Rejected(cli) ==
  \/ \E i \in DOMAIN cli.events : ~ValidConf(cli.events[i])
  \/ find_duplicate_event(watchers_from_str(cli.events))
  \/ cli.preset \notin {""} \cup DOMAIN presets

context_add_watchers(cli) ==
  LET given == watchers_from_str(cli.events)
      preset == IF cli.preset = "" /\ given = <<>> THEN "default" ELSE cli.preset
      all == IF preset = "" THEN given ELSE add_preset(preset, pid_or_global_mode(cli), given)
  IN order_watchers(AddDummy(all))

context_allocation_profiling_watcher_idx(watchers) ==
  {i \in DOMAIN watchers : watchers[i].type = "custom" /\ watchers[i].event = "sALLOC"}

check_incompatible_options(cli, watchers) ==
  ~(context_allocation_profiling_watcher_idx(watchers) # {} /\ pid_or_global_mode(cli))
=============================================================================
