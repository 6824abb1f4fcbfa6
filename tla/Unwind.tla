------------------------------- MODULE Unwind -------------------------------
(***************************************************************************)
(* From a sample to the stack of a profile.  Processes run programs, map   *)
(* files, compile code of their own, fork, exec and exit, and are sampled; *)
(* the worker turns each sample into frames with what it keeps about the   *)
(* process: mappings, files, modules of the unwinder, names.  All of it is *)
(* filled when first needed, from a /proc that shows the present and not   *)
(* the time of the sample, and freed when an event says the process is     *)
(* another one now, or when the modules contradict the mappings.           *)
(*                                                                         *)
(* An address is a page.  A program is known by the number of programs its *)
(* pid has run.  A sample is a walk: the pages the unwinder would visit, 0 *)
(* where it ends on a null address, -1 where it cannot compute one.        *)
(***************************************************************************)
EXTENDS Modules

CONSTANTS
  Pids, First,
  Loaded,           \* the mappings of First when the profiler attaches to it
  Exes,             \* the mapping of the executable of a program
  Candidates,       \* the other mappings programs make
  JitRecords,       \* what the JIT compiler of a program writes to its file
  Walks,            \* [pcs, broken, skip]: pages, unwinder in error, frames skipped
  Inlined,          \* inlined functions the symbolizer finds at an address of a file
  Unnamed,          \* files whose only symbol is at address 0
  Roots,            \* files whose functions are expected at the root of a stack, and ld.so
  kMaxStackDepth,
  maximum_pids,
  MaxTime, MaxPending, MaxCycles   \* bounds: steps of processes, waiting events, cycles

ASSUME WorldAssumption ==
  /\ First \in Pids
  /\ Inlined \in [Files -> Nat] /\ Unnamed \subseteq Files /\ Roots \subseteq Files
  /\ kMaxStackDepth \in Nat /\ kMaxStackDepth >= 3
  /\ maximum_pids \in Nat /\ MaxTime \in Nat /\ MaxPending \in Nat /\ MaxCycles \in Nat

VARIABLES
  vmas,      \* the mappings of each process; none: the process does not run
  zombies,   \* processes that have ended and were not waited for
  program,   \* how many programs ran under the pid
  jit,       \* the records in the file of its JIT compiler
  history,   \* ghost: what the programs of the pid mapped and compiled
  parent,    \* ghost: the process whose program a process still runs
  late,      \* ghost: what that one mapped between the fork and its event
  now, events,
  us,        \* struct UnwindState and the symbolizer of the worker
  last,      \* the last sample processed
  steady     \* ghost: nothing changed since the last inconsistent sample

vars == <<vmas, zombies, program, jit, history, parent, late, now, events, us, last, steady>>

processes == <<vmas, zombies, program, jit, history, parent, now>>

alive == {p \in Pids : vmas[p] # {}}

NewUnwindState ==
  [pid_map |-> [p \in Pids |-> NewPidMapping], file_infos |-> <<>>, process |-> Empty,
   visited |-> {}, symbol_hdr |-> NewSymbolHdr, symbolizer |-> Empty]

NoSample == [pid |-> First]

\* Where the file of a mapping begins: its true bias.
At(m) == m.start - m.offset

Mapped(n, m) == [program |-> n, what |-> m.file, at |-> At(m), cut |-> FALSE]

Init ==
  /\ vmas = [p \in Pids |-> IF p = First THEN Loaded ELSE {}]
  /\ zombies = {}
  /\ program = [p \in Pids |-> IF p = First THEN 1 ELSE 0]
  /\ jit = [p \in Pids |-> <<>>]
  /\ history = [p \in Pids |-> {Mapped(1, m) : m \in vmas[p]}]
  /\ parent = [p \in Pids |-> {}] /\ late = [p \in Pids |-> {}]
  /\ now = 0 /\ events = <<>>
  /\ us = NewUnwindState /\ last = NoSample
  /\ steady = [p \in Pids |-> FALSE]
-----------------------------------------------------------------------------
(* The processes and the kernel                                            *)

Tick == now < MaxTime /\ now' = now + 1

EmitTo(queue, new) == Len(queue) + Len(new) <= MaxPending /\ events' = queue \o new

Emit(new) == EmitTo(events, new)

Event(kind, p) == [kind |-> kind, pid |-> p, time |-> now + 1]

MmapEvent(p, m) == [kind |-> "mmap", pid |-> p, time |-> now + 1, map |-> m]

\* A pending sample of p, and a pending fork of p, may see what p maps later.
Seen(m, p) ==
  [i \in DOMAIN events |->
     CASE events[i].kind = "sample" /\ events[i].pid = p -> [events[i] EXCEPT !.maps = @ \cup {m}]
       [] events[i].kind = "fork" /\ events[i].ppid = p -> [events[i] EXCEPT !.late = @ \cup {m}]
       [] OTHER -> events[i]]

\* The files of p whose mapping loses its beginning or is split by m.
CutBy(m, p) ==
  {[Mapped(program[p], v) EXCEPT !.cut = TRUE] :
     v \in {w \in vmas[p] : w.file \in Files /\ Overlap(w, m) /\ m.end < w.end}}

\* The dynamic loader maps a file from its beginning, then segments over it.
Mmap(p) == \E m \in Candidates :
  /\ p \in alive /\ m \notin vmas[p]
  /\ m.offset > 0 => \E v \in vmas[p] : v.file = m.file /\ At(v) = At(m)
  /\ Tick /\ EmitTo(Seen(m, p), <<MmapEvent(p, m)>>)
  /\ vmas' = [vmas EXCEPT ![p] = Carved(@, m) \cup {m}]
  /\ history' = [history EXCEPT ![p] = @ \cup {Mapped(program[p], m)} \cup CutBy(m, p)]
  /\ steady' = [steady EXCEPT ![p] = FALSE]
  /\ UNCHANGED <<zombies, program, jit, parent, late, us, last>>

\* A program that compiles code begins a file of its own.
Compile(p) == \E r \in JitRecords :
  /\ p \in alive
  /\ Tick
  /\ jit' = [jit EXCEPT ![p] = Append(@, r)]
  /\ history' = [history EXCEPT ![p] =
                   @ \cup {[program |-> program[p], what |-> r.name, at |-> r.addr, cut |-> FALSE]}]
  /\ UNCHANGED <<vmas, zombies, program, parent, late, events, us, last, steady>>

\* The kernel reports the new program before its mapping.
Exec(p) == \E exe \in Exes :
  /\ p \in alive
  /\ Tick /\ EmitTo(Seen(exe, p), <<Event("exec", p), MmapEvent(p, exe)>>)
  /\ vmas' = [vmas EXCEPT ![p] = {exe}]
  /\ program' = [program EXCEPT ![p] = @ + 1]
  /\ jit' = [jit EXCEPT ![p] = <<>>]
  /\ history' = [history EXCEPT ![p] = @ \cup {Mapped(program[p] + 1, exe)}]
  /\ parent' = [parent EXCEPT ![p] = {}]
  /\ steady' = [steady EXCEPT ![p] = FALSE]
  /\ UNCHANGED <<zombies, late, us, last>>

\* A pid is not used again while events of its last process wait.
Fork(p) == \E c \in Pids \ (alive \cup zombies) :
  /\ p \in alive
  /\ \A i \in DOMAIN events : events[i].pid # c
  /\ Tick /\ Emit(<<[kind |-> "fork", pid |-> c, time |-> now + 1, ppid |-> p, late |-> {}]>>)
  /\ vmas' = [vmas EXCEPT ![c] = vmas[p]]
  /\ program' = [program EXCEPT ![c] = @ + 1]
  /\ jit' = [jit EXCEPT ![c] = <<>>]
  /\ history' = [history EXCEPT ![c] =
                   @ \cup {Mapped(program[c] + 1, m) : m \in vmas[p]}
                     \cup {[h EXCEPT !.program = program[c] + 1] :
                             h \in {g \in history[p] : g.cut /\ g.program = program[p]}}]
  /\ parent' = [parent EXCEPT ![c] = {p}]
  /\ steady' = [steady EXCEPT ![c] = FALSE]
  /\ UNCHANGED <<zombies, late, us, last>>

\* Until it is waited for, a process that ended has a directory in /proc.
Exit(p) == \E left \in SUBSET {p} :
  /\ p \in alive
  /\ Tick
  /\ vmas' = [vmas EXCEPT ![p] = {}]
  /\ zombies' = zombies \cup left
  /\ UNCHANGED <<program, jit, history, parent, late, events, us, last, steady>>

WaitFor(p) ==
  /\ p \in zombies
  /\ zombies' = zombies \ {p}
  /\ UNCHANGED <<vmas, program, jit, history, parent, late, now, events, us, last, steady>>

\* The code that runs is mapped and executable; what the walk reads from the
\* stack after it may be anything.
Sample(p) == \E w \in Walks :
  /\ \E v \in vmas[p] : v.prot_exec /\ is_within(v, w.pcs[1])
  /\ Tick
  /\ Emit(<<[kind |-> "sample", pid |-> p, time |-> now + 1, walk |-> w,
             program |-> program[p], kin |-> parent[p], maps |-> vmas[p]]>>)
  /\ UNCHANGED <<vmas, zombies, program, jit, history, parent, late, us, last, steady>>
-----------------------------------------------------------------------------
(* Frames                                                                  *)

\* Unwinding works on the worker's state u and the frames found so far.
Unwinding(u) == [us |-> u, locs |-> <<>>, stop |-> FALSE]

MutantIsMaxStackDepthReached(locs) == Len(locs) + 1 >= kMaxStackDepth   \* no room for the base frame

is_max_stack_depth_reached(locs) == Len(locs) + 2 >= kMaxStackDepth

add_frame(st, loc) ==
  IF Len(st.locs) >= kMaxStackDepth THEN st ELSE [st EXCEPT !.locs = Append(@, loc)]

\* A frame that is already a symbol, from a lookup that returned r.
AddSymbolFrame(st, r, pc) ==
  add_frame([st EXCEPT !.us.symbol_hdr = r.hdr],
            [ip |-> pc, elf_addr |-> 0, file |-> k_file_info_undef, sym |-> r.idx])

add_common_frame(st, lookup_case) ==
  AddSymbolFrame(st, CommonSymbol(st.us.symbol_hdr, lookup_case), 0)

add_dso_frame(st, dso, addr) == AddSymbolFrame(st, DsoSymbol(st.us.symbol_hdr, addr, dso), 0)

\* The lines of /proc/<pid>/maps; no line, or no file, once the process ended.
proc_maps(p) ==
  [i \in 1..Cardinality(vmas[p]) |->
     CHOOSE v \in vmas[p] : Cardinality({w \in vmas[p] : w.start < v.start}) = i - 1]

\* The file of a mapping is not looked up yet.
NewDso(m) == m @@ [id |-> k_file_info_undef]

\* The read adds mappings: it is allowed, and the process runs.
Backpopulates(u, p) == u.pid_map[p].perm = "kAllowed" /\ p \in alive

\* pid_backpopulate, with /proc read at once.  An empty file is not read again.
pid_backpopulate(u, p) ==
  LET pm    == [u.pid_map[p] EXCEPT !.nb_unfound_dsos = @ + 1]
      timed == [pm EXCEPT !.last_backpopulate_time = now + 1,
                          !.perm = IF p \in zombies THEN "kForbidden" ELSE @]
  IN [u EXCEPT !.pid_map[p] =
        IF pm.perm # "kAllowed" THEN pm
        ELSE FoldLeft(LAMBDA acc, m : Insert(acc, NewDso(m)), timed, proc_maps(p))]

dso_find_or_backpopulate(u, p, pc) ==
  IF Unknown(u.pid_map[p], pc) THEN pid_backpopulate(u, p) ELSE u

has_runtime_symbols(dso) == determine_dso_type(dso.file) = "kAnon" /\ dso.prot_exec

\* The marker a JIT compiler maps decides which of its files is read.
add_runtime_symbol_frame(st, p, dso, pc) ==
  LET pm    == st.us.pid_map[p]
      path  == IF pm.jitdump_addr # 0 /\ dso_find_closest(pm.map, pm.jitdump_addr) # {}
                 THEN "jitdump" ELSE "perfmap"
      file  == IF p \in alive THEN jit[p] ELSE <<>>
      r     == RuntimeSymbol(st.us.symbol_hdr, p, pc, path, file)
      named == [r EXCEPT !.hdr = MapInfo(r.hdr, p, dso)]
  IN IF r.idx = k_symbol_idx_null
       THEN add_dso_frame([st EXCEPT !.us.symbol_hdr = r.hdr], dso, pc)
       ELSE AddSymbolFrame(st, named, pc)

\* register_mod for a mapping whose file has no module yet; failing marks the file.
RegisterMod(u, p, dso, id, mod) ==
  [us |-> [u EXCEPT !.process[p].dwfl = mod.dwfl,
                    !.file_infos[id].errored = @ \/ mod.status = "set_errored"],
   kind |-> IF mod.status = "ok" THEN "module" ELSE "failed", dso |-> dso, id |-> id]

\* The module of a mapping, whose file was looked up (info).
GetOrInsertMod(u, p, pc, dso, info) ==
  LET kept == [u EXCEPT !.file_infos = info.infos,
                        !.pid_map[p].map = (@ \ {dso}) \cup {[dso EXCEPT !.id = info.id]}]
      dwfl == u.process[p].dwfl
  IN IF info.id <= k_file_info_error THEN [us |-> kept, kind |-> "no file", dso |-> dso]
     ELSE IF info.id \in DOMAIN dwfl.mods
       THEN [us |-> kept, kind |-> "module", dso |-> dso, id |-> info.id]
     ELSE RegisterMod(kept, p, dso, info.id,
                      register_mod(dwfl, pc, dso, info.id, info.infos[info.id], alive))

InMapping(u, p, pc, dso) ==
  IF has_runtime_symbols(dso) THEN [us |-> u, kind |-> "runtime", dso |-> dso]
  ELSE GetOrInsertMod(u, p, pc, dso, get_or_insert_file_info(u.file_infos, dso, p, alive))

Search(u, p, pc) ==
  LET found == IF pc < k_zero_page_limit THEN {} ELSE dso_find_closest(u.pid_map[p].map, pc)
  IN IF found = {} THEN [us |-> u, kind |-> "unmapped"]
     ELSE InMapping(u, p, pc, CHOOSE d \in found : TRUE)

\* One attempt of add_symbol to find the module of an address.
Attempt(u, p, pc) == Search(dso_find_or_backpopulate(u, p, pc), p, pc)

\* After a failure /proc is read again, the mark on the file removed, and the
\* module looked for once more.
Retry(first, again, p, pc) ==
  IF Backpopulates(first.us, p)
    THEN Attempt([again EXCEPT !.file_infos[first.id].errored = FALSE], p, pc)
    ELSE [first EXCEPT !.us = again]

OrRetry(first, p, pc) ==
  IF first.kind = "failed" THEN Retry(first, pid_backpopulate(first.us, p), p, pc) ELSE first

\* add_unsymbolized_frame.
AddFileFrame(st, p, r, pc) ==
  add_frame([st EXCEPT !.us.symbol_hdr = MapInfo(@, p, r.dso)],
            [ip |-> pc, elf_addr |-> pc - r.us.process[p].dwfl.mods[r.id], file |-> r.id,
             sym |-> k_symbol_idx_null])

\* The frame for what the attempts led to.
AddFrameOf(st, p, r, pc) ==
  CASE r.kind = "unmapped" -> add_common_frame(st, "unknown_mapping")
    [] r.kind = "runtime"  -> add_runtime_symbol_frame(st, p, r.dso, pc)
    [] r.kind = "no file"  -> add_dso_frame(st, r.dso, pc)
    [] r.kind = "module"   -> AddFileFrame(st, p, r, pc)
    [] r.kind = "failed"   -> [st EXCEPT !.stop = TRUE]

AddFound(st, p, r, pc) == AddFrameOf([st EXCEPT !.us = r.us], p, r, pc)

add_symbol(st, p, pc) ==
  IF is_max_stack_depth_reached(st.locs)
    THEN [add_common_frame(st, "truncated_stack") EXCEPT !.stop = TRUE]
  ELSE CASE pc = -1 -> add_common_frame(st, "unwind_failure")
         [] pc = 0  -> st
         [] pc > 0  -> AddFound(st, p, OrRetry(Attempt(st.us, p, pc), p, pc), pc)

is_infinite_loop(locs) ==
  LET n == Len(locs)
  IN n > 3 /\ locs[n].ip = locs[n - 1].ip /\ locs[n - 1].ip = locs[n - 2].ip

frame_cb(st, p, pc, broken) ==
  IF st.stop THEN st
  ELSE IF broken /\ is_infinite_loop(st.locs) THEN [st EXCEPT !.stop = TRUE]
  ELSE add_symbol(st, p, pc)
-----------------------------------------------------------------------------
(* The stack of a sample                                                   *)

NewProcess == [dwfl |-> NewDwfl, container_id |-> -1, thread_name |-> -1]

\* ProcessHdr::get.
get(u, p) == [u EXCEPT !.process = InsertKey(@, p, NewProcess), !.visited = @ \cup {p}]

\* /proc/<pid>/task/<tid>/comm and /proc/<pid>/cgroup are read once; what was
\* read is the number of the program found there, 0 when there was none.
ReadOnce(value, p) ==
  IF value # -1 THEN value ELSE IF p \in alive \cup zombies THEN program[p] ELSE 0

\* An error frame in place of none.
NoFrames(st, p, pc) ==
  LET closest == dso_find_closest(st.us.pid_map[p].map, pc)
  IN IF closest # {} THEN add_dso_frame(st, CHOOSE d \in closest : TRUE, 0)
     ELSE add_common_frame(st, "unknown_mapping")

SomeFrames(st, p, pc) == IF st.locs # <<>> THEN st ELSE NoFrames(st, p, pc)

\* No module is loaded for further processes when there are too many.
unwind_dwfl(u, p, walk) ==
  IF Cardinality(DOMAIN u.process) > maximum_pids /\ ~u.process[p].dwfl.attached
    THEN add_common_frame(Unwinding(u), "max_pids")
    ELSE SomeFrames(FoldLeft(LAMBDA st, pc : frame_cb(st, p, pc, walk.broken),
                             Unwinding([u EXCEPT !.process[p].dwfl.attached = TRUE]), walk.pcs),
                    p, walk.pcs[1])

\* The executable of the program that runs now.
ExeLink(p) ==
  IF p \notin alive THEN Anon
  ELSE (CHOOSE v \in vmas[p] : \A w \in vmas[p] : v.start <= w.start).file

add_virtual_base_frame(st, p) ==
  AddSymbolFrame(st, BaseFrameSymbol(st.us.symbol_hdr, p, st.us.pid_map[p].map, ExeLink(p)), 0)

unwindstate_unwind(u, p, walk) ==
  LET st == add_virtual_base_frame(unwind_dwfl(get(u, p), p, walk), p)
  IN [st EXCEPT !.us.process[p].container_id = ReadOnce(@, p),
                !.us.process[p].thread_name = ReadOnce(@, p)]
-----------------------------------------------------------------------------
(* The locations of the profile                                            *)

\* Skip the frames of the allocator, but keep the base frame.
adjust_locations(locs, skip) ==
  IF skip < Len(locs) THEN SubSeq(locs, skip + 1, Len(locs))
  ELSE IF Len(locs) >= 2 THEN <<locs[Len(locs)]>> ELSE locs

\* The symbolizer of a file reads it from the path it had at first use.
get_symbolizer(symbolizer, id, path) ==
  InsertKey(symbolizer, id, [path |-> path, visited |-> TRUE, opened |-> FALSE])

\* Locations are names; the array they are written to has kMaxStackDepth places.
NoSym == <<"">>

\* write_location_blaze: as many inlined functions as fit, then the function.
WriteBlaze(acc, loc, file) ==
  LET room    == kMaxStackDepth - Len(acc.out)
      inlined == [i \in 1..(IF Inlined[file] < room THEN Inlined[file] ELSE room) |-> <<"inlined", file>>]
      fits    == Inlined[file] < room
  IN [acc EXCEPT !.out = @ \o inlined \o (IF fits THEN <<<<"function", file>>>> ELSE <<>>),
                 !.stop = ~fits]

\* A location of a file, in process_symbolization and symbolize_pprof.  The room
\* left is tested before a run of locations of one file, and before each
\* function; not before a location without a function.
WriteLocation(acc, locs, i, u) ==
  LET loc    == locs[i]
      info   == u.file_infos[loc.file]
      begins == i = 1 \/ locs[i - 1].file # loc.file \/ loc.sym # k_symbol_idx_null
      syms   == get_symbolizer(acc.symbolizer, loc.file, info.path)
      opened == syms[loc.file].opened \/ Readable(syms[loc.file].path, alive)
      next   == [acc EXCEPT !.symbolizer = [syms EXCEPT ![loc.file].opened = opened]]
  IN CASE acc.stop \/ (begins /\ Len(acc.out) >= kMaxStackDepth) -> [acc EXCEPT !.stop = TRUE]
       [] ~acc.stop /\ ~(begins /\ Len(acc.out) >= kMaxStackDepth) ->
            IF loc.sym # k_symbol_idx_null
              THEN [acc EXCEPT !.out = Append(@, u.symbol_hdr.symbol_table[loc.sym])]
            ELSE IF opened /\ info.file \notin Unnamed THEN WriteBlaze(next, loc, info.file)
            ELSE [next EXCEPT !.out = Append(@, NoSym)]

\* The symbol of a mapping without a path has an empty name too.
is_stack_complete(out) ==
  LET root == out[Len(out)]
  IN \/ root \in {NoSym, <<"kAnon">>, <<"kJITDump">>}
     \/ root[1] \in {"inlined", "function"} /\ root[2] \in Roots

\* The mark of a stack that does not reach a root, and the base frame.
Complete(out, base) ==
  LET cut    == Len(out) < kMaxStackDepth - 1 /\ Len(out) >= 1 /\ ~is_stack_complete(out)
      marked == IF cut THEN Append(out, <<"incomplete_stack">>) ELSE out
  IN IF Len(marked) < kMaxStackDepth THEN Append(marked, base) ELSE marked

Symbolized(u, acc, base) ==
  [us |-> [u EXCEPT !.symbolizer = acc.symbolizer], out |-> Complete(acc.out, base)]

process_symbolization(u, locs) ==
  Symbolized(u,
             FoldLeft(LAMBDA acc, i : WriteLocation(acc, locs, i, u),
                      [out |-> <<>>, stop |-> FALSE, symbolizer |-> u.symbolizer],
                      [i \in 1..(Len(locs) - 1) |-> i]),
             u.symbol_hdr.symbol_table[locs[Len(locs)].sym])
-----------------------------------------------------------------------------
(* The worker                                                              *)

MutantUnwindPidFree(u, p) ==   \* the unwinder of the process is kept
  [u EXCEPT !.pid_map[p] = NewPidMapping, !.symbol_hdr = clear(@, p)]

unwind_pid_free(u, p) ==
  [u EXCEPT !.pid_map[p] = NewPidMapping, !.symbol_hdr = clear(@, p), !.process = Erase(@, p)]

Handles(kind) == events # <<>> /\ Head(events).kind = kind /\ events' = Tail(events)

ddprof_pr_mmap ==
  LET e == Head(events)
  IN /\ Handles("mmap")
     /\ us' = [us EXCEPT !.pid_map[e.pid] =
                           maybe_insert_erase_overlap(@, NewDso(e.map), e.time),
                         !.visited = @ \cup {e.pid}]
     /\ steady' = [steady EXCEPT ![e.pid] = FALSE]
     /\ UNCHANGED <<processes, late, last>>

MutantDdprofPrComm ==   \* the process is not freed
  /\ Handles("exec")
  /\ UNCHANGED <<processes, late, us, last, steady>>

ddprof_pr_comm ==
  /\ Handles("exec")
  /\ us' = unwind_pid_free(us, Head(events).pid)
  /\ late' = [late EXCEPT ![Head(events).pid] = {}]
  /\ UNCHANGED <<processes, last, steady>>

ddprof_pr_fork ==
  LET e == Head(events)
      u == unwind_pid_free(us, e.pid)
  IN /\ Handles("fork")
     /\ us' = [u EXCEPT !.pid_map[e.pid].map = u.pid_map[e.ppid].map, !.visited = @ \cup {e.pid}]
     /\ late' = [late EXCEPT ![e.pid] = e.late \cup late[e.ppid]]
     /\ UNCHANGED <<processes, last, steady>>

MutantInconsistent(dwfl) == FALSE   \* never noticed

\* The test ddprof_unwind_sample makes.
Inconsistent(dwfl) == dwfl.inconsistent

\* A process whose modules were inconsistent is freed after its sample is used.
UseSample(e, u, locs, prof) ==
  LET p    == e.pid
      proc == u.process[p]
      new  == DOMAIN proc.dwfl.mods \ (IF p \in DOMAIN us.process THEN DOMAIN us.process[p].dwfl.mods ELSE {})
  IN /\ us' = IF Inconsistent(proc.dwfl) THEN unwind_pid_free(prof.us, p) ELSE prof.us
     /\ last' = [pid |-> p, program |-> e.program, kin |-> e.kin, locs |-> locs, out |-> prof.out,
                 maps |-> e.maps \cup late[p],
                 loaded |-> {[file |-> u.file_infos[id].file, at |-> proc.dwfl.mods[id]] : id \in new},
                 files |-> [i \in DOMAIN locs |->
                              IF locs[i].file > 0 THEN u.file_infos[locs[i].file].file ELSE Anon],
                 names |-> [i \in DOMAIN locs |->
                              IF locs[i].sym # 0 THEN u.symbol_hdr.symbol_table[locs[i].sym] ELSE NoSym],
                 exe_name |-> get_exe_name(u.symbol_hdr, p),
                 container_id |-> proc.container_id, thread_name |-> proc.thread_name,
                 unfit |-> proc.dwfl.inconsistent /\ steady[p]]
     /\ steady' = [steady EXCEPT ![p] = proc.dwfl.inconsistent]

Aggregate(e, u, locs) == UseSample(e, u, locs, process_symbolization(u, locs))

Unwound(e, st) == Aggregate(e, st.us, adjust_locations(st.locs, e.walk.skip))

ddprof_pr_sample ==
  /\ Handles("sample")
  /\ Unwound(Head(events), unwindstate_unwind(us, Head(events).pid, Head(events).walk))
  /\ UNCHANGED <<processes, late>>

\* clear_unvisited_pids, the symbolizer, reset_backpopulate_state, unwind_cycle.
\* A symbolizer is visited only when it is made.
ddprof_worker_cycle ==
  LET gone  == DOMAIN us.process \ us.visited
      u     == FoldSet(LAMBDA p, acc : unwind_pid_free(acc, p), us, gone)
      kept  == {id \in DOMAIN u.symbolizer : u.symbolizer[id].visited}
      reset(pm) == IF pm.nb_unfound_dsos >= k_nb_requests_between_backpopulates
                     THEN [pm EXCEPT !.nb_unfound_dsos = 0, !.last_backpopulate_time = 0, !.perm = "kAllowed"]
                     ELSE pm
  IN /\ us.symbol_hdr.cycle_counter <= MaxCycles
     /\ us' = [u EXCEPT !.pid_map = [p \in Pids |-> IF p \in us.visited THEN reset(@[p]) ELSE NewPidMapping],
                        !.visited = {},
                        !.symbolizer = [id \in kept |-> [u.symbolizer[id] EXCEPT !.visited = FALSE]],
                        !.symbol_hdr = cycle(@)]
     /\ UNCHANGED <<processes, late, events, last, steady>>

Next ==
  \/ \E p \in Pids : Mmap(p) \/ Compile(p) \/ Exec(p) \/ Fork(p) \/ Exit(p) \/ WaitFor(p) \/ Sample(p)
  \/ ddprof_pr_mmap \/ ddprof_pr_comm \/ ddprof_pr_fork \/ ddprof_pr_sample
  \/ ddprof_worker_cycle

Spec == Init /\ [][Next]_vars
-----------------------------------------------------------------------------
(* Properties                                                              *)

Processed == last # NoSample

\* What the sampled program, or one that ran under its pid later, mapped or
\* compiled; and, for a child that did not exec, what its parent did, whose
\* mappings the worker gave it.
Own(s) == {h \in history[s.pid] : h.program >= s.program} \cup UNION {history[q] : q \in s.kin}

OwnName(s, name) == \E h \in Own(s) : h.what = name

\* The frame that names the program, the names of compiled functions, the name
\* of the thread and the container of a sample never come from a program that
\* ran under the same pid before: worker_pid_free, on exec and on fork, erases
\* them all in time.
NamesCurrent ==
  Processed =>
    /\ \A i \in DOMAIN last.names :
         last.names[i][1] \in {"file", "jit"} => OwnName(last, last.names[i][2])
    /\ \A n \in {last.container_id, last.thread_name} : n = 0 \/ n >= last.program

\* The places the sampled program, or a later one, gave to a file.
PlacesOf(s, file) == {h \in history[s.pid] : h.what = file /\ h.program >= s.program}
                       \cup {h \in {Mapped(s.program, m) : m \in s.maps} : h.what = file}

\* adjust_start keeps the offset: the rest of a mapping that lost its beginning
\* seems to begin the file further on.
Shifted(s, file, place) ==
  \E h \in PlacesOf(s, file) : h.cut /\ place - h.at \in 1..(FileSize[file] - 1)

\* Modules are kept by file: one that was loaded stays where the file was.
Moved(s, file, place) == \E h \in PlacesOf(s, file) : h.at = place

\* The address a frame has in its file is the address of the process less the
\* place (_sym_bias) of the mapping that held it when the sample was taken, or
\* was made since: never a place of another process or of an earlier program.
\* Two exceptions: a mapping that was cut, and a file the program maps at two
\* places, for which a module that was loaded before is used (unsafe_get).  A
\* module is loaded where the program has the file.
AddressesCurrent ==
  Processed =>
    /\ \A i \in DOMAIN last.locs :
         LET file  == last.files[i]
             place == last.locs[i].ip - last.locs[i].elf_addr
         IN file # Anon =>
              \E m \in last.maps :
                /\ m.file = file /\ is_within(m, last.locs[i].ip)
                /\ place = At(m) \/ Moved(last, file, place) \/ Shifted(last, file, place)
    /\ \A mod \in last.loaded :
         \/ \E m \in last.maps : m.file = mod.file /\ At(m) = mod.at
         \/ Shifted(last, mod.file, mod.at)

\* What process_symbolization would write if nothing were cut.
Places(s) ==
  FoldLeft(LAMBDA n, file : n + 1 + (IF file = Anon THEN 0 ELSE Inlined[file]), 0, s.files)

\* Every stack has room for all it is given: however deep or broken the walk,
\* and whatever is skipped, the locations fit the array of pprof_aggregate and
\* the last one is the frame that names the program, as long as the inlined
\* functions leave room for it.
BaseFrameLast ==
  (Processed /\ Places(last) <= kMaxStackDepth) =>
    /\ Len(last.locs) \in 1..kMaxStackDepth
    /\ Len(last.out) <= kMaxStackDepth
    /\ last.out[Len(last.out)][1] \in {"file", "pid"}
    /\ last.out[Len(last.out)] = last.names[Len(last.names)]

\* A process whose modules contradict its mappings loses one sample: freed, it
\* is consistent again at the next one, unless its mappings changed meanwhile.
HealsAfterOne == Processed => ~last.unfit

=============================================================================
