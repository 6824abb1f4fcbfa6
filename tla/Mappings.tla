------------------------------ MODULE Mappings ------------------------------
(***************************************************************************)
(* The worker's copy of the memory mappings of the profiled processes,     *)
(* next to the mappings themselves.  Processes map and unmap memory, fork, *)
(* execute programs and exit; the kernel reports executable mappings,      *)
(* forks and execs as events, delivered late, in time order, and sometimes *)
(* lost.  The worker applies the events, and reads /proc/<pid>/maps, which *)
(* shows the present and not the time of the event at hand, line by line   *)
(* while the process keeps running, or fails to.                           *)
(***************************************************************************)
EXTENDS DsoHdr, Sequences

CONSTANTS
  Pids,
  First,        \* the process that runs when the profiler attaches to it
  Loaded,       \* its mappings then
  Candidates,   \* the mappings the processes make
  Pages,        \* where samples are taken
  MaxTime,      \* bound: steps of the processes
  MaxPending,   \* bound: events not yet processed
  Unreliable    \* may events be lost and reads of /proc fail?

ASSUME PidsAssumption == First \in Pids

ASSUME CandidatesAssumption ==
  /\ Candidates \subseteq Dso /\ Loaded \subseteq Candidates
  /\ \A m \in Candidates : m.start <= m.end
  /\ check_invariants(Loaded)     \* the kernel's mappings do not overlap

ASSUME BoundsAssumption ==
  Pages \subseteq Nat /\ MaxTime \in Nat /\ MaxPending \in Nat /\ Unreliable \in BOOLEAN

VARIABLES
  vmas,       \* the mappings of each process, as the kernel has them
  now,        \* time of the last step of a process
  events,     \* events on their way to the worker, in time order
  pid_map,    \* DsoHdr::_pid_map
  visited,    \* ProcessHdr::_visited_pids
  reading,    \* the /proc file being read
  base,       \* ghost: when the last complete read that the map rests on was made
  missed      \* ghost: time of the last event the map did not see

vars == <<vmas, now, events, pid_map, visited, reading, base, missed>>

NotReading == [pid |-> First, next |-> 0, time |-> 0, steady |-> TRUE, active |-> FALSE]

NoRead == [start |-> 0, end |-> 0]

Init ==
  /\ vmas = [p \in Pids |-> IF p = First THEN Loaded ELSE {}]
  /\ now = 0
  /\ events = <<>>
  /\ pid_map = [p \in Pids |-> NewPidMapping]
  /\ visited = {}
  /\ reading = NotReading
  /\ base = [p \in Pids |-> NoRead]
  /\ missed = [p \in Pids |-> 0]
-----------------------------------------------------------------------------
(* The profiled processes and the kernel                                   *)

\* A pending sample also accepts what is mapped at its address later on.
Seen(m, p) ==
  [i \in DOMAIN events |->
     IF events[i].kind = "sample" /\ events[i].pid = p /\ is_within(m, events[i].page)
       THEN [events[i] EXCEPT !.files = @ \cup {m.file}]
       ELSE events[i]]

\* struct perf_event_mmap2, and a line of /proc/<pid>/maps, whose end is exclusive.
MmapRecord(m) ==
  [addr |-> m.start, len |-> m.end - m.start + 1, pgoff |-> m.offset, file |-> m.file,
   prot_exec |-> m.prot_exec]

ProcLine(v) == [v EXCEPT !.end = @ + 1]

Tick == now < MaxTime /\ now' = now + 1

\* The kernel writes an event about p, or drops it.
Emit(queue, e, p) ==
  /\ Tick
  /\ \/ Len(queue) < MaxPending /\ events' = Append(queue, e) /\ UNCHANGED missed
     \/ Unreliable /\ events' = queue /\ missed' = [missed EXCEPT ![p] = now + 1]

Unsteady(p) == reading' = [reading EXCEPT !.steady = @ /\ ~(reading.active /\ reading.pid = p)]

Mmap(p) == \E m \in Candidates :
  /\ vmas[p] # {}
  /\ vmas' = [vmas EXCEPT ![p] = Carved(vmas[p], m) \cup {m}]
  /\ IF m.prot_exec
       THEN Emit(Seen(m, p), [kind |-> "mmap", pid |-> p, time |-> now + 1, map |-> MmapRecord(m)], p)
       ELSE Tick /\ events' = Seen(m, p) /\ UNCHANGED missed
  /\ Unsteady(p)
  /\ UNCHANGED <<pid_map, visited, base>>

Munmap(p) == \E v \in vmas[p] :
  /\ Tick
  /\ vmas' = [vmas EXCEPT ![p] = @ \ {v}]
  /\ Unsteady(p)
  /\ UNCHANGED <<events, pid_map, visited, base, missed>>

\* The kernel reports the exec before the mappings of the new program.
Exec(p) == \E m \in Candidates :
  /\ vmas[p] # {}
  /\ vmas' = [vmas EXCEPT ![p] = {m}]
  /\ ~m.prot_exec
  /\ Emit(Seen(m, p), [kind |-> "exec", pid |-> p, time |-> now + 1], p)
  /\ Unsteady(p)
  /\ UNCHANGED <<pid_map, visited, base>>

\* A pid is not used again while events of its last process wait.
Fork(p) == \E c \in Pids \ {p} :
  /\ vmas[p] # {} /\ vmas[c] = {}
  /\ \A i \in DOMAIN events : events[i].pid # c
  /\ vmas' = [vmas EXCEPT ![c] = vmas[p]]
  /\ Emit(events, [kind |-> "fork", pid |-> c, time |-> now + 1, ppid |-> p], c)
  /\ Unsteady(c)
  /\ UNCHANGED <<pid_map, visited, base>>

Exit(p) ==
  /\ vmas[p] # {}
  /\ Tick
  /\ vmas' = [vmas EXCEPT ![p] = {}]
  /\ Unsteady(p)
  /\ UNCHANGED <<events, pid_map, visited, base, missed>>

Sample(p) == \E v \in vmas[p] : \E page \in Pages :
  /\ v.prot_exec /\ is_within(v, page)
  /\ Tick
  /\ Len(events) < MaxPending
  /\ events' = Append(events, [kind |-> "sample", pid |-> p, time |-> now + 1,
                               page |-> page, files |-> {v.file}])
  /\ UNCHANGED <<vmas, pid_map, visited, reading, base, missed>>
-----------------------------------------------------------------------------
(* The worker                                                              *)

Idle(kind) ==
  /\ ~reading.active
  /\ events # <<>> /\ Head(events).kind = kind

\* Once the time of the last read is forgotten, the events it covers apply again.
Forgets(p, queue) ==
  IF \E i \in DOMAIN queue : queue[i].pid = p /\ queue[i].time < base[p].start
    THEN NoRead ELSE base[p]

DsoOfRecord(map) ==
  [start |-> map.addr, end |-> map.addr + map.len - 1, offset |-> map.pgoff, file |-> map.file,
   prot_exec |-> map.prot_exec]

ddprof_pr_mmap ==
  LET e == Head(events)
      pm == pid_map[e.pid]
  IN /\ Idle("mmap")
     /\ pid_map' = [pid_map EXCEPT ![e.pid] = maybe_insert_erase_overlap(pm, DsoOfRecord(e.map), e.time)]
     /\ missed' = IF Ignored(pm, e.time) /\ e.time > missed[e.pid]
                    THEN [missed EXCEPT ![e.pid] = e.time] ELSE missed
     /\ visited' = visited \cup {e.pid}
     /\ events' = Tail(events)
     /\ UNCHANGED <<vmas, now, reading, base>>

\* worker_pid_free, called when a process executes another program.
ddprof_pr_comm ==
  LET e == Head(events)
  IN /\ Idle("exec")
     /\ pid_map' = [pid_map EXCEPT ![e.pid] = NewPidMapping]
     /\ base' = [base EXCEPT ![e.pid] = Forgets(e.pid, Tail(events))]
     /\ missed' = [missed EXCEPT ![e.pid] = IF @ > e.time THEN @ ELSE 0]
     /\ events' = Tail(events)
     /\ UNCHANGED <<vmas, now, visited, reading>>

\* Has the map seen all it needs to tell what was mapped at a time?
Trusted(p, time) == missed[p] = 0 \/ (missed[p] < base[p].start /\ base[p].end <= time)

\* worker_pid_free of the child, then pid_fork.
pid_fork(child, parent) == [NewPidMapping EXCEPT !.map = pid_map[parent].map]

ddprof_pr_fork ==
  LET e == Head(events)
      inherited == Trusted(e.ppid, e.time) /\ base[e.ppid].end <= e.time
  IN /\ Idle("fork")
     /\ pid_map' = [pid_map EXCEPT ![e.pid] = pid_fork(e.pid, e.ppid)]
     /\ base' = [base EXCEPT ![e.pid] = Forgets(e.pid, Tail(events))]
     /\ missed' = [missed EXCEPT ![e.pid] = IF @ > e.time THEN @
                                            ELSE IF inherited THEN 0 ELSE e.time]
     /\ visited' = visited \cup {e.pid}
     /\ events' = Tail(events)
     /\ UNCHANGED <<vmas, now, reading>>

\* A sample at an address that is known, or will not be looked for in /proc.
ddprof_pr_sample ==
  LET e == Head(events)
      pm == pid_map[e.pid]
  IN /\ Idle("sample")
     /\ Unknown(pm, e.page) => pm.perm # "kAllowed"
     /\ pid_map' = IF Unknown(pm, e.page)
                     THEN [pid_map EXCEPT ![e.pid].nb_unfound_dsos = @ + 1] ELSE pid_map
     /\ visited' = visited \cup {e.pid}
     /\ events' = Tail(events)
     /\ UNCHANGED <<vmas, now, reading, base, missed>>

\* The time is taken before the file is opened: what the process maps while
\* it is read has a later time.
BackpopulateTime == now + 1

Backpopulate(pm) ==
  [pm EXCEPT !.nb_unfound_dsos = @ + 1, !.last_backpopulate_time = BackpopulateTime]

\* Opening fails for want of privileges, or once the process is gone; a process
\* that ended and was not waited for has an empty file.
open_proc_maps(p, ok) == ~ok => Unreliable \/ vmas[p] = {}

pid_backpopulate ==
  LET e == Head(events)
      pm == pid_map[e.pid]
  IN /\ Idle("sample")
     /\ Unknown(pm, e.page) /\ pm.perm = "kAllowed"
     /\ visited' = visited \cup {e.pid}
     /\ pid_map' = [pid_map EXCEPT ![e.pid] = Backpopulate(pm)]
     /\ \/ /\ open_proc_maps(e.pid, TRUE)
           /\ reading' = [pid |-> e.pid, next |-> 0, time |-> BackpopulateTime,
                          steady |-> TRUE, active |-> TRUE]
           /\ UNCHANGED events
        \/ /\ open_proc_maps(e.pid, FALSE)
           /\ events' = Tail(events)
           /\ UNCHANGED reading
     /\ UNCHANGED <<vmas, now, base, missed>>

\* The lines not read yet, in address order; a mapping cut while the file is
\* read may show its second half.
Lines == {v \in vmas[reading.pid] : v.start >= reading.next}

dso_from_proc_line(line) == [line EXCEPT !.end = @ - 1]

\* getline, dso_from_proc_line and insert_erase_overlap.
ReadLine == \E line \in Lines :
  /\ reading.active
  /\ \A other \in Lines : line.start <= other.start
  /\ pid_map' = [pid_map EXCEPT ![reading.pid] = Insert(@, dso_from_proc_line(ProcLine(line)))]
  /\ reading' = [reading EXCEPT !.next = line.end + 1]
  /\ UNCHANGED <<vmas, now, events, visited, base, missed>>

\* The end of the file; one without lines is not read again.
ReadEnd ==
  /\ reading.active /\ events # <<>> /\ Lines = {}
  /\ pid_map' = [pid_map EXCEPT ![reading.pid].perm = IF reading.next = 0 THEN "kForbidden" ELSE @]
  /\ base' = [base EXCEPT ![reading.pid] = [start |-> reading.time, end |-> now + 1]]
  /\ events' = Tail(events)
  /\ reading' = NotReading
  /\ UNCHANGED <<vmas, now, visited, missed>>

\* clear_unvisited, then reset_backpopulate_state with its default threshold.
reset_backpopulate_state(pm) ==
  IF pm.nb_unfound_dsos >= k_nb_requests_between_backpopulates
    THEN [pm EXCEPT !.nb_unfound_dsos = 0, !.last_backpopulate_time = 0, !.perm = "kAllowed"]
    ELSE pm

ddprof_worker_cycle ==
  LET cycled(p) == IF p \in visited THEN reset_backpopulate_state(pid_map[p]) ELSE NewPidMapping
  IN /\ ~reading.active
     /\ pid_map' = [p \in Pids |-> cycled(p)]
     /\ base' = [p \in Pids |-> IF cycled(p).last_backpopulate_time = 0
                                  THEN Forgets(p, events) ELSE base[p]]
     /\ visited' = {}
     /\ UNCHANGED <<vmas, now, events, reading, missed>>

Next ==
  \/ \E p \in Pids : Mmap(p) \/ Munmap(p) \/ Exec(p) \/ Fork(p) \/ Exit(p) \/ Sample(p)
  \/ ddprof_pr_mmap \/ ddprof_pr_comm \/ ddprof_pr_fork \/ ddprof_pr_sample
  \/ pid_backpopulate \/ ReadLine \/ ReadEnd \/ ddprof_worker_cycle

Spec == Init /\ [][Next]_vars
-----------------------------------------------------------------------------
(* Properties                                                              *)

PidMapping ==
  [map : SUBSET Dso, nb_unfound_dsos : Nat, last_backpopulate_time : Nat,
   perm : {"kAllowed", "kForbidden"}, jitdump_addr : Nat]

\* The mappings of a process never overlap and no two start at one address,
\* whatever order events, reads of /proc, forks and cycles come in
\* (DsoHdr::check_invariants, tested by the worker at each cycle in debug mode).
NoOverlap == \A p \in Pids : check_invariants(pid_map[p].map)

\* A sample is never attributed to the wrong file: when the worker looks its
\* address up (find_res in unwind_dwfl.cc), the mapping found, if any, is one the
\* process had there when the sample was taken or later.  Excepted are processes
\* the worker missed an event of since the last complete read of /proc.
RightFile ==
  (events # <<>> /\ Head(events).kind = "sample" /\ Trusted(Head(events).pid, Head(events).time))
    => LET e == Head(events)
       IN \A d \in dso_find_closest(pid_map[e.pid].map, e.page) : d.file \in e.files

\* Reading /proc repairs whatever was missed: after a whole read during which
\* the process left its mappings alone, the map holds each of them exactly
\* (pid_backpopulate inserting over stale mappings).
ReadRepairs ==
  (reading.active /\ reading.steady /\ Lines = {})
    => vmas[reading.pid] \subseteq pid_map[reading.pid].map

=============================================================================
