---------------------------- MODULE MappingsProofs ----------------------------
(***************************************************************************)
(* The mappings of a process never overlap, for any number of processes,   *)
(* any addresses and any candidate mappings.                               *)
(***************************************************************************)
EXTENDS Mappings, TLAPS

Disjoint(d, e) == d.end < e.start \/ e.end < d.start

\* A piece of d that new does not touch.
PieceOf(x, d, new) ==
  /\ x \in Dso
  /\ d.start <= x.start /\ x.start <= x.end /\ x.end <= d.end
  /\ Disjoint(x, new)

\* check_invariants, stated about pairs of mappings without regard to their order.
LEMMA Pairwise ==
  ASSUME NEW map \in SUBSET Dso
  PROVE  check_invariants(map) <=> /\ \A d \in map : d.start <= d.end
                                   /\ \A d, e \in map : d = e \/ Disjoint(d, e)
<1>1. ASSUME check_invariants(map), NEW d \in map, NEW e \in map
      PROVE  d.start <= d.end /\ (d = e \/ Disjoint(d, e))
  <2>1. d.start \in Nat /\ e.start \in Nat
    BY Zenon DEF Dso
  <2>2. d.start < e.start \/ e.start < d.start \/ d.start = e.start
    BY <2>1
  <2>. QED  BY <1>1, <2>2, Zenon DEF check_invariants, Disjoint
<1>2. ASSUME \A d \in map : d.start <= d.end,
             \A d, e \in map : d = e \/ Disjoint(d, e),
             NEW d \in map, NEW e \in map
      PROVE  /\ d.start <= d.end
             /\ d.start < e.start => d.end < e.start
             /\ d.start = e.start => d = e
  <2>1. d.start \in Nat /\ e.start \in Nat /\ d.end \in Nat /\ e.end \in Nat
    BY Zenon DEF Dso
  <2>2. d.start <= d.end /\ e.start <= e.end /\ (d = e \/ Disjoint(d, e))
    BY <1>2, Zenon
  <2>. QED  BY <2>1, <2>2 DEF Disjoint
<1>. QED  BY <1>1, <1>2, Zenon DEF check_invariants

\* What get_intersection leaves out does not touch the new mapping.
LEMMA OutsideRange ==
  ASSUME NEW map \in SUBSET Dso, check_invariants(map), NEW new \in Dso,
         NEW d \in map \ get_intersection(map, new)
  PROVE  Disjoint(d, new)
<1>1. d.start \in Nat /\ d.end \in Nat /\ new.start \in Nat /\ new.end \in Nat
  BY Zenon DEF Dso
<1>2. CASE new.start < d.start
  BY <1>1, <1>2 DEF get_intersection, Disjoint
<1>3. CASE d.start <= new.start /\ d \in Closest(map, new.start)
  BY <1>1, <1>3 DEF get_intersection, Disjoint
<1>4. CASE d.start <= new.start /\ d \notin Closest(map, new.start)
  <2>1. PICK e \in map : e.start <= new.start /\ ~(e.start <= d.start)
    BY <1>4, Zenon DEF Closest
  <2>2. e.start \in Nat
    BY Zenon DEF Dso
  <2>3. d.end < e.start
    BY <2>1, <2>2, <1>1 DEF check_invariants
  <2>. QED  BY <2>1, <2>2, <2>3, <1>1 DEF Disjoint
<1>. QED  BY <1>1, <1>2, <1>3, <1>4

\* What it takes in does touch the new mapping.
LEMMA InsideRange ==
  ASSUME NEW map \in SUBSET Dso, check_invariants(map), NEW new \in Dso, new.start <= new.end,
         NEW d \in get_intersection(map, new)
  PROVE  d \in map /\ ~Disjoint(d, new)
<1>1. d \in map
  BY Zenon DEF get_intersection, Closest
<1>2. d.start \in Nat /\ d.end \in Nat /\ new.start \in Nat /\ new.end \in Nat /\ d.start <= d.end
  BY <1>1, Zenon DEF Dso, check_invariants
<1>. QED  BY <1>1, <1>2 DEF get_intersection, Closest, Disjoint

\* Each part erase_range keeps of a mapping is a piece of it, and two different
\* parts do not touch each other.
LEMMA RemainsArePieces ==
  ASSUME NEW d \in Dso, NEW range, NEW new \in Dso,
         new.start <= new.end, ~Disjoint(d, new)
  PROVE  /\ \A x \in Remains(d, range, new) : PieceOf(x, d, new)
         /\ \A x, y \in Remains(d, range, new) : x = y \/ Disjoint(x, y)
<1>1. d.start \in Nat /\ d.end \in Nat /\ new.start \in Nat /\ new.end \in Nat
  BY Zenon DEF Dso
<1>. DEFINE before == adjust_end(d, new.start - 1)
            after  == adjust_start(d, new.end + 1)
<1>2. before.start = d.start /\ before.end = new.start - 1
  BY Zenon DEF adjust_end, Dso
<1>3. after.start = new.end + 1 /\ after.end = d.end
  BY Zenon DEF adjust_start, Dso
<1>4. ASSUME new.start > d.start  PROVE PieceOf(before, d, new)
  <2>1. new.start - 1 \in Nat
    BY <1>1, <1>4
  <2>2. before \in Dso
    BY <2>1, Zenon DEF adjust_end, Dso
  <2>. QED  BY <1>1, <1>2, <1>4, <2>2 DEF PieceOf, Disjoint
<1>5. ASSUME new.end < d.end  PROVE PieceOf(after, d, new)
  <2>1. after \in Dso
    BY <1>1 DEF adjust_start, Dso
  <2>. QED  BY <1>1, <1>3, <1>5, <2>1 DEF PieceOf, Disjoint
<1>6. ASSUME NEW x \in Remains(d, range, new)
      PROVE  (x = before /\ new.start > d.start) \/ (x = after /\ new.end < d.end)
  BY <1>6, Zenon DEF Remains
<1>7. Disjoint(before, after)
  BY <1>1, <1>2, <1>3 DEF Disjoint
<1>8. Disjoint(after, before)
  BY <1>7, Zenon DEF Disjoint
<1>. HIDE DEF before, after
<1>. QED  BY <1>4, <1>5, <1>6, <1>7, <1>8, Zenon

\* erase_range keeps pieces of the old mappings that leave room for the new one.
LEMMA EraseKeepsPieces ==
  ASSUME NEW map \in SUBSET Dso, check_invariants(map), NEW new \in Dso, new.start <= new.end
  PROVE  LET left == erase_range(map, get_intersection(map, new), new)
         IN /\ \A x \in left : x \in Dso /\ x.start <= x.end /\ Disjoint(x, new)
            /\ \A x, y \in left : x = y \/ Disjoint(x, y)
<1>. DEFINE range == get_intersection(map, new)
            left  == erase_range(map, range, new)
<1>1. /\ \A d \in map : d.start <= d.end
      /\ \A d, e \in map : d = e \/ Disjoint(d, e)
  BY Pairwise, Zenon
<1>2. \A d \in range : d \in map /\ ~Disjoint(d, new)
  BY InsideRange, Zenon
<1>3. \A d \in map \ range : Disjoint(d, new)
  BY OutsideRange, Zenon
<1>4. \A d \in range : /\ \A x \in Remains(d, range, new) : PieceOf(x, d, new)
                       /\ \A x, y \in Remains(d, range, new) : x = y \/ Disjoint(x, y)
  BY <1>2, RemainsArePieces, Zenon
<1>. HIDE DEF range
<1>5. ASSUME NEW x \in left
      PROVE  \E d \in map : /\ PieceOf(x, d, new)
                            /\ x = d \/ (d \in range /\ x \in Remains(d, range, new))
  <2>1. CASE x \in map \ range
    BY <2>1, <1>1, <1>3 DEF PieceOf, Dso
  <2>2. CASE \E d \in range : x \in Remains(d, range, new)
    BY <2>2, <1>2, <1>4, Zenon
  <2>. QED  BY <1>5, <2>1, <2>2, Zenon DEF erase_range
<1>6. ASSUME NEW x \in left, NEW y \in left  PROVE x = y \/ Disjoint(x, y)
  <2>1. PICK d \in map : /\ PieceOf(x, d, new)
                         /\ x = d \/ (d \in range /\ x \in Remains(d, range, new))
    BY <1>5, Zenon
  <2>2. PICK e \in map : /\ PieceOf(y, e, new)
                         /\ y = e \/ (e \in range /\ y \in Remains(e, range, new))
    BY <1>5, Zenon
  <2>3. CASE d # e
    <3>1. Disjoint(d, e)
      BY <1>1, <2>3, Zenon
    <3>2. /\ d.start \in Nat /\ d.end \in Nat /\ e.start \in Nat /\ e.end \in Nat
          /\ x.start \in Nat /\ x.end \in Nat /\ y.start \in Nat /\ y.end \in Nat
      BY <2>1, <2>2, Zenon DEF PieceOf, Dso
    <3>. QED  BY <3>1, <3>2, <2>1, <2>2 DEF PieceOf, Disjoint
  <2>4. CASE d = e /\ d \in range /\ x \in Remains(d, range, new) /\ y \in Remains(d, range, new)
    BY <2>4, <1>4, Zenon
  <2>5. CASE d = e /\ (x = d \/ y = d) /\ x # y
    <3>1. d \in range
      BY <2>1, <2>2, <2>5, Zenon
    <3>2. PieceOf(d, d, new)
      BY <2>1, <2>2, <2>5, Zenon
    <3>. QED  BY <3>1, <3>2, <1>2, Zenon DEF PieceOf
  <2>. QED  BY <2>1, <2>2, <2>3, <2>4, <2>5, Zenon
<1>. HIDE DEF left
<1>7. \A x \in left : x \in Dso /\ x.start <= x.end /\ Disjoint(x, new)
  BY <1>5, Zenon DEF PieceOf
<1>. QED  BY <1>6, <1>7, Zenon DEF left, range

\* Inserting a mapping keeps the mappings apart (DsoHdr::insert_erase_overlap).
LEMMA InsertKeepsApart ==
  ASSUME NEW map \in SUBSET Dso, check_invariants(map), NEW new \in Dso, new.start <= new.end
  PROVE  /\ insert_erase_overlap(map, new) \in SUBSET Dso
         /\ check_invariants(insert_erase_overlap(map, new))
<1>1. /\ \A d \in map : d.start <= d.end
      /\ \A d, e \in map : d = e \/ Disjoint(d, e)
  BY Pairwise
<1>2. CASE dso_find_adjust_same(map, new) # {}
  <2>. DEFINE Adjusted(d) == IF is_same_or_smaller(d, new) THEN adjust_end(d, new.end) ELSE d
  <2>1. insert_erase_overlap(map, new) = {Adjusted(d) : d \in map}
    BY <1>2, Zenon DEF insert_erase_overlap
  <2>2. ASSUME NEW d \in map
        PROVE  /\ Adjusted(d) \in Dso
               /\ Adjusted(d).start = d.start /\ Adjusted(d).end <= d.end
               /\ Adjusted(d).start <= Adjusted(d).end
    <3>1. CASE is_same_or_smaller(d, new)
      BY <3>1, Zenon DEF is_same_or_smaller, adjust_end, Dso
    <3>2. CASE ~is_same_or_smaller(d, new)
      BY <3>2, <1>1 DEF Dso
    <3>. QED  BY <3>1, <3>2, Zenon
  <2>. HIDE DEF Adjusted
  <2>3. ASSUME NEW d \in map, NEW e \in map
        PROVE  Adjusted(d) = Adjusted(e) \/ Disjoint(Adjusted(d), Adjusted(e))
    <3>1. d = e \/ Disjoint(d, e)
      BY <1>1, Zenon
    <3>2. /\ d.start \in Nat /\ d.end \in Nat /\ e.start \in Nat /\ e.end \in Nat
          /\ Adjusted(d).end \in Nat /\ Adjusted(e).end \in Nat
      BY <2>2, Zenon DEF Dso
    <3>. QED  BY <2>2, <3>1, <3>2 DEF Disjoint
  <2>4. {Adjusted(d) : d \in map} \in SUBSET Dso
    BY <2>2, Zenon
  <2>5. check_invariants({Adjusted(d) : d \in map})
    BY <2>2, <2>3, <2>4, Pairwise
  <2>. QED  BY <2>1, <2>4, <2>5, Zenon
<1>3. CASE dso_find_adjust_same(map, new) = {}
  <2>. DEFINE left == erase_range(map, get_intersection(map, new), new)
  <2>1. insert_erase_overlap(map, new) = left \cup {new}
    BY <1>3, Zenon DEF insert_erase_overlap
  <2>2. /\ \A x \in left : x \in Dso /\ x.start <= x.end /\ Disjoint(x, new)
        /\ \A x, y \in left : x = y \/ Disjoint(x, y)
    BY EraseKeepsPieces, Zenon
  <2>. HIDE DEF left
  <2>3. left \cup {new} \in SUBSET Dso
    BY <2>2, Zenon
  <2>4. /\ \A d \in left \cup {new} : d.start <= d.end
        /\ \A d, e \in left \cup {new} : d = e \/ Disjoint(d, e)
    BY <2>2, Zenon DEF Disjoint
  <2>. QED  BY <2>1, <2>3, <2>4, Pairwise, Zenon
<1>. QED  BY <1>2, <1>3, Zenon
-------------------------------------------------------------------------------
(* The invariant                                                             *)

Event ==
  [kind : {"mmap"}, pid : Pids, time : Nat, map : {MmapRecord(m) : m \in Candidates}]
    \cup [kind : {"exec"}, pid : Pids, time : Nat]
    \cup [kind : {"fork"}, pid : Pids, time : Nat, ppid : Pids]
    \cup [kind : {"sample"}, pid : Pids, time : Nat, page : Nat,
           files : SUBSET (Files \cup {Anon, JitDump})]

Vma == {v \in Dso : v.start <= v.end}

\* The inductive invariant: the kernel's mappings and those on their way in
\* events are ranges of addresses, and the worker's do not overlap.
IInv ==
  /\ now \in Nat
  /\ vmas \in [Pids -> SUBSET Vma]
  /\ events \in Seq(Event)
  /\ reading \in [pid : Pids, next : Nat, time : Nat, steady : BOOLEAN, active : BOOLEAN]
  /\ pid_map \in [Pids -> PidMapping]
  /\ NoOverlap

\* What a process may map is a mapping.
LEMMA CandidatesAreVmas == Candidates \subseteq Vma
BY CandidatesAssumption, Zenon DEF Vma

\* Neither the event nor the line of /proc changes the range of a mapping: the
\* length and the exclusive end are undone by the worker.
LEMMA RecordIsExact == \A m \in Vma : DsoOfRecord(MmapRecord(m)) = m
<1>. SUFFICES ASSUME NEW m \in Vma  PROVE DsoOfRecord(MmapRecord(m)) = m
  BY Zenon
<1>1. m \in Dso
  BY Zenon DEF Vma
<1>2. m.start + (m.end - m.start + 1) - 1 = m.end
  BY <1>1 DEF Dso
<1>. QED  BY <1>1, <1>2, Zenon DEF DsoOfRecord, MmapRecord, Dso

\* A line of /proc/<pid>/maps gives the range of the mapping: its end is exclusive.
LEMMA LineIsExact == \A v \in Vma : dso_from_proc_line(ProcLine(v)) = v
<1>. SUFFICES ASSUME NEW v \in Vma  PROVE dso_from_proc_line(ProcLine(v)) = v
  OBVIOUS
<1>1. v \in Dso /\ v.end \in Nat
  BY Zenon DEF Vma, Dso
<1>2. ProcLine(v) \in Dso /\ ProcLine(v).end = v.end + 1
  BY <1>1 DEF ProcLine, Dso
<1>3. dso_from_proc_line(ProcLine(v)) = [ProcLine(v) EXCEPT !.end = v.end]
  <2>1. ProcLine(v).end - 1 = v.end
    BY <1>1, <1>2
  <2>2. dso_from_proc_line(ProcLine(v)) = [ProcLine(v) EXCEPT !.end = ProcLine(v).end - 1]
    BY Zenon DEF dso_from_proc_line
  <2>. QED  BY <2>1, <2>2, Zenon
<1>4. [ProcLine(v) EXCEPT !.end = v.end] = v
  BY <1>1, Zenon DEF ProcLine, Dso
<1>. QED  BY <1>3, <1>4, Zenon

\* What the kernel leaves of the mappings under a new one are mappings.
LEMMA CarvedVmas ==
  ASSUME NEW vs \in SUBSET Vma, NEW m \in Vma
  PROVE  Carved(vs, m) \in SUBSET Vma
<1>1. ASSUME NEW v \in Vma, Overlap(v, m), NEW x \in Cut(v, m)  PROVE x \in Vma
  <2>1. /\ v.start \in Nat /\ v.end \in Nat /\ v.offset \in Nat
        /\ m.start \in Nat /\ m.end \in Nat
    BY Zenon DEF Vma, Dso
  <2>2. CASE x = [v EXCEPT !.end = m.start - 1] /\ v.start < m.start
    <3>1. m.start - 1 \in Nat
      BY <2>1, <2>2
    <3>. QED  BY <2>1, <2>2, <3>1 DEF Vma, Dso
  <2>3. CASE /\ m.end < v.end
             /\ x = [v EXCEPT !.start = m.end + 1,
                             !.offset = IF v.file = Anon THEN 0 ELSE @ + m.end + 1 - v.start]
    <3>1. v.offset + m.end + 1 - v.start \in Nat
      BY <1>1, <2>1 DEF Overlap
    <3>. DEFINE o == IF v.file = Anon THEN 0 ELSE v.offset + m.end + 1 - v.start
    <3>2. o \in Nat
      BY <3>1, Zenon
    <3>3. x = [v EXCEPT !.start = m.end + 1, !.offset = o]
      BY <2>3, Zenon
    <3>. HIDE DEF o
    <3>4. v \in Dso /\ m.end + 1 \in Nat /\ m.end < v.end
      BY <2>1, <2>3 DEF Vma
    <3>5. x \in Dso
      BY <3>2, <3>3, <3>4, Zenon DEF Dso
    <3>6. x.start = m.end + 1 /\ x.end = v.end
      BY <3>3, <3>4, Zenon DEF Dso
    <3>. QED  BY <2>1, <3>4, <3>5, <3>6 DEF Vma
  <2>. QED  BY <1>1, <2>2, <2>3, Zenon DEF Cut
<1>. QED  BY <1>1, Zenon DEF Carved

\* Noting what a sample may have seen keeps the events well formed.
LEMMA SeenEvents ==
  ASSUME IInv, NEW m \in Candidates, NEW p \in Pids
  PROVE  Seen(m, p) \in Seq(Event)
<1>1. m.file \in Files \cup {Anon, JitDump}
  BY CandidatesAssumption, Zenon DEF Dso
<1>2. ASSUME NEW e \in Event, e.kind = "sample"
      PROVE  [e EXCEPT !.files = @ \cup {m.file}] \in Event
  BY <1>1, <1>2, Zenon DEF Event
<1>3. ASSUME NEW i \in DOMAIN events  PROVE events[i] \in Event
  BY DEF IInv
<1>4. \A i \in DOMAIN Seen(m, p) : Seen(m, p)[i] \in Event
  BY <1>2, <1>3, Zenon DEF Seen
<1>5. PICK n \in Nat : DOMAIN events = 1 .. n
  BY DEF IInv
<1>6. DOMAIN Seen(m, p) = 1 .. n
  BY <1>5, Zenon DEF Seen
<1>7. Seen(m, p) = [i \in 1 .. n |-> Seen(m, p)[i]]
  BY <1>5, Zenon DEF Seen
<1>. QED  BY <1>4, <1>6, <1>7

\* An event of a process is queued and takes time.
LEMMA EmitEvents ==
  ASSUME NEW queue \in Seq(Event), NEW e \in Event, NEW p, now \in Nat, Emit(queue, e, p)
  PROVE  events' \in Seq(Event) /\ now' \in Nat
BY DEF Emit, Tick

\* Steps of a process leave the worker's mappings alone.
LEMMA ProcessSteps ==
  ASSUME IInv, NEW p \in Pids,
         Mmap(p) \/ Munmap(p) \/ Exec(p) \/ Fork(p) \/ Exit(p) \/ Sample(p)
  PROVE  IInv'
<1>. USE DEF IInv
<1>1. ASSUME reading' = reading \/ \E q \in Pids : Unsteady(q)
      PROVE  reading' \in [pid : Pids, next : Nat, time : Nat, steady : BOOLEAN, active : BOOLEAN]
  BY <1>1, Zenon DEF Unsteady
<1>2. ASSUME UNCHANGED pid_map  PROVE NoOverlap'
  BY <1>2, Zenon DEF NoOverlap
<1>3. CASE Mmap(p)
  <2>1. PICK m \in Candidates :
          /\ vmas' = [vmas EXCEPT ![p] = Carved(vmas[p], m) \cup {m}]
          /\ IF m.prot_exec
               THEN Emit(Seen(m, p), [kind |-> "mmap", pid |-> p, time |-> now + 1, map |-> MmapRecord(m)], p)
               ELSE Tick /\ events' = Seen(m, p) /\ UNCHANGED missed
    BY <1>3, Zenon DEF Mmap
  <2>2. Carved(vmas[p], m) \cup {m} \in SUBSET Vma
    BY CarvedVmas, CandidatesAreVmas, Zenon
  <2>3. vmas' \in [Pids -> SUBSET Vma]
    BY <2>1, <2>2, Zenon
  <2>4. [kind |-> "mmap", pid |-> p, time |-> now + 1, map |-> MmapRecord(m)] \in Event
    BY DEF Event
  <2>5. events' \in Seq(Event) /\ now' \in Nat
    BY <2>1, <2>4, SeenEvents, EmitEvents DEF Tick
  <2>6. UNCHANGED pid_map /\ Unsteady(p)
    BY <1>3, Zenon DEF Mmap
  <2>. QED  BY <1>1, <1>2, <2>3, <2>5, <2>6, Zenon
<1>4. CASE Munmap(p) \/ Exit(p)
  <2>1. vmas' \in [Pids -> SUBSET Vma] /\ now' \in Nat
    BY <1>4 DEF Munmap, Exit, Tick
  <2>2. UNCHANGED <<pid_map, events>> /\ Unsteady(p)
    BY <1>4, Zenon DEF Munmap, Exit
  <2>. QED  BY <1>1, <1>2, <2>1, <2>2, Zenon
<1>5. CASE Exec(p)
  <2>1. PICK m \in Candidates :
          /\ vmas' = [vmas EXCEPT ![p] = {m}]
          /\ Emit(Seen(m, p), [kind |-> "exec", pid |-> p, time |-> now + 1], p)
    BY <1>5, Zenon DEF Exec
  <2>2. vmas' \in [Pids -> SUBSET Vma]
    BY <2>1, CandidatesAreVmas, Zenon
  <2>3. [kind |-> "exec", pid |-> p, time |-> now + 1] \in Event
    BY DEF Event
  <2>4. events' \in Seq(Event) /\ now' \in Nat
    BY <2>1, <2>3, SeenEvents, EmitEvents, Zenon
  <2>5. UNCHANGED pid_map /\ Unsteady(p)
    BY <1>5, Zenon DEF Exec
  <2>. QED  BY <1>1, <1>2, <2>2, <2>4, <2>5
<1>6. CASE Fork(p)
  <2>1. PICK c \in Pids :
          /\ vmas' = [vmas EXCEPT ![c] = vmas[p]]
          /\ Emit(events, [kind |-> "fork", pid |-> c, time |-> now + 1, ppid |-> p], c)
          /\ UNCHANGED pid_map /\ Unsteady(c)
    BY <1>6, Zenon DEF Fork
  <2>2. vmas' \in [Pids -> SUBSET Vma]
    BY <2>1, Zenon
  <2>3. [kind |-> "fork", pid |-> c, time |-> now + 1, ppid |-> p] \in Event
    BY DEF Event
  <2>4. events' \in Seq(Event) /\ now' \in Nat
    BY <2>1, <2>3, EmitEvents, Zenon
  <2>. QED  BY <1>1, <1>2, <2>1, <2>2, <2>4, Zenon
<1>7. CASE Sample(p)
  <2>1. PICK v \in vmas[p], page \in Pages :
          events' = Append(events, [kind |-> "sample", pid |-> p, time |-> now + 1,
                                    page |-> page, files |-> {v.file}])
    BY <1>7, Zenon DEF Sample
  <2>2. v.file \in Files \cup {Anon, JitDump}
    BY DEF Vma, Dso
  <2>3. [kind |-> "sample", pid |-> p, time |-> now + 1, page |-> page, files |-> {v.file}] \in Event
    BY <2>2, BoundsAssumption DEF Event
  <2>4. events' \in Seq(Event)
    BY <2>1, <2>3
  <2>5. now' \in Nat /\ UNCHANGED <<vmas, pid_map, reading>>
    BY <1>7 DEF Sample, Tick
  <2>. QED  BY <1>2, <2>4, <2>5, Zenon
<1>. QED  BY <1>3, <1>4, <1>5, <1>6, <1>7, Zenon

\* A map that stays apart, whatever else changes in the entry of a process.
LEMMA InsertPidMapping ==
  ASSUME NEW pm \in PidMapping, check_invariants(pm.map), NEW new \in Vma
  PROVE  Insert(pm, new) \in PidMapping /\ check_invariants(Insert(pm, new).map)
<1>. DEFINE m == insert_erase_overlap(pm.map, new)
<1>1. m \in SUBSET Dso /\ check_invariants(m)
  BY InsertKeepsApart, Zenon DEF Vma, PidMapping
<1>. HIDE DEF m
<1>2. PICK j \in Nat : Insert(pm, new) = [pm EXCEPT !.map = m, !.jitdump_addr = j]
  <2>1. new.start \in Nat /\ pm.jitdump_addr \in Nat
    BY Zenon DEF Vma, Dso, PidMapping
  <2>2. CASE determine_dso_type(new.file) = "kJITDump" /\ dso_find_adjust_same(pm.map, new) = {}
    BY <2>1, <2>2, Zenon DEF Insert, m
  <2>3. CASE ~(determine_dso_type(new.file) = "kJITDump" /\ dso_find_adjust_same(pm.map, new) = {})
    BY <2>1, <2>3, Zenon DEF Insert, m
  <2>. QED  BY <2>2, <2>3, Zenon
<1>3. Insert(pm, new).map = m /\ Insert(pm, new) \in PidMapping
  BY <1>1, <1>2, Zenon DEF PidMapping
<1>. QED  BY <1>1, <1>3, Zenon

\* An empty entry of DsoHdr has its mappings apart.
LEMMA EmptyPidMapping == NewPidMapping \in PidMapping /\ check_invariants(NewPidMapping.map)
BY Zenon DEF NewPidMapping, PidMapping, check_invariants

\* The event the worker takes and those it leaves are events.
LEMMA HeadAndTail ==
  ASSUME IInv, events # <<>>
  PROVE  Head(events) \in Event /\ Tail(events) \in Seq(Event)
BY DEF IInv

\* An entry replaced by one whose mappings are apart.
LEMMA ReplaceEntry ==
  ASSUME IInv, NEW p \in Pids, NEW pm \in PidMapping, check_invariants(pm.map),
         pid_map' = [pid_map EXCEPT ![p] = pm]
  PROVE  pid_map' \in [Pids -> PidMapping] /\ NoOverlap'
BY Zenon DEF IInv, NoOverlap

\* Every step of the worker keeps the mappings of each process apart.
LEMMA WorkerSteps ==
  ASSUME IInv,
         \/ ddprof_pr_mmap \/ ddprof_pr_comm \/ ddprof_pr_fork \/ ddprof_pr_sample
         \/ pid_backpopulate \/ ReadLine \/ ReadEnd \/ ddprof_worker_cycle
  PROVE  IInv'
<1>. DEFINE e == Head(events)
<1>1. \A p \in Pids : pid_map[p] \in PidMapping /\ check_invariants(pid_map[p].map)
  BY Zenon DEF IInv, NoOverlap
<1>2. ASSUME UNCHANGED <<vmas, now, reading>>, events' \in Seq(Event),
             pid_map' \in [Pids -> PidMapping], NoOverlap'
      PROVE  IInv'
  BY <1>2, Zenon DEF IInv
<1>3. CASE ddprof_pr_mmap
  <2>1. /\ e \in Event /\ e.kind = "mmap" /\ events' = Tail(events) /\ events' \in Seq(Event)
        /\ UNCHANGED <<vmas, now, reading>>
        /\ pid_map' = [pid_map EXCEPT ![e.pid] = maybe_insert_erase_overlap(pid_map[e.pid], DsoOfRecord(e.map), e.time)]
    BY <1>3, HeadAndTail, Zenon DEF ddprof_pr_mmap, Idle
  <2>2. e.pid \in Pids /\ DsoOfRecord(e.map) \in Vma
    BY <2>1, RecordIsExact, CandidatesAreVmas, Zenon DEF Event
  <2>. HIDE DEF e
  <2>3. \/ maybe_insert_erase_overlap(pid_map[e.pid], DsoOfRecord(e.map), e.time) = pid_map[e.pid]
        \/ maybe_insert_erase_overlap(pid_map[e.pid], DsoOfRecord(e.map), e.time) = Insert(pid_map[e.pid], DsoOfRecord(e.map))
    BY Zenon DEF maybe_insert_erase_overlap
  <2>4. pid_map' \in [Pids -> PidMapping] /\ NoOverlap'
    BY <1>1, <2>1, <2>2, <2>3, InsertPidMapping, ReplaceEntry, Zenon
  <2>. QED  BY <1>2, <2>1, <2>4, Zenon
<1>4. CASE ddprof_pr_comm
  <2>1. /\ e \in Event /\ events' = Tail(events) /\ events' \in Seq(Event)
        /\ UNCHANGED <<vmas, now, reading>>
        /\ pid_map' = [pid_map EXCEPT ![e.pid] = NewPidMapping]
    BY <1>4, HeadAndTail, Zenon DEF ddprof_pr_comm, Idle
  <2>2. e.pid \in Pids
    BY <2>1, Zenon DEF Event
  <2>3. pid_map' \in [Pids -> PidMapping] /\ NoOverlap'
    BY <2>1, <2>2, EmptyPidMapping, ReplaceEntry, Zenon
  <2>. QED  BY <1>2, <2>1, <2>3, Zenon
<1>5. CASE ddprof_pr_fork
  <2>1. /\ e \in Event /\ e.kind = "fork" /\ events' = Tail(events) /\ events' \in Seq(Event)
        /\ UNCHANGED <<vmas, now, reading>>
        /\ pid_map' = [pid_map EXCEPT ![e.pid] = pid_fork(e.pid, e.ppid)]
    BY <1>5, HeadAndTail, Zenon DEF ddprof_pr_fork, Idle
  <2>2. e.pid \in Pids /\ e.ppid \in Pids
    BY <2>1, Zenon DEF Event
  <2>. HIDE DEF e
  <2>3. pid_fork(e.pid, e.ppid) \in PidMapping /\ check_invariants(pid_fork(e.pid, e.ppid).map)
    BY <1>1, <2>2, Zenon DEF pid_fork, NewPidMapping, PidMapping
  <2>4. pid_map' \in [Pids -> PidMapping] /\ NoOverlap'
    BY <2>1, <2>2, <2>3, ReplaceEntry, Zenon
  <2>. QED  BY <1>2, <2>1, <2>4, Zenon
<1>6. CASE ddprof_pr_sample
  <2>1. Idle("sample") /\ events' = Tail(events) /\ UNCHANGED <<vmas, now, reading>>
    BY <1>6, Zenon DEF ddprof_pr_sample
  <2>2. e.pid \in Pids /\ events' \in Seq(Event)
    BY <2>1, HeadAndTail, Zenon DEF Idle, Event
  <2>3. \/ pid_map' = pid_map
        \/ pid_map' = [pid_map EXCEPT ![e.pid].nb_unfound_dsos = @ + 1]
    BY <1>6, Zenon DEF ddprof_pr_sample
  <2>. HIDE DEF e
  <2>4. pid_map[e.pid] \in PidMapping
    BY <1>1, <2>2, Zenon
  <2>5. CASE pid_map' = pid_map
    <3>1. pid_map' \in [Pids -> PidMapping] /\ NoOverlap'
      BY <2>5, Zenon DEF IInv, NoOverlap
    <3>. QED  BY <1>2, <2>1, <2>2, <3>1, Zenon
  <2>6. CASE pid_map' = [pid_map EXCEPT ![e.pid].nb_unfound_dsos = @ + 1]
    <3>. DEFINE n == pid_map[e.pid].nb_unfound_dsos + 1
                pm == [pid_map[e.pid] EXCEPT !.nb_unfound_dsos = n]
    <3>1. pm \in PidMapping /\ pm.map = pid_map[e.pid].map
      BY <2>4 DEF PidMapping
    <3>2. pid_map' = [pid_map EXCEPT ![e.pid] = pm]
      BY <2>6, Zenon
    <3>. HIDE DEF pm
    <3>3. pid_map' \in [Pids -> PidMapping] /\ NoOverlap'
      BY <1>1, <2>2, <3>1, <3>2, ReplaceEntry, Zenon
    <3>. QED  BY <1>2, <2>1, <2>2, <3>3
  <2>. QED  BY <2>3, <2>5, <2>6, Zenon
<1>7. CASE pid_backpopulate
  <2>1. Idle("sample") /\ UNCHANGED <<vmas, now>>
    BY <1>7, Zenon DEF pid_backpopulate
  <2>2. e.pid \in Pids /\ Tail(events) \in Seq(Event)
    BY <2>1, HeadAndTail, Zenon DEF Idle, Event
  <2>3. now \in Nat /\ events \in Seq(Event) /\ BackpopulateTime \in Nat
    BY DEF IInv, BackpopulateTime
  <2>4. pid_map' = [pid_map EXCEPT ![e.pid] = Backpopulate(pid_map[e.pid])]
    BY <1>7, Zenon DEF pid_backpopulate
  <2>5. \/ /\ reading' = [pid |-> e.pid, next |-> 0, time |-> BackpopulateTime,
                          steady |-> TRUE, active |-> TRUE]
           /\ events' = events
        \/ events' = Tail(events) /\ reading' = reading
    BY <1>7, Zenon DEF pid_backpopulate
  <2>. HIDE DEF e
  <2>6. events' \in Seq(Event)
    BY <2>2, <2>3, <2>5, Zenon
  <2>7. reading' \in [pid : Pids, next : Nat, time : Nat, steady : BOOLEAN, active : BOOLEAN]
    <3>1. CASE reading' = reading
      BY <3>1, Zenon DEF IInv
    <3>2. CASE reading' = [pid |-> e.pid, next |-> 0, time |-> BackpopulateTime,
                           steady |-> TRUE, active |-> TRUE]
      BY <2>2, <2>3, <3>2, Zenon
    <3>. QED  BY <2>5, <3>1, <3>2, Zenon
  <2>8. /\ Backpopulate(pid_map[e.pid]) \in PidMapping
        /\ Backpopulate(pid_map[e.pid]).map = pid_map[e.pid].map
    <3>1. pid_map[e.pid] \in PidMapping
      BY <1>1, <2>2, Zenon
    <3>2. pid_map[e.pid].nb_unfound_dsos + 1 \in Nat
      BY <3>1 DEF PidMapping
    <3>. QED  BY <2>3, <3>1, <3>2, Zenon DEF Backpopulate, PidMapping
  <2>9. pid_map' \in [Pids -> PidMapping] /\ NoOverlap'
    BY <1>1, <2>2, <2>4, <2>8, ReplaceEntry, Zenon
  <2>. QED  BY <2>1, <2>6, <2>7, <2>9, Zenon DEF IInv
<1>8. CASE ReadLine
  <2>1. PICK line \in Lines :
          /\ pid_map' = [pid_map EXCEPT ![reading.pid] = Insert(@, dso_from_proc_line(ProcLine(line)))]
          /\ reading' = [reading EXCEPT !.next = line.end + 1]
    BY <1>8, Zenon DEF ReadLine
  <2>2. reading.pid \in Pids
    BY Zenon DEF IInv
  <2>3. line \in Vma /\ line.end \in Nat
    BY <2>2 DEF Lines, IInv, Vma, Dso
  <2>4. reading' \in [pid : Pids, next : Nat, time : Nat, steady : BOOLEAN, active : BOOLEAN]
    BY <2>1, <2>3 DEF IInv
  <2>5. /\ Insert(pid_map[reading.pid], line) \in PidMapping
        /\ check_invariants(Insert(pid_map[reading.pid], line).map)
    BY <1>1, <2>2, <2>3, InsertPidMapping, Zenon
  <2>6. pid_map' = [pid_map EXCEPT ![reading.pid] = Insert(pid_map[reading.pid], line)]
    BY <2>1, <2>3, LineIsExact, Zenon
  <2>7. pid_map' \in [Pids -> PidMapping] /\ NoOverlap'
    BY <2>2, <2>5, <2>6, ReplaceEntry, Zenon
  <2>8. UNCHANGED <<vmas, now, events>>
    BY <1>8, Zenon DEF ReadLine
  <2>. QED  BY <2>4, <2>7, <2>8, Zenon DEF IInv
<1>9. CASE ReadEnd
  <2>1. /\ pid_map' = [pid_map EXCEPT ![reading.pid].perm =
                                  IF reading.next = 0 THEN "kForbidden" ELSE @]
        /\ events' = Tail(events) /\ reading' = NotReading /\ UNCHANGED <<vmas, now>>
        /\ events # <<>>
    BY <1>9, Zenon DEF ReadEnd
  <2>2. reading.pid \in Pids /\ events' \in Seq(Event)
    BY <2>1, HeadAndTail, Zenon DEF IInv
  <2>3. reading' \in [pid : Pids, next : Nat, time : Nat, steady : BOOLEAN, active : BOOLEAN]
    BY <2>1, PidsAssumption, Zenon DEF NotReading
  <2>. DEFINE perm == IF reading.next = 0 THEN "kForbidden" ELSE pid_map[reading.pid].perm
              pm == [pid_map[reading.pid] EXCEPT !.perm = perm]
  <2>4. pm \in PidMapping /\ pm.map = pid_map[reading.pid].map
    BY <1>1, <2>2, Zenon DEF PidMapping
  <2>5. pid_map' = [pid_map EXCEPT ![reading.pid] = pm]
    BY <2>1, Zenon
  <2>. HIDE DEF pm
  <2>6. pid_map' \in [Pids -> PidMapping] /\ NoOverlap'
    BY <1>1, <2>2, <2>4, <2>5, ReplaceEntry, Zenon
  <2>. QED  BY <2>1, <2>2, <2>3, <2>6, Zenon DEF IInv
<1>10. CASE ddprof_worker_cycle
  <2>. DEFINE cycled(p) == IF p \in visited THEN reset_backpopulate_state(pid_map[p])
                                            ELSE NewPidMapping
  <2>1. pid_map' = [p \in Pids |-> cycled(p)] /\ UNCHANGED <<vmas, now, events, reading>>
    BY <1>10, Zenon DEF ddprof_worker_cycle
  <2>2. ASSUME NEW p \in Pids  PROVE cycled(p) \in PidMapping /\ check_invariants(cycled(p).map)
    <3>1. /\ reset_backpopulate_state(pid_map[p]) \in PidMapping
          /\ reset_backpopulate_state(pid_map[p]).map = pid_map[p].map
      BY <1>1, Zenon DEF reset_backpopulate_state, PidMapping
    <3>. QED  BY <1>1, <3>1, EmptyPidMapping, Zenon
  <2>. HIDE DEF cycled
  <2>3. pid_map' \in [Pids -> PidMapping] /\ NoOverlap'
    BY <2>1, <2>2, Zenon DEF NoOverlap
  <2>. QED  BY <2>1, <2>3, Zenon DEF IInv
<1>. QED  BY <1>3, <1>4, <1>5, <1>6, <1>7, <1>8, <1>9, <1>10, Zenon

\* A worker starts without mappings.
LEMMA InitInv == Init => IInv
<1>. SUFFICES ASSUME Init  PROVE IInv
  BY Zenon
<1>1. vmas \in [Pids -> SUBSET Vma]
  BY CandidatesAssumption, CandidatesAreVmas, Zenon DEF Init
<1>2. reading \in [pid : Pids, next : Nat, time : Nat, steady : BOOLEAN, active : BOOLEAN]
  BY PidsAssumption, Zenon DEF Init, NotReading
<1>3. pid_map \in [Pids -> PidMapping] /\ NoOverlap
  BY EmptyPidMapping, Zenon DEF Init, NoOverlap
<1>. QED  BY <1>1, <1>2, <1>3 DEF Init, IInv

\* Every step of a process, the kernel or the worker keeps the invariant.
LEMMA NextInv == IInv /\ [Next]_vars => IInv'
<1>1. ASSUME IInv, UNCHANGED vars  PROVE IInv'
  BY <1>1, Zenon DEF IInv, NoOverlap, vars
<1>. QED  BY <1>1, ProcessSteps, WorkerSteps, Zenon DEF Next

\* No step of the processes or of the worker makes two mappings of one process
\* overlap (DsoHdr::check_invariants), for every set of processes and mappings.
THEOREM MappingsNeverOverlap == Spec => []NoOverlap
<1>1. IInv => NoOverlap
  BY Zenon DEF IInv
<1>. QED  BY InitInv, NextInv, <1>1, PTL DEF Spec
-------------------------------------------------------------------------------
(* What a read of /proc leaves                                               *)

\* The mappings of a process in the kernel are apart as well.
KernelInv == \A p \in Pids : check_invariants(vmas[p])

\* While the process leaves its mappings alone, the part of the file that was
\* read is in the worker's map, and no mapping straddles the place reached.
ReadInv ==
  reading.active /\ reading.steady =>
    \A v \in vmas[reading.pid] :
      v.start < reading.next => v.end < reading.next /\ v \in pid_map[reading.pid].map

\* What a new mapping leaves of an old one that it overlaps are pieces of it.
LEMMA CutPieces ==
  ASSUME NEW v \in Vma, NEW m \in Vma, Overlap(v, m)
  PROVE  /\ \A x \in Cut(v, m) : PieceOf(x, v, m)
         /\ \A x, y \in Cut(v, m) : x = y \/ Disjoint(x, y)
<1>1. /\ v \in Dso /\ v.start \in Nat /\ v.end \in Nat /\ v.offset \in Nat
      /\ m.start \in Nat /\ m.end \in Nat /\ v.start <= v.end /\ m.start <= m.end
  BY Zenon DEF Vma, Dso
<1>. DEFINE o == IF v.file = Anon THEN 0 ELSE v.offset + m.end + 1 - v.start
            before == [v EXCEPT !.end = m.start - 1]
            after  == [v EXCEPT !.start = m.end + 1, !.offset = o]
<1>2. ASSUME NEW x \in Cut(v, m)
      PROVE  (x = before /\ v.start < m.start) \/ (x = after /\ m.end < v.end)
  BY <1>2, Zenon DEF Cut
<1>3. o \in Nat
  BY <1>1 DEF Overlap
<1>. HIDE DEF o
<1>4. before.start = v.start /\ before.end = m.start - 1
  BY <1>1, Zenon DEF Dso
<1>5. after.start = m.end + 1 /\ after.end = v.end
  BY <1>1, Zenon DEF Dso
<1>6. ASSUME v.start < m.start  PROVE PieceOf(before, v, m)
  <2>1. m.start - 1 \in Nat
    BY <1>1, <1>6
  <2>2. before \in Dso
    BY <1>1, <2>1, Zenon DEF Dso
  <2>. HIDE DEF before
  <2>. QED  BY <1>1, <1>4, <1>6, <2>2 DEF PieceOf, Disjoint, Overlap
<1>7. ASSUME m.end < v.end  PROVE PieceOf(after, v, m)
  <2>1. m.end + 1 \in Nat
    BY <1>1
  <2>2. after \in Dso
    BY <1>1, <1>3, <2>1, Zenon DEF Dso
  <2>. HIDE DEF after
  <2>. QED  BY <1>1, <1>5, <1>7, <2>2 DEF PieceOf, Disjoint, Overlap
<1>8. Disjoint(before, after) /\ Disjoint(after, before)
  BY <1>1, <1>4, <1>5 DEF Disjoint
<1>. HIDE DEF before, after
<1>. QED  BY <1>2, <1>6, <1>7, <1>8, Zenon

\* The kernel maps m where it has removed what was there.
LEMMA CarvedApart ==
  ASSUME NEW vs \in SUBSET Vma, check_invariants(vs), NEW m \in Vma
  PROVE  check_invariants(Carved(vs, m) \cup {m})
<1>1. vs \in SUBSET Dso /\ m \in Dso /\ m.start <= m.end
  BY Zenon DEF Vma
<1>2. /\ \A d \in vs : d.start <= d.end
      /\ \A d, e \in vs : d = e \/ Disjoint(d, e)
  BY <1>1, Pairwise, Zenon
<1>3. ASSUME NEW v \in vs, ~Overlap(v, m)  PROVE PieceOf(v, v, m)
  <2>1. v.start \in Nat /\ v.end \in Nat /\ m.start \in Nat /\ m.end \in Nat /\ v \in Dso
    BY Zenon DEF Vma, Dso
  <2>. QED  BY <1>2, <1>3, <2>1 DEF Overlap, PieceOf, Disjoint
<1>4. ASSUME NEW x \in Carved(vs, m)
      PROVE  \E v \in vs : PieceOf(x, v, m) /\ (x = v \/ (Overlap(v, m) /\ x \in Cut(v, m)))
  <2>1. CASE x \in vs /\ ~Overlap(x, m)
    BY <1>3, <2>1, Zenon
  <2>2. CASE \E v \in vs : Overlap(v, m) /\ x \in Cut(v, m)
    BY <2>2, CutPieces, Zenon
  <2>. QED  BY <1>4, <2>1, <2>2, Zenon DEF Carved
<1>5. ASSUME NEW x \in Carved(vs, m), NEW y \in Carved(vs, m)  PROVE x = y \/ Disjoint(x, y)
  <2>1. PICK d \in vs : PieceOf(x, d, m) /\ (x = d \/ (Overlap(d, m) /\ x \in Cut(d, m)))
    BY <1>4, Zenon
  <2>2. PICK e \in vs : PieceOf(y, e, m) /\ (y = e \/ (Overlap(e, m) /\ y \in Cut(e, m)))
    BY <1>4, Zenon
  <2>3. CASE d # e
    <3>1. Disjoint(d, e)
      BY <1>2, <2>3, Zenon
    <3>2. /\ d.start \in Nat /\ d.end \in Nat /\ e.start \in Nat /\ e.end \in Nat
          /\ x.start \in Nat /\ x.end \in Nat /\ y.start \in Nat /\ y.end \in Nat
      BY <1>1, <2>1, <2>2, Zenon DEF PieceOf, Dso
    <3>. QED  BY <3>1, <3>2, <2>1, <2>2 DEF PieceOf, Disjoint
  <2>4. CASE d = e /\ Overlap(d, m) /\ x \in Cut(d, m) /\ y \in Cut(d, m)
    BY <2>4, CutPieces, Zenon
  <2>5. CASE d = e /\ (x = d \/ y = d) /\ x # y
    <3>1. Overlap(d, m) /\ PieceOf(d, d, m)
      BY <2>1, <2>2, <2>5, Zenon
    <3>2. d.start \in Nat /\ d.end \in Nat /\ m.start \in Nat /\ m.end \in Nat
      BY <1>1, Zenon DEF Dso
    <3>. QED  BY <3>1, <3>2 DEF PieceOf, Overlap, Disjoint
  <2>. QED  BY <2>1, <2>2, <2>3, <2>4, <2>5, Zenon
<1>6. Carved(vs, m) \cup {m} \in SUBSET Dso
  BY <1>1, <1>4, Zenon DEF PieceOf
<1>7. \A x \in Carved(vs, m) : x.start <= x.end /\ Disjoint(x, m) /\ Disjoint(m, x)
  BY <1>4, Zenon DEF PieceOf, Disjoint
<1>. QED  BY <1>1, <1>5, <1>6, <1>7, Pairwise, Zenon

\* Inserting leaves alone the mappings that the new one does not touch.
LEMMA InsertKeepsOthers ==
  ASSUME NEW map \in SUBSET Dso, check_invariants(map), NEW new \in Vma,
         NEW d \in map, Disjoint(d, new)
  PROVE  d \in insert_erase_overlap(map, new)
<1>1. /\ d.start \in Nat /\ d.end \in Nat /\ new.start \in Nat /\ new.end \in Nat
      /\ d.start <= d.end /\ new.start <= new.end /\ new \in Dso
  BY Zenon DEF Vma, Dso, check_invariants
<1>2. CASE dso_find_adjust_same(map, new) # {}
  <2>1. ~is_same_or_smaller(d, new)
    BY <1>1 DEF is_same_or_smaller, Disjoint
  <2>. QED  BY <1>2, <2>1, Zenon DEF insert_erase_overlap
<1>3. CASE dso_find_adjust_same(map, new) = {}
  <2>1. d \notin get_intersection(map, new)
    BY <1>1, InsideRange, Zenon
  <2>. QED  BY <1>3, <2>1, Zenon DEF insert_erase_overlap, erase_range
<1>. QED  BY <1>2, <1>3, Zenon

\* The new mapping is there afterwards: one that is only shortened differs in
\* nothing else from it.
LEMMA InsertHolds ==
  ASSUME NEW map \in SUBSET Dso, NEW new \in Dso
  PROVE  new \in insert_erase_overlap(map, new)
<1>1. CASE dso_find_adjust_same(map, new) # {}
  <2>1. PICK d \in map : is_same_or_smaller(d, new)
    BY <1>1, Zenon DEF dso_find_adjust_same
  <2>2. d.file = new.file
    <3>1. determine_dso_type(d.file) = determine_dso_type(new.file)
          /\ (determine_dso_type(d.file) = "kStandard" => d.file = new.file)
      BY <2>1, Zenon DEF is_same_or_smaller
    <3>. QED  BY <3>1 DEF determine_dso_type
  <2>3. adjust_end(d, new.end) = new
    BY <2>1, <2>2, Zenon DEF is_same_or_smaller, adjust_end, Dso
  <2>. QED  BY <1>1, <2>1, <2>3, Zenon DEF insert_erase_overlap
<1>2. CASE dso_find_adjust_same(map, new) = {}
  BY <1>2, Zenon DEF insert_erase_overlap
<1>. QED  BY <1>1, <1>2, Zenon

\* The kernel's mappings change by one step of a process.
LEMMA KernelSteps ==
  ASSUME IInv, KernelInv, [Next]_vars
  PROVE  KernelInv'
<1>. USE DEF IInv
<1>1. ASSUME NEW p \in Pids, NEW vs, vmas' = [vmas EXCEPT ![p] = vs], check_invariants(vs)
      PROVE  KernelInv'
  BY <1>1, Zenon DEF KernelInv
<1>2. \A vs, ws : vs \subseteq ws /\ check_invariants(ws) => check_invariants(vs)
  BY Zenon DEF check_invariants
<1>3. ASSUME NEW p \in Pids, Mmap(p)  PROVE KernelInv'
  <2>1. PICK m \in Candidates : vmas' = [vmas EXCEPT ![p] = Carved(vmas[p], m) \cup {m}]
    BY <1>3, Zenon DEF Mmap
  <2>2. check_invariants(Carved(vmas[p], m) \cup {m})
    BY CandidatesAreVmas, CarvedApart, Zenon DEF KernelInv
  <2>. QED  BY <1>1, <2>1, <2>2, Zenon
<1>4. ASSUME NEW p \in Pids, Munmap(p) \/ Exit(p)  PROVE KernelInv'
  <2>1. PICK vs \in SUBSET vmas[p] : vmas' = [vmas EXCEPT ![p] = vs]
    BY <1>4, Zenon DEF Munmap, Exit
  <2>. QED  BY <1>1, <1>2, <2>1, Zenon DEF KernelInv
<1>5. ASSUME NEW p \in Pids, Exec(p)  PROVE KernelInv'
  <2>1. PICK m \in Candidates : vmas' = [vmas EXCEPT ![p] = {m}]
    BY <1>5, Zenon DEF Exec
  <2>2. check_invariants({m})
    BY CandidatesAssumption DEF check_invariants, Dso
  <2>. QED  BY <1>1, <2>1, <2>2, Zenon
<1>6. ASSUME NEW p \in Pids, Fork(p)  PROVE KernelInv'
  <2>1. PICK c \in Pids : vmas' = [vmas EXCEPT ![c] = vmas[p]]
    BY <1>6, Zenon DEF Fork
  <2>. QED  BY <1>1, <2>1, Zenon DEF KernelInv
<1>7. CASE UNCHANGED vmas
  BY <1>7, Zenon DEF KernelInv
<1>. QED
  BY <1>3, <1>4, <1>5, <1>6, <1>7, Zenon
  DEF Next, Sample, ddprof_pr_mmap, ddprof_pr_comm, ddprof_pr_fork, ddprof_pr_sample,
      pid_backpopulate, ReadLine, ReadEnd, ddprof_worker_cycle, vars

\* A step of a process is noticed by the read, or leaves the mappings it reads alone.
LEMMA ReadOverProcessSteps ==
  ASSUME IInv, ReadInv, NEW p \in Pids,
         Mmap(p) \/ Munmap(p) \/ Exec(p) \/ Fork(p) \/ Exit(p) \/ Sample(p)
  PROVE  ReadInv'
<1>. USE DEF IInv
<1>1. ASSUME UNCHANGED <<vmas, pid_map, reading>>  PROVE ReadInv'
  BY <1>1, Zenon DEF ReadInv
<1>2. ASSUME NEW q \in Pids, NEW vs, vmas' = [vmas EXCEPT ![q] = vs], Unsteady(q),
             UNCHANGED pid_map
      PROVE  ReadInv'
  <2>1. /\ reading'.active = reading.active /\ reading'.pid = reading.pid
        /\ reading'.next = reading.next
        /\ reading'.steady = (reading.steady /\ ~(reading.active /\ reading.pid = q))
    BY <1>2, Zenon DEF Unsteady
  <2>2. CASE reading.active /\ reading.steady /\ reading.pid # q
    <3>1. vmas'[reading.pid] = vmas[reading.pid]
      BY <1>2, <2>2, Zenon
    <3>. QED  BY <1>2, <2>1, <2>2, <3>1, Zenon DEF ReadInv
  <2>3. CASE ~(reading.active /\ reading.steady /\ reading.pid # q)
    BY <2>1, <2>3, Zenon DEF ReadInv
  <2>. QED  BY <2>2, <2>3, Zenon
<1>3. CASE Mmap(p) \/ Munmap(p) \/ Exec(p) \/ Exit(p)
  <2>1. Unsteady(p) /\ UNCHANGED pid_map /\ \E vs : vmas' = [vmas EXCEPT ![p] = vs]
    BY <1>3, Zenon DEF Mmap, Munmap, Exec, Exit
  <2>. QED  BY <1>2, <2>1, Zenon
<1>4. CASE Fork(p)
  BY <1>2, <1>4, Zenon DEF Fork
<1>5. CASE Sample(p)
  BY <1>1, <1>5, Zenon DEF Sample
<1>. QED  BY <1>3, <1>4, <1>5, Zenon

\* Each line that is read enters the map and pushes out none of those before it.
LEMMA ReadOverWorkerSteps ==
  ASSUME IInv, KernelInv, ReadInv,
         \/ ddprof_pr_mmap \/ ddprof_pr_comm \/ ddprof_pr_fork \/ ddprof_pr_sample
         \/ pid_backpopulate \/ ReadLine \/ ReadEnd \/ ddprof_worker_cycle
  PROVE  ReadInv'
<1>1. CASE /\ ddprof_pr_mmap \/ ddprof_pr_comm \/ ddprof_pr_fork \/ ddprof_pr_sample
              \/ ddprof_worker_cycle
  <2>1. ~reading.active /\ reading' = reading
    BY <1>1, Zenon DEF ddprof_pr_mmap, ddprof_pr_comm, ddprof_pr_fork, ddprof_pr_sample,
                ddprof_worker_cycle, Idle
  <2>. QED  BY <2>1, Zenon DEF ReadInv
<1>2. CASE pid_backpopulate
  <2>1. \/ ~reading.active /\ reading' = reading
        \/ reading'.next = 0 /\ reading'.pid \in Pids /\ UNCHANGED vmas
    <3>1. ~reading.active /\ Head(events).pid \in Pids
      BY <1>2, HeadAndTail, Zenon DEF pid_backpopulate, Idle, Event
    <3>2. /\ UNCHANGED vmas
          /\ \/ reading' = reading
             \/ reading' = [pid |-> Head(events).pid, next |-> 0, time |-> BackpopulateTime,
                            steady |-> TRUE, active |-> TRUE]
      BY <1>2, Zenon DEF pid_backpopulate
    <3>. QED  BY <3>1, <3>2
  <2>2. CASE reading'.next = 0 /\ reading'.pid \in Pids /\ UNCHANGED vmas
    <3>1. \A v \in vmas'[reading'.pid] : v.start \in Nat
      BY <2>2 DEF IInv, Vma, Dso
    <3>. QED  BY <2>2, <3>1 DEF ReadInv
  <2>. QED  BY <2>1, <2>2, Zenon DEF ReadInv
<1>3. CASE ReadLine
  <2>. DEFINE p == reading.pid
              map == pid_map[p].map
  <2>1. PICK line \in Lines :
          /\ \A other \in Lines : line.start <= other.start
          /\ pid_map' = [pid_map EXCEPT ![p] = Insert(@, dso_from_proc_line(ProcLine(line)))]
          /\ reading' = [reading EXCEPT !.next = line.end + 1]
          /\ UNCHANGED vmas
    BY <1>3, Zenon DEF ReadLine
  <2>2. /\ p \in Pids /\ reading.next \in Nat /\ pid_map[p] \in PidMapping
        /\ map \in SUBSET Dso /\ check_invariants(map)
    BY Zenon DEF IInv, NoOverlap, PidMapping
  <2>3. line \in vmas[p] /\ line.start >= reading.next /\ line \in Vma
    BY <2>2, Zenon DEF Lines, IInv
  <2>4. /\ reading'.pid = p /\ reading'.next = line.end + 1
        /\ reading'.active = reading.active /\ reading'.steady = reading.steady
    BY <2>1, Zenon DEF IInv
  <2>5. pid_map'[p].map = insert_erase_overlap(map, line)
    <3>1. pid_map'[p] = Insert(pid_map[p], line)
      BY <2>1, <2>2, <2>3, LineIsExact, Zenon DEF IInv
    <3>. QED  BY <2>2, <3>1, Zenon DEF Insert, PidMapping
  <2>6. ASSUME reading.active, reading.steady, NEW v \in vmas[p], v.start < line.end + 1
        PROVE  v.end < line.end + 1 /\ v \in pid_map'[p].map
    <3>1. /\ v.start \in Nat /\ v.end \in Nat /\ line.start \in Nat /\ line.end \in Nat
          /\ v.start <= v.end /\ line.start <= line.end /\ line \in Dso
      BY <2>2, <2>3 DEF IInv, Vma, Dso
    <3>2. CASE v = line
      BY <2>2, <2>5, <3>1, <3>2, InsertHolds
    <3>3. CASE v.start < reading.next
      <4>1. v.end < reading.next /\ v \in map
        BY <2>6, <3>3, Zenon DEF ReadInv
      <4>2. v.end < line.start
        BY <2>2, <2>3, <3>1, <4>1
      <4>. QED  BY <2>2, <2>3, <2>5, <3>1, <4>1, <4>2, InsertKeepsOthers DEF Disjoint
    <3>4. CASE v # line /\ v.start >= reading.next
      <4>1. line.start <= v.start
        BY <2>1, <3>4, Zenon DEF Lines
      <4>2. line.start # v.start
        BY <2>2, <2>3, <3>4, Zenon DEF KernelInv, check_invariants
      <4>3. line.end < v.start
        BY <2>2, <2>3, <3>1, <4>1, <4>2 DEF KernelInv, check_invariants
      <4>. QED  BY <2>6, <3>1, <4>3
    <3>. QED  BY <2>2, <3>1, <3>2, <3>3, <3>4
  <2>. QED  BY <2>1, <2>4, <2>6, Zenon DEF ReadInv
<1>4. CASE ReadEnd
  BY <1>4, Zenon DEF ReadEnd, NotReading, ReadInv
<1>. QED  BY <1>1, <1>2, <1>3, <1>4, Zenon

\* DsoHdr::pid_backpopulate: whatever the worker's map held before, lost events
\* included, a read of /proc/<pid>/maps during which the process does not change
\* its mappings leaves every one of them in the map, with its exact range, offset,
\* file and protection, for every set of processes and mappings.
THEOREM ReadAlwaysRepairs == Spec => []ReadRepairs
<1>. DEFINE Inv == IInv /\ KernelInv /\ ReadInv
<1>1. Init => Inv
  <2>1. ASSUME Init  PROVE KernelInv /\ ReadInv
    <3>1. check_invariants({})
      BY Zenon DEF check_invariants
    <3>. QED  BY <2>1, <3>1, CandidatesAssumption, Zenon DEF Init, KernelInv, ReadInv, NotReading
  <2>. QED  BY <2>1, InitInv, Zenon
<1>2. Inv /\ [Next]_vars => Inv'
  <2>1. ASSUME Inv, UNCHANGED vars  PROVE ReadInv'
    BY <2>1, Zenon DEF ReadInv, vars
  <2>2. ASSUME Inv, [Next]_vars  PROVE ReadInv'
    BY <2>1, <2>2, ReadOverProcessSteps, ReadOverWorkerSteps, Zenon DEF Next
  <2>. QED  BY <2>2, NextInv, KernelSteps, Zenon
<1>3. Inv => ReadRepairs
  <2>. SUFFICES ASSUME Inv, reading.active, reading.steady, Lines = {},
                       NEW v \in vmas[reading.pid]
                PROVE  v \in pid_map[reading.pid].map
    BY Zenon DEF ReadRepairs
  <2>1. reading.next \in Nat /\ v.start \in Nat
    BY DEF IInv, Vma, Dso
  <2>2. v.start < reading.next
    BY <2>1 DEF Lines
  <2>. QED  BY <2>2, Zenon DEF ReadInv
<1>. QED  BY <1>1, <1>2, <1>3, PTL DEF Spec
===============================================================================
