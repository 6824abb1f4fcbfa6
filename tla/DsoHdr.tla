------------------------------- MODULE DsoHdr -------------------------------
(***************************************************************************)
(* The memory mappings the worker keeps for each profiled process          *)
(* (class DsoHdr and class Dso).  A process has a map of mappings, ordered *)
(* by start address, that must never overlap: an address belongs to one    *)
(* mapping at most.  Two sources fill it: the mmap events of the kernel,   *)
(* and /proc/<pid>/maps, read when an address is not found                 *)
(* ("backpopulation").                                                     *)
(*                                                                         *)
(* Addresses are page numbers.  A map is the set of its mappings: the key  *)
(* std::map stores is always the mapping's own start.  A process without   *)
(* an entry in _pid_map is one with the entry operator[] would create.     *)
(***************************************************************************)
EXTENDS Integers

CONSTANTS
  Files,      \* files on disk, a name and an inode each
  Anon,       \* memory without a file
  JitDump,    \* the marker file of a JIT compiler
  k_nb_requests_between_backpopulates

ASSUME FilesAssumption == Anon \notin Files /\ JitDump \notin Files /\ Anon # JitDump

ASSUME ThresholdAssumption == k_nb_requests_between_backpopulates \in Nat \ {0}

Dso == [start : Nat, end : Nat, offset : Nat, file : Files \cup {Anon, JitDump}, prot_exec : BOOLEAN]

determine_dso_type(file) ==
  CASE file = Anon -> "kAnon"
    [] file = JitDump -> "kJITDump"
    [] OTHER -> "kStandard"

is_within(dso, addr) == addr >= dso.start /\ addr <= dso.end

is_same_file(old, new) == determine_dso_type(old.file) = "kStandard" /\ old.file = new.file

MutantIsSameOrSmaller(old, new) ==   \* the file is not compared
  /\ old.start = new.start
  /\ old.prot_exec = new.prot_exec
  /\ new.end <= old.end

\* Only the file of a standard mapping is compared, the type of the others.
is_same_or_smaller(old, new) ==
  /\ old.start = new.start
  /\ old.offset = new.offset
  /\ determine_dso_type(old.file) = determine_dso_type(new.file)
  /\ determine_dso_type(old.file) = "kStandard" => old.file = new.file
  /\ old.prot_exec = new.prot_exec
  /\ new.end <= old.end

adjust_end(dso, new_end) == [dso EXCEPT !.end = new_end]

\* The file offset stays what it was for the old start.
adjust_start(dso, new_start) == [dso EXCEPT !.start = new_start]

is_intersection_allowed(old, new) ==
  \/ is_same_file(old, new)
  \/ determine_dso_type(old.file) = "kStandard" /\ determine_dso_type(new.file) = "kAnon"
-----------------------------------------------------------------------------
(* Searching a map                                                         *)

\* The mapping with the greatest start not above addr (at most one).
Closest(map, addr) ==
  {d \in map : d.start <= addr /\ \A e \in map : e.start <= addr => e.start <= d.start}

\* dso_find_closest: the mapping addr belongs to (at most one).
dso_find_closest(map, addr) == {d \in Closest(map, addr) : is_within(d, addr)}

MutantGetIntersection(map, new) ==   \* the end taken as exclusive
  {d \in map : new.start < d.start /\ d.start < new.end}
    \cup {d \in Closest(map, new.start) : d.end >= new.start}

get_intersection(map, new) ==
  {d \in map : new.start < d.start /\ d.start <= new.end}
    \cup {d \in Closest(map, new.start) : d.end >= new.start}
-----------------------------------------------------------------------------
(* Inserting a mapping                                                     *)

\* What erase_range leaves of a mapping of range: the part after new if it is
\* the last one, the part before new if it is the first one, both if new lies
\* inside it, as far as the intersection is allowed.
Remains(d, range, new) ==
  LET allowed == is_intersection_allowed(d, new)
      last    == \A e \in range : e.start <= d.start
      first   == \A e \in range : d.start <= e.start
      before  == adjust_end(d, new.start - 1)
      after   == adjust_start(d, new.end + 1)
  IN {p \in {before} : allowed /\ new.start > d.start /\ first}
       \cup {p \in {after} : allowed /\ new.end < d.end /\ last}

erase_range(map, range, new) ==
  (map \ range) \cup UNION {Remains(d, range, new) : d \in range}

\* dso_find_adjust_same: the mapping at the same start that new only shortens.
dso_find_adjust_same(map, new) == {d \in map : is_same_or_smaller(d, new)}

insert_erase_overlap(map, new) ==
  IF dso_find_adjust_same(map, new) # {}
    THEN {IF is_same_or_smaller(d, new) THEN adjust_end(d, new.end) ELSE d : d \in map}
    ELSE erase_range(map, get_intersection(map, new), new) \cup {new}

\* The test the worker runs at each cycle.
check_invariants(map) ==
  /\ \A d \in map : d.start <= d.end
  /\ \A d, e \in map : d.start < e.start => d.end < e.start
  /\ \A d, e \in map : d.start = e.start => d = e
-----------------------------------------------------------------------------
(* The state of a process                                                  *)

\* PidMapping with its BackpopulateState; time 0 is "never backpopulated".
NewPidMapping ==
  [map |-> {}, nb_unfound_dsos |-> 0, last_backpopulate_time |-> 0, perm |-> "kAllowed",
   jitdump_addr |-> 0]

\* insert_erase_overlap with the effect on the PidMapping.
Insert(pm, new) ==
  LET found == dso_find_adjust_same(pm.map, new) # {}
  IN [pm EXCEPT !.map = insert_erase_overlap(pm.map, new),
                !.jitdump_addr = IF determine_dso_type(new.file) = "kJITDump" /\ ~found
                                   THEN new.start ELSE @]

MutantIgnored(pm, timestamp) == FALSE   \* old events are applied as well

\* maybe_insert_erase_overlap: an event older than the last backpopulation is
\* ignored, since /proc showed what came after it.
Ignored(pm, timestamp) == timestamp < pm.last_backpopulate_time

maybe_insert_erase_overlap(pm, new, timestamp) ==
  IF Ignored(pm, timestamp) THEN pm ELSE Insert(pm, new)

\* dso_find_or_backpopulate skips the zero page; the others are backpopulated
\* when no mapping holds them and the last attempt did not read an empty file.
k_zero_page_limit == 1

Unknown(pm, addr) == addr >= k_zero_page_limit /\ dso_find_closest(pm.map, addr) = {}
-----------------------------------------------------------------------------
(* The mappings of the kernel, which unlike those of the worker keep the   *)
(* offset right when they are cut                                          *)

\* What a new mapping leaves of an old one.
Cut(v, m) ==
  {p \in {[v EXCEPT !.end = m.start - 1]} : v.start < m.start}
    \cup {p \in {[v EXCEPT !.start = m.end + 1,
                           !.offset = IF v.file = Anon THEN 0 ELSE @ + m.end + 1 - v.start]} :
            m.end < v.end}

Overlap(v, m) == v.start <= m.end /\ m.start <= v.end

Carved(vs, m) == {v \in vs : ~Overlap(v, m)} \cup UNION {Cut(v, m) : v \in {w \in vs : Overlap(w, m)}}
=============================================================================
