------------------------------ MODULE SymbolHdr ------------------------------
(***************************************************************************)
(* The names the worker keeps: the symbol table, and the lookups that fill *)
(* it (struct SymbolHdr).  Frames hold positions in the table, never the   *)
(* names themselves.  The lookups of a process are erased when the worker  *)
(* frees it; the table only grows, and one lookup renames its entries.     *)
(*                                                                         *)
(* A lookup is a function on the keys present.  A symbol is a tuple whose  *)
(* first element says what it was made from.  Positions start at 1.        *)
(***************************************************************************)
EXTENDS DsoHdr, SequencesExt

CONSTANTS
  k_nb_bin_lookups   \* attempts to find the binary of a process

ASSUME LookupsAssumption == k_nb_bin_lookups \in Nat \ {0}

k_symbol_idx_null == 0

Empty == [x \in {} |-> x]

Erase(f, p) == [x \in DOMAIN f \ {p} |-> f[x]]

\* map.insert: a key that is present keeps its value.
InsertKey(f, k, v) == f @@ (k :> v)

NewSymbolHdr ==
  [symbol_table |-> <<>>, lookup |-> Empty, bin_map |-> Empty, pid_map |-> Empty,
   exe_name_map |-> Empty, runtime |-> Empty, mapinfo |-> Empty, cycle_counter |-> 1]

\* Results are the header and the position of the symbol.
Found(hdr, idx) == [hdr |-> hdr, idx |-> idx]

AddSymbol(hdr, symbol) ==
  Found([hdr EXCEPT !.symbol_table = Append(@, symbol)], Len(hdr.symbol_table) + 1)

GetOrInsert(hdr, key, symbol) ==
  IF key \in DOMAIN hdr.lookup THEN Found(hdr, hdr.lookup[key])
  ELSE LET r == AddSymbol(hdr, symbol)
       IN Found([r.hdr EXCEPT !.lookup = InsertKey(@, key, r.idx)], r.idx)

\* CommonSymbolLookup: one symbol for each kind of error.
CommonSymbol(hdr, lookup_case) == GetOrInsert(hdr, <<lookup_case>>, <<lookup_case>>)

has_relevant_path(file) == determine_dso_type(file) = "kStandard"

\* DsoSymbolLookup: address 0 stands for the file as a whole.
DsoSymbol(hdr, addr, dso) ==
  IF ~has_relevant_path(dso.file)
    THEN LET type == <<determine_dso_type(dso.file)>> IN GetOrInsert(hdr, type, type)
    ELSE GetOrInsert(hdr, <<"file", dso.file, addr>>, <<"file", dso.file, addr>>)
-----------------------------------------------------------------------------
(* BaseFrameSymbolLookup: the frame that names the program                 *)

\* The loop stops at the first mapping that is executable or standard.
dso_find_first_std_executable(map) ==
  LET stops == {d \in map : d.prot_exec \/ determine_dso_type(d.file) = "kStandard"}
  IN {d \in stops : \A e \in stops : d.start <= e.start}

\* exe is the file /proc/<pid>/exe links to, or Anon when it cannot be read.
insert_bin_symbol(hdr, pid, map, exe) ==
  LET first == {d \in dso_find_first_std_executable(map) : has_relevant_path(d.file)}
      file  == IF first = {} THEN exe ELSE (CHOOSE d \in first : TRUE).file
      r     == IF first = {} THEN AddSymbol(hdr, <<"file", file, 0>>)
               ELSE DsoSymbol(hdr, 0, CHOOSE d \in first : TRUE)
  IN IF file = Anon THEN Found(hdr, k_symbol_idx_null)
     ELSE Found([r.hdr EXCEPT !.bin_map = InsertKey(@, pid, r.idx),
                              !.exe_name_map = InsertKey(@, pid, file)], r.idx)

\* The binary, or a symbol made from the pid after a failure, for good once
\* the attempts are used up.
BaseFrameSymbol(hdr, pid, map, exe) ==
  LET failed  == pid \in DOMAIN hdr.pid_map
      counted == IF failed THEN [hdr EXCEPT !.pid_map[pid].nb_bin_lookups = @ + 1] ELSE hdr
      retry   == failed => counted.pid_map[pid].nb_bin_lookups < k_nb_bin_lookups
      r       == IF retry THEN insert_bin_symbol(counted, pid, map, exe)
                 ELSE Found(counted, k_symbol_idx_null)
      new     == AddSymbol(r.hdr, <<"pid", pid>>)
  IN IF pid \in DOMAIN hdr.bin_map THEN Found(hdr, hdr.bin_map[pid])
     ELSE IF r.idx # k_symbol_idx_null THEN r
     ELSE IF failed THEN Found(r.hdr, r.hdr.pid_map[pid].symb_idx)
     ELSE Found([new.hdr EXCEPT !.pid_map =
                   InsertKey(@, pid, [symb_idx |-> new.idx, nb_bin_lookups |-> 1])], new.idx)

get_exe_name(hdr, pid) ==
  IF pid \in DOMAIN hdr.exe_name_map THEN hdr.exe_name_map[pid] ELSE Anon
-----------------------------------------------------------------------------
(* RuntimeSymbolLookup: the names a JIT compiler writes to its own file    *)

\* SymbolMap::find_closest and is_within.
find_closest(map, pc) ==
  {s \in DOMAIN map : /\ s <= pc /\ pc <= map[s].end
                      /\ \A t \in DOMAIN map : t <= pc => t <= s}

\* A record that begins inside a span of another name takes the span's place,
\* and its symbol: whoever holds the position sees the new name.
insert_or_replace(hdr, pid, record) ==
  LET map   == hdr.runtime[pid].map
      end   == record.addr + record.size - 1
      found == find_closest(map, record.addr)
      start == CHOOSE s \in found : TRUE
      idx   == map[start].idx
      new   == AddSymbol(hdr, <<"jit", record.name>>)
  IN CASE record.addr = 0 \/ record.size = 0 -> hdr
       [] found = {} ->
            [new.hdr EXCEPT !.runtime[pid].map = InsertKey(@, record.addr, [end |-> end, idx |-> new.idx])]
       [] found # {} /\ hdr.symbol_table[idx] = <<"jit", record.name>> ->
            [hdr EXCEPT !.runtime[pid].map[start].end = IF end > @ THEN end ELSE @]
       [] OTHER ->
            [hdr EXCEPT !.runtime[pid].map =
                          InsertKey(Erase(map, start), record.addr, [end |-> end, idx |-> idx]),
                        !.symbol_table[idx] = <<"jit", record.name>>]

has_lookup_failure(info, path, cycle) == path \in DOMAIN info.failed /\ info.failed[path] = cycle

\* jitdump_read, fill_from_perfmap: all records that are complete.  A file that
\* cannot be opened leaves the map as it is, in both formats.
Fill(hdr, pid, file) ==
  FoldLeft(LAMBDA h, record : insert_or_replace(h, pid, record), hdr, file)

\* get_or_insert (path "perfmap") and get_or_insert_jitdump.
RuntimeSymbol(hdr, pid, pc, path, file) ==
  LET h0     == [hdr EXCEPT !.runtime = InsertKey(@, pid, [map |-> Empty, failed |-> Empty])]
      known  == find_closest(h0.runtime[pid].map, pc)
      h1     == IF known = {} /\ ~has_lookup_failure(h0.runtime[pid], path, h0.cycle_counter)
                  THEN Fill(h0, pid, file) ELSE h0
      found  == find_closest(h1.runtime[pid].map, pc)
  IN IF found = {}
       THEN Found([h1 EXCEPT !.runtime[pid].failed = (path :> h1.cycle_counter) @@ @], k_symbol_idx_null)
       ELSE Found(h1, h1.runtime[pid].map[CHOOSE s \in found : TRUE].idx)
-----------------------------------------------------------------------------
\* MapInfoLookup: by the start address alone.
MapInfo(hdr, pid, dso) ==
  LET h == [hdr EXCEPT !.mapinfo = InsertKey(@, pid, Empty)]
  IN [h EXCEPT !.mapinfo[pid] = InsertKey(@, dso.start, [start |-> dso.start, end |-> dso.end, file |-> dso.file])]

\* SymbolHdr::clear; the names of the executables are not erased.
clear(hdr, pid) ==
  [hdr EXCEPT !.bin_map = Erase(@, pid), !.pid_map = Erase(@, pid),
              !.mapinfo = Erase(@, pid), !.runtime = Erase(@, pid)]

cycle(hdr) == [hdr EXCEPT !.cycle_counter = @ + 1]
=============================================================================
