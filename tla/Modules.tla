------------------------------- MODULE Modules -------------------------------
(***************************************************************************)
(* The files behind the mappings, and the modules the DWARF unwinder loads *)
(* from them.  All processes share the list of files; each process has its *)
(* own unwinder (DwflWrapper), which keeps a module for each file and the  *)
(* difference (bias) between the addresses of the process and of the file. *)
(***************************************************************************)
EXTENDS SymbolHdr

CONSTANTS
  Local,      \* files the profiler also finds under their own path
  Broken,     \* files without a segment for their code, or that libdwfl refuses
  FileSize    \* pages a file's module covers

ASSUME FileSizeAssumption ==
  Local \subseteq Files /\ Broken \subseteq Files /\ FileSize \in [Files -> Nat \ {0}]

k_file_info_undef == -1

k_file_info_error == 0

LocalPath == <<>>

\* /proc/<pid>/root/...
ProcPath(pid) == <<pid>>

\* find_file_info; alive are the processes with a directory in /proc.
find_file_info(file, pid, alive) ==
  IF file \in Local THEN {LocalPath} ELSE IF pid \in alive THEN {ProcPath(pid)} ELSE {}

KnownFile(infos, file) == {i \in DOMAIN infos : infos[i].file = file}

FileInfoValue(file, path) == [file |-> file, path |-> path, errored |-> FALSE]

\* update_id_from_dso and update_id_from_path: the file infos and the id.  A file
\* found under another path is taken from there, and tried again.
update_id_from_dso(infos, dso, pid, alive) ==
  LET paths == find_file_info(dso.file, pid, alive)
      path  == CHOOSE p \in paths : TRUE
      id    == CHOOSE i \in KnownFile(infos, dso.file) : TRUE
      value == FileInfoValue(dso.file, path)
  IN IF ~has_relevant_path(dso.file) \/ paths = {} THEN [infos |-> infos, id |-> k_file_info_error]
     ELSE IF KnownFile(infos, dso.file) = {}
       THEN [infos |-> Append(infos, value), id |-> Len(infos) + 1]
     ELSE [infos |-> IF infos[id].path = path THEN infos ELSE [infos EXCEPT ![id] = value], id |-> id]

\* The id is looked up once and kept in the mapping, an error as well.
get_or_insert_file_info(infos, dso, pid, alive) ==
  IF dso.id # k_file_info_undef THEN [infos |-> infos, id |-> dso.id]
  ELSE update_id_from_dso(infos, dso, pid, alive)
-----------------------------------------------------------------------------
(* DwflWrapper                                                             *)

\* attach takes the registers and the stack from the sample: it does not
\* need the process.
NewDwfl == [attached |-> FALSE, inconsistent |-> FALSE, mods |-> Empty, loaded |-> {}]

Readable(path, alive) == path = LocalPath \/ (path # LocalPath /\ path[1] \in alive)

\* The file has one segment, as long as its module.
find_elf_segment(file, file_offset) == file \notin Broken /\ file_offset < FileSize[file]

compute_elf_bias(dso) == dso.start - dso.offset

\* The outcome of report_module, and whether it marks the file.
report_module(dwfl, pc, dso, info, alive) ==
  CASE info.errored -> "errored"
    [] ~info.errored /\ (\E m \in dwfl.loaded : m.low <= pc /\ pc <= m.high) -> "inconsistent"
    [] ~info.errored /\ (\A m \in dwfl.loaded : pc < m.low \/ m.high < pc) ->
         IF ~Readable(info.path, alive) THEN "unreadable"
         ELSE IF find_elf_segment(info.file, pc - dso.start + dso.offset) THEN "ok" ELSE "set_errored"

\* register_mod: whatever was inconsistent before is forgotten.
register_mod(dwfl, pc, dso, id, info, alive) ==
  LET status == report_module(dwfl, pc, dso, info, alive)
      bias   == compute_elf_bias(dso)
      module == [low |-> bias, high |-> bias + FileSize[info.file] - 1]
      flagged == [dwfl EXCEPT !.inconsistent = status = "inconsistent"]
  IN [status |-> status,
      dwfl |-> IF status # "ok" THEN flagged
               ELSE [flagged EXCEPT !.mods = (id :> bias) @@ @, !.loaded = @ \cup {module}]]
=============================================================================
