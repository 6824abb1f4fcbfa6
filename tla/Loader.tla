------------------------------- MODULE Loader -------------------------------
(***************************************************************************)
(* How processes come by the profiling library.  The loader library, the   *)
(* one a program links with or preloads, finds it and the ddprof           *)
(* executable next to itself or in the data it embeds; the ddprof wrapper  *)
(* finds it and the loader in the same way.  Embedded data is written into *)
(* files of the temporary directory that all processes share.              *)
(***************************************************************************)
EXTENDS Naturals, Sequences

CONSTANTS
  Apps,       \* processes that load the library
  MayFail     \* may system calls fail and processes die?

ASSUME MayFailAssumption == MayFail \in BOOLEAN

VARIABLES
  installed,  \* what is found next to the loader: the executable, the library
  files,      \* the shared files, by kind
  loader      \* the progress of the constructor in each process

loaderVars == <<installed, files, loader>>

NewLoader ==
  [pc |-> "new", lib_env |-> FALSE, exe_env |-> "none", handle |-> "none", want |-> <<>>, ok |-> TRUE]

LoaderInit ==
  /\ installed \in [exe : {TRUE}, lib : {"other_hash", "same_hash", "unloadable"}]
                     \cup [exe : {FALSE}, lib : {"absent", "same_hash"}]
  /\ files = [k \in {"lib", "exe", "loader"} |-> "absent"]
  /\ loader = [a \in Apps |-> NewLoader]

Set(a, l) == loader' = [loader EXCEPT ![a] = l]

\* What dlopen makes of the shared file.
FromFile(handle) == IF files["lib"] = "whole" THEN handle ELSE "broken"

\* What is installed next to the wrapper is taken as it is.
find_lib == installed.lib # "absent"

\* The profiling library that the wrapper names.
LoadNamed(a) ==
  /\ loader[a].pc = "new" /\ loader[a].lib_env
  /\ Set(a, [loader[a] EXCEPT !.pc = "loaded",
        !.handle = CASE ~find_lib -> FromFile("named")
                     [] installed.lib = "unloadable" -> "none"
                     [] OTHER -> "named"])
  /\ UNCHANGED <<installed, files>>

find_ddprof_exe == installed.exe

\* The library must be the one this loader was built with; its dlopen may still fail.
find_installed_profiling_lib == installed.lib \in {"same_hash", "unloadable"}

LoadInstalled(a) ==
  /\ loader[a].pc = "new" /\ ~loader[a].lib_env
  /\ Set(a, IF find_ddprof_exe /\ find_installed_profiling_lib /\ installed.lib # "unloadable"
              THEN [loader[a] EXCEPT !.pc = "loaded", !.handle = "installed", !.exe_env = "installed"]
              ELSE [loader[a] EXCEPT !.pc = "stat", !.want = <<"lib", "exe">>])
  /\ UNCHANGED <<installed, files>>

get_library_path(a) ==
  /\ loader[a].pc = "new"
  /\ Set(a, [loader[a] EXCEPT !.pc = "stat", !.lib_env = TRUE,
                              !.want = IF find_lib THEN <<"loader">> ELSE <<"lib", "loader">>])
  /\ UNCHANGED <<installed, files>>
-----------------------------------------------------------------------------
(* load_embedded_profiling_lib and the files of the wrapper                *)

Kind(a) == Head(loader[a].want)

\* After each file.  The loader makes both whether the first could be made or not;
\* the wrapper, whose lib_env the program will see, gives up.
Made(a, ok) ==
  LET l == [loader[a] EXCEPT !.ok = @ /\ ok, !.want = Tail(@)]
  IN Set(a, IF l.want # <<>> /\ (l.ok \/ ~l.lib_env) THEN [l EXCEPT !.pc = "stat"]
            ELSE IF l.ok /\ ~l.lib_env THEN [l EXCEPT !.pc = "dlopen", !.exe_env = "embedded"]
            ELSE [l EXCEPT !.pc = "loaded"])

\* get_or_create_temp_file: the name holds the digest of the content, so that a
\* file that exists is the right one.
Stat(a) ==
  /\ loader[a].pc = "stat"
  /\ IF files[Kind(a)] # "absent" THEN Made(a, TRUE)
     ELSE \/ Set(a, [loader[a] EXCEPT !.pc = "write"])
          \/ MayFail /\ Made(a, FALSE)
  /\ UNCHANGED <<installed, files>>

\* create_temp_file writes into a file of its own.
MutantWrite(a) ==   \* writes into the shared file
  /\ loader[a].pc = "write"
  /\ files' = [files EXCEPT ![Kind(a)] = "partial"]
  /\ \/ Set(a, [loader[a] EXCEPT !.pc = "rename"])
     \/ MayFail /\ Made(a, FALSE)
  /\ UNCHANGED installed

Write(a) ==
  /\ loader[a].pc = "write"
  /\ \/ Set(a, [loader[a] EXCEPT !.pc = "rename"])
     \/ MayFail /\ Made(a, FALSE)
  /\ UNCHANGED <<installed, files>>

Rename(a) ==
  /\ loader[a].pc = "rename"
  /\ \/ files' = [files EXCEPT ![Kind(a)] = "whole"] /\ Made(a, TRUE)
     \/ MayFail /\ Made(a, FALSE) /\ UNCHANGED files
  /\ UNCHANGED installed

Dlopen(a) == \E handle \in {FromFile("embedded")} \cup {h \in {"none"} : MayFail} :
  /\ loader[a].pc = "dlopen"
  /\ Set(a, [loader[a] EXCEPT !.pc = "loaded", !.handle = handle])
  /\ UNCHANGED <<installed, files>>

\* The process is killed, between any two of these steps.
LoaderCrash(a) ==
  /\ MayFail
  /\ loader[a].pc \in {"stat", "write", "rename", "dlopen"}
  /\ Set(a, [loader[a] EXCEPT !.pc = "dead"])
  /\ UNCHANGED <<installed, files>>

LoaderStep(a) ==
  \/ LoadNamed(a) \/ LoadInstalled(a) \/ Stat(a) \/ Write(a) \/ Rename(a) \/ Dlopen(a)

\* The wrapper has its files, or not, and goes on.
Wrapped(a) == loader[a].lib_env /\ loader[a].pc = "loaded" /\ loader[a].handle = "none"

\* ddprof_start_profiling forwards to the library, if one was loaded.
Loaded(a) == loader[a].pc = "loaded" /\ loader[a].handle # "none"
-----------------------------------------------------------------------------
(* Properties                                                              *)

\* Whatever processes race for the shared files or die while they write them
\* (get_or_create_temp_file), a process loads a whole library, and the executable
\* it will start the profiler with comes from the same place as that library.
LoadsWholeLibrary ==
  \A a \in Apps : Loaded(a) =>
    /\ loader[a].handle # "broken"
    /\ loader[a].handle \in {"installed", "embedded"} => loader[a].exe_env = loader[a].handle
    /\ loader[a].exe_env = "embedded" => files["exe"] = "whole"
=============================================================================
