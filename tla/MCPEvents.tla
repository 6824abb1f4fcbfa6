------------------------------ MODULE MCPEvents ------------------------------
(* Command lines of up to two events, with every preset and target.         *)
EXTENDS PEvents, SequencesExt

Confs ==
  [name : {"hCPU", "sCPU", "sALLOC"}, group : {FALSE}, id : {"none"}, mode : {"sum"}]
    \cup [name : {"tp"}, group : BOOLEAN, id : {"found", "unknown"}, mode : {"sum"}]

MCCommandLines ==
  [events : BoundedSeq(Confs, 2), preset : {"", "unknown"} \cup DOMAIN presets,
   pid : {TRUE}, pipefd_to_library : BOOLEAN]
    \cup [events : BoundedSeq(Confs, 2), preset : {""} \cup DOMAIN presets,
          pid : {FALSE}, pipefd_to_library : {FALSE}]
==============================================================================
