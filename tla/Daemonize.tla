------------------------------ MODULE Daemonize ------------------------------
(***************************************************************************)
(* daemonize: the initial process forks an intermediate one, which forks   *)
(* the daemon and then waits for it to end or to send it SIGTERM; the      *)
(* initial process reads the daemon's pid from a pipe and waits for the    *)
(* intermediate process.                                                   *)
(***************************************************************************)
EXTENDS Sequences

CONSTANT ForkMayFail  \* may pipe2, fork and write fail?

VARIABLES
  initial,            \* none, read_pid, wait_temp, then the result: daemonized or error
  intermediate,       \* none, fork, sigaction, call_wait, blocked, ended
  daemon,             \* the daemon process: none, write_pid, ..., dead
  pipe                \* what was written and not yet read

daemonizeVars == <<initial, intermediate, daemon, pipe>>

DaemonizeInit ==
  /\ initial = "none" /\ intermediate = "none" /\ daemon = "none"
  /\ pipe = <<>>

\* pipe2 and the first fork.
daemonize ==
  \/ /\ initial' = "read_pid" /\ intermediate' = "fork"
     /\ UNCHANGED <<daemon, pipe>>
  \/ /\ ForkMayFail
     /\ initial' = "error"
     /\ UNCHANGED <<intermediate, daemon, pipe>>

fork_daemon ==
  /\ intermediate = "fork"
  /\ intermediate' = "sigaction"
  /\ daemon' \in {"write_pid"} \cup {d \in {"none"} : ForkMayFail}
  /\ UNCHANGED <<initial, pipe>>

install_handler ==
  /\ intermediate = "sigaction"
  /\ intermediate' = "call_wait"
  /\ UNCHANGED <<initial, daemon, pipe>>

DaemonAlive == daemon \notin {"none", "dead"}

\* waitpid returns when the child is dead, or if there is none.
waitpid_daemon ==
  /\ intermediate \in {"call_wait", "blocked"}
  /\ intermediate' = IF DaemonAlive THEN "blocked" ELSE "ended"
  /\ intermediate' # intermediate
  /\ UNCHANGED <<initial, daemon, pipe>>

\* kill(temp_pid, SIGTERM): without a handler the process ends; the handler does
\* nothing but interrupt a waitpid that has begun.
Terminated ==
  CASE intermediate \in {"fork", "sigaction"} -> "ended"
    [] intermediate = "blocked" -> "ended"
    [] OTHER -> intermediate

write_pid(next) ==
  /\ daemon = "write_pid"
  /\ \/ daemon' = next /\ pipe' = Append(pipe, "pid")
     \/ ForkMayFail /\ daemon' = "dead" /\ UNCHANGED pipe
  /\ UNCHANGED <<initial, intermediate>>

\* Nothing to read, and nobody left who could write.
Eof == pipe = <<>> /\ intermediate \in {"none", "ended"} /\ ~DaemonAlive

MutantReadPid ==   \* keeps its own copy of the write end
  /\ initial = "read_pid" /\ pipe # <<>>
  /\ initial' = "wait_temp" /\ pipe' = Tail(pipe)
  /\ UNCHANGED <<intermediate, daemon>>

read_pid ==
  /\ initial = "read_pid"
  /\ \/ pipe # <<>> /\ initial' = "wait_temp" /\ pipe' = Tail(pipe)
     \/ Eof /\ initial' = "error" /\ UNCHANGED pipe
  /\ UNCHANGED <<intermediate, daemon>>

waitpid_temp ==
  /\ initial = "wait_temp" /\ intermediate = "ended"
  /\ initial' = "daemonized"
  /\ UNCHANGED <<intermediate, daemon, pipe>>

DaemonizeStep ==
  fork_daemon \/ install_handler \/ waitpid_daemon \/ read_pid \/ waitpid_temp
==============================================================================
