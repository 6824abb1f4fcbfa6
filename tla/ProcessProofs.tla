---------------------------- MODULE ProcessProofs ----------------------------
(***************************************************************************)
(* Proofs about the processes of a profiler.                               *)
(*                                                                         *)
(* Supervisor, for every worker period, any number of forks and signals,   *)
(* and all kinds of failures: there is one worker at most, and it is       *)
(* replaced only after its period.                                         *)
(*                                                                         *)
(* Startup, for any number of processes, in every mode, and whatever       *)
(* fails, dies or is replaced: no program runs as profiled, and no library *)
(* connects, before the profiler is set up; and no process loads a library *)
(* that another one is still writing.                                      *)
(***************************************************************************)
EXTENDS Startup, Supervisor, TLAPS

(***************************************************************************)
(* The profiler and its workers                                            *)
(***************************************************************************)

\* A worker that is not yet reaped is the child the parent waits for.
ChildIsWaitedFor ==
  \A w \in Pids :
    /\ w > forks => wpc[w] = "none"
    /\ wpc[w] \notin {"none", "reaped"} =>
         w = forks /\ g_child_pid = w /\ pc \in {"unblock", "wait"}

\* g_child_pid follows the parent's control.
ChildPid ==
  /\ pc \in {"check", "block", "fork", "harvest", "done", "warned"}
       => g_child_pid = 0
  /\ pc \in {"unblock", "wait"} => g_child_pid \in {forks, -1} /\ forks > 0
  /\ pc = "reap" => g_child_pid # 0

\* The bound on forks is respected: a restart is only asked for when one more
\* fork is allowed, and a restart_worker left by the previous worker is only
\* seen until the new worker starts.
ForksBounded ==
  /\ pc \in {"check", "block", "fork"} => forks < MaxForks
  /\ restart_worker =>
       \/ forks < MaxForks
       \/ forks \in Pids /\ wpc[forks] = "forked"

Inv == TypeOK /\ ChildIsWaitedFor /\ ChildPid /\ ForksBounded

\* The initial state satisfies the inductive invariant.
LEMMA SupervisorInitInv == SupervisorInit => Inv
<1> SUFFICES ASSUME SupervisorInit PROVE Inv
  BY Zenon
<1>1. TypeOK
  <2>1. /\ wpending \in [Pids -> BOOLEAN]
        /\ wterm \in [Pids -> BOOLEAN]
        /\ stop \in [Pids -> BOOLEAN]
    BY Zenon DEF SupervisorInit
  <2>2. wpc \in [Pids -> WorkerPc] /\ count_worker \in [Pids -> Nat]
    BY Zenon DEF SupervisorInit, WorkerPc
  <2>4. /\ masked \in BOOLEAN /\ pending \in BOOLEAN
        /\ g_termination_requested \in BOOLEAN
        /\ restart_worker \in BOOLEAN /\ errors \in BOOLEAN
        /\ unstarted \in BOOLEAN
    BY Zenon DEF SupervisorInit
  <2>5. /\ pc = "check" /\ g_child_pid = 0 /\ graceful = {}
        /\ forks \in 0 .. MaxForks /\ signals \in 0 .. MaxSignals
    BY SpawnBounds DEF SupervisorInit
  <2> QED BY <2>1, <2>2, <2>4, <2>5, Zenon DEF TypeOK
<1>2. ChildIsWaitedFor /\ ChildPid /\ ForksBounded
  BY SpawnBounds DEF SupervisorInit, ChildIsWaitedFor, ChildPid, ForksBounded, Pids
<1> QED BY <1>1, <1>2, Zenon DEF Inv

\* Every step of the parent, of a worker and of the environment preserves the
\* inductive invariant.
LEMMA SupervisorStep == Inv /\ [SupervisorNext]_supervisorVars => Inv'
<1> SUFFICES ASSUME Inv, [SupervisorNext]_supervisorVars PROVE Inv'
  BY Zenon
<1> USE SpawnBounds DEF Inv, TypeOK, ChildIsWaitedFor, ChildPid,
        ForksBounded, Pids, WorkerPc, parent, shared, worker, history
<1>1. CASE Check
  BY <1>1, Zenon DEF Check
<1>2. CASE Block
  BY <1>2, Zenon DEF Block
<1>3. CASE Fork
  <2>1. wterm' \in [Pids -> BOOLEAN] /\ unstarted' \in BOOLEAN
    BY <1>3, Zenon DEF Fork
  <2>2. wpc' \in [Pids -> WorkerPc]
    BY <1>3, Zenon DEF Fork
  <2>3. TypeOK'
    BY <1>3, <2>1, <2>2 DEF Fork
  <2>4. ChildIsWaitedFor' /\ ChildPid' /\ ForksBounded'
    BY <1>3 DEF Fork
  <2> QED BY <2>3, <2>4, Zenon
<1>4. CASE Unblock
  BY <1>4, Zenon DEF Unblock
<1>5. CASE Wait
  BY <1>5 DEF Wait
<1>6. CASE Reap
  BY <1>6, Zenon DEF Reap
<1>7. CASE Harvest
  BY <1>7, Zenon DEF Harvest
<1>8. CASE HandleSignal
  <2>1. wpending' \in [Pids -> BOOLEAN]
    BY <1>8, Zenon DEF HandleSignal
  <2>3. TypeOK'
    BY <1>8, <2>1, Zenon DEF HandleSignal
  <2>4. ChildIsWaitedFor' /\ ChildPid' /\ ForksBounded'
    BY <1>8, Zenon DEF HandleSignal
  <2> QED BY <2>3, <2>4, Zenon
<1>9. CASE SendSignal
  <2>1. wpending' \in [Pids -> BOOLEAN]
    BY <1>9, Zenon DEF SendSignal, Alive
  <2>2. TypeOK'
    BY <1>9, <2>1 DEF SendSignal
  <2>3. ChildIsWaitedFor' /\ ChildPid' /\ ForksBounded'
    BY <1>9, Zenon DEF SendSignal
  <2> QED BY <2>2, <2>3, Zenon
<1>10. ASSUME NEW w \in Pids, WorkerStart(w) PROVE Inv'
  BY <1>10, Zenon DEF WorkerStart, Goto
<1>11. ASSUME NEW w \in Pids, WorkerInit(w) PROVE Inv'
  <2>1. PICK to \in {"loop", "fatal"} :
          wpc[w] = "init" /\ wpc' = [wpc EXCEPT ![w] = to]
    BY <1>11, Zenon DEF WorkerInit, Goto
  <2>2. TypeOK'
    BY <1>11, <2>1 DEF WorkerInit
  <2>3. UNCHANGED <<pc, g_child_pid, forks, restart_worker>>
    BY <1>11, Zenon DEF WorkerInit
  <2>4. ChildIsWaitedFor' /\ ChildPid' /\ ForksBounded'
    BY <2>1, <2>3, Zenon
  <2> QED BY <2>2, <2>4, Zenon
<1>12. ASSUME NEW w \in Pids, LoopCheck(w) PROVE Inv'
  BY <1>12 DEF LoopCheck, Goto
<1>13. ASSUME NEW w \in Pids, ProcessRingBuffers(w) PROVE Inv'
  <2>1. stop' \in [Pids -> BOOLEAN]
    BY <1>13, Zenon DEF ProcessRingBuffers
  <2>2. PICK to \in {"loop", "export", "fatal"} :
          wpc[w] = "process" /\ wpc' = [wpc EXCEPT ![w] = to]
    BY <1>13, Zenon DEF ProcessRingBuffers, Goto
  <2>3. wpc' \in [Pids -> WorkerPc]
    BY <2>2, Zenon
  <2>4. UNCHANGED <<parent, shared, wpending, wterm, count_worker, history>>
    BY <1>13, Zenon DEF ProcessRingBuffers
  <2>5. TypeOK'
    BY <2>1, <2>3, <2>4, Zenon
  <2>6. ChildIsWaitedFor' /\ ChildPid' /\ ForksBounded'
    BY <2>2, <2>4, Zenon
  <2> QED BY <2>5, <2>6, Zenon
<1>14. ASSUME NEW w \in Pids, NotDue(w) PROVE Inv'
  BY <1>14 DEF NotDue, Goto
<1>15. ASSUME NEW w \in Pids, Due(w) PROVE Inv'
  BY <1>15 DEF Due, Goto
<1>16. ASSUME NEW w \in Pids, Cycle(w) PROVE Inv'
  <2>1. count_worker' \in [Pids -> Nat]
    <3>1. count_worker[w] + 1 \in Nat
      OBVIOUS
    <3> QED BY <1>16, <3>1, Zenon DEF Cycle
  <2>2. wpc' \in [Pids -> WorkerPc]
    BY <1>16, Zenon DEF Cycle, Goto
  <2>3. TypeOK'
    BY <1>16, <2>1, <2>2 DEF Cycle
  <2>4. ChildIsWaitedFor' /\ ChildPid' /\ ForksBounded'
    BY <1>16, Zenon DEF Cycle, Goto
  <2> QED BY <2>3, <2>4, Zenon
<1>17. ASSUME NEW w \in Pids, FinalCycle(w) PROVE Inv'
  <2>1. count_worker' \in [Pids -> Nat]
    <3>1. count_worker[w] + 1 \in Nat
      OBVIOUS
    <3> QED BY <1>17, <3>1, Zenon DEF FinalCycle
  <2>2. wpc' \in [Pids -> WorkerPc]
    BY <1>17, Zenon DEF FinalCycle, Goto
  <2>3. TypeOK'
    BY <1>17, <2>1, <2>2 DEF FinalCycle
  <2>4. ChildIsWaitedFor' /\ ChildPid' /\ ForksBounded'
    BY <1>17, Zenon DEF FinalCycle, Goto
  <2> QED BY <2>3, <2>4
<1>18. ASSUME NEW w \in Pids, WorkerExit(w) PROVE Inv'
  <2>1. errors' \in BOOLEAN /\ restart_worker' = restart_worker
    BY <1>18, Zenon DEF WorkerExit
  <2>2. graceful' \subseteq Pids
    BY <1>18, Zenon DEF WorkerExit
  <2>3. wpc[w] \in {"ok", "fatal"} /\ wpc' = [wpc EXCEPT ![w] = "zombie"]
    BY <1>18, Zenon DEF WorkerExit, Goto
  <2>4. TypeOK'
    BY <1>18, <2>1, <2>2, <2>3, Zenon DEF WorkerExit
  <2>5. UNCHANGED <<pc, g_child_pid, forks>>
    BY <1>18, Zenon DEF WorkerExit
  <2>6. ChildIsWaitedFor' /\ ChildPid' /\ ForksBounded'
    BY <2>1, <2>3, <2>5, Zenon
  <2> QED BY <2>4, <2>6, Zenon
<1>19. ASSUME NEW w \in Pids, WorkerSignal(w) PROVE Inv'
  BY <1>19 DEF WorkerSignal, Alive
<1>20. ASSUME NEW w \in Pids, WorkerCrash(w) PROVE Inv'
  <2>1. unstarted' \in BOOLEAN
    BY <1>20, Zenon DEF WorkerCrash
  <2>2. TypeOK'
    BY <1>20, <2>1, Zenon DEF WorkerCrash
  <2>3. ChildIsWaitedFor' /\ ChildPid' /\ ForksBounded'
    BY <1>20, Zenon DEF WorkerCrash, Alive
  <2> QED BY <2>2, <2>3, Zenon
<1>21. CASE UNCHANGED supervisorVars
  BY <1>21 DEF supervisorVars
<1> QED
  BY <1>1, <1>2, <1>3, <1>4, <1>5, <1>6, <1>7, <1>8, <1>9, <1>10,
     <1>11, <1>12, <1>13, <1>14, <1>15, <1>16, <1>17, <1>18, <1>19, <1>20, <1>21, Zenon
  DEF SupervisorNext, ParentStep, WorkerStep

\* The inductive invariant holds in every reachable state.
THEOREM SupervisorCorrect == SupervisorSpec => []Inv
BY SupervisorInitInv, SupervisorStep, PTL DEF SupervisorSpec

\* The ring buffers have one reader at a time, and none survives the profiler:
\* a worker that is alive is the child in waitpid.
THEOREM SingleWorkerCorrect == SupervisorSpec => []SingleWorker
<1>1. Inv => SingleWorker
  BY Zenon DEF Inv, TypeOK, ChildIsWaitedFor, SingleWorker, Alive, Pids
<1> QED BY <1>1, SupervisorCorrect, PTL

-----------------------------------------------------------------------------
(* As long as every worker resets the shared flags *)

\* restart_worker, once the current worker has reset it, tells that this worker
\* has made its exports.
RestartIsEarned ==
  ~unstarted =>
    /\ \A w \in Pids : w < forks => count_worker[w] + 1 >= WorkerPeriod
    /\ pc \in {"check", "block", "fork"} /\ forks > 0
         => count_worker[forks] + 1 >= WorkerPeriod
    /\ restart_worker /\ forks > 0 /\ wpc[forks] # "forked"
         => count_worker[forks] + 1 >= WorkerPeriod
    /\ pc \in {"unblock", "wait", "reap", "harvest"} => forks > 0
    /\ pc \in {"reap", "harvest"} => wpc[forks] = "reaped"
    /\ g_child_pid # -1

\* errors is set as long as the current worker has not returned gracefully.
ErrorsAreKept ==
  ~unstarted =>
    /\ forks > 0 /\ wpc[forks] \notin {"none", "forked"} /\ forks \notin graceful
         => errors
    /\ pc = "done" /\ ~g_termination_requested => forks \in graceful

GracefulInv == RestartIsEarned /\ ErrorsAreKept

\* The initial state has had no worker.
LEMMA InitGraceful == SupervisorInit => GracefulInv
BY DEF SupervisorInit, GracefulInv, RestartIsEarned, ErrorsAreKept, Pids

\* Every step preserves that a restart is earned and that errors are kept.
LEMMA StepGraceful ==
  ASSUME Inv, GracefulInv, [SupervisorNext]_supervisorVars
  PROVE  GracefulInv'
<1> USE SpawnBounds, PeriodAssumption
    DEF Inv, TypeOK, ChildIsWaitedFor, ChildPid, GracefulInv, RestartIsEarned,
        ErrorsAreKept, Pids, parent, shared, worker, history
<1>1. CASE Check
  BY <1>1, Zenon DEF Check
<1>2. CASE Block
  BY <1>2, Zenon DEF Block
<1>3. CASE Fork
  <2> SUFFICES ASSUME ~unstarted' PROVE GracefulInv'
    BY Zenon
  <2>0. ~unstarted /\ g_child_pid' = forks + 1 /\ UNCHANGED unstarted
    BY <1>3, Zenon DEF Fork
  <2>1. /\ forks' = forks + 1 /\ forks' \in Pids
        /\ wpc'[forks'] = "forked"
        /\ pc' = "unblock" /\ count_worker' = count_worker
        /\ g_child_pid' = forks'
    BY <1>3, <2>0 DEF Fork, ForksBounded
  <2>2. RestartIsEarned'
    <3>1. pc = "fork"
      BY <1>3, Zenon DEF Fork
    <3>2. ASSUME NEW w \in Pids, w < forks'
          PROVE  count_worker[w] + 1 >= WorkerPeriod
      BY <2>0, <2>1, <3>1, <3>2
    <3> QED BY <2>1, <3>2
  <2>3. ErrorsAreKept'
    BY <2>1, Zenon
  <2> QED BY <2>2, <2>3, Zenon
<1>4. CASE Unblock
  BY <1>4, Zenon DEF Unblock
<1>5. CASE Wait
  BY <1>5 DEF Wait
<1>6. CASE Reap
  BY <1>6 DEF Reap
<1>7. CASE Harvest
  BY <1>7, Zenon DEF Harvest
<1>8. CASE HandleSignal
  BY <1>8, Zenon DEF HandleSignal, Alive
<1>9. CASE SendSignal
  BY <1>9, Zenon DEF SendSignal, Alive
<1>10. ASSUME NEW w \in Pids, WorkerStart(w) PROVE GracefulInv'
  BY <1>10, Zenon DEF WorkerStart, Goto
<1>11. ASSUME NEW w \in Pids, WorkerInit(w) PROVE GracefulInv'
  BY <1>11, Zenon DEF WorkerInit, Goto
<1>12. ASSUME NEW w \in Pids, LoopCheck(w) PROVE GracefulInv'
  BY <1>12, Zenon DEF LoopCheck, Goto
<1>13. ASSUME NEW w \in Pids, ProcessRingBuffers(w) PROVE GracefulInv'
  BY <1>13, Zenon DEF ProcessRingBuffers, Goto
<1>14. ASSUME NEW w \in Pids, NotDue(w) PROVE GracefulInv'
  BY <1>14, Zenon DEF NotDue, Goto
<1>15. ASSUME NEW w \in Pids, Due(w) PROVE GracefulInv'
  BY <1>15, Zenon DEF Due, Goto
<1>16. ASSUME NEW w \in Pids, Cycle(w) PROVE GracefulInv'
  BY <1>16, SMTT(30) DEF Cycle, Goto
<1>17. ASSUME NEW w \in Pids, FinalCycle(w) PROVE GracefulInv'
  <2>1. PICK to \in {"ok", "fatal"} :
          wpc[w] = "final" /\ wpc' = [wpc EXCEPT ![w] = to]
    BY <1>17, Zenon DEF FinalCycle, Goto
  <2>2. UNCHANGED <<parent, shared, history>>
    BY <1>17, Zenon DEF FinalCycle
  <2>3. \A v \in Pids : count_worker'[v] >= count_worker[v] /\ count_worker'[v] \in Nat
    BY <1>17 DEF FinalCycle
  <2> QED BY <2>1, <2>2, <2>3, SMTT(30)
<1>18. ASSUME NEW w \in Pids, WorkerExit(w) PROVE GracefulInv'
  BY <1>18, Zenon DEF WorkerExit, Goto
<1>19. ASSUME NEW w \in Pids, WorkerSignal(w) PROVE GracefulInv'
  BY <1>19, Zenon DEF WorkerSignal, Alive
<1>20. ASSUME NEW w \in Pids, WorkerCrash(w) PROVE GracefulInv'
  BY <1>20, Zenon DEF WorkerCrash, Alive
<1>21. CASE UNCHANGED supervisorVars
  BY <1>21, Zenon DEF supervisorVars
<1> QED
  BY <1>1, <1>2, <1>3, <1>4, <1>5, <1>6, <1>7, <1>8, <1>9, <1>10,
     <1>11, <1>12, <1>13, <1>14, <1>15, <1>16, <1>17, <1>18, <1>19, <1>20, <1>21, Zenon
  DEF SupervisorNext, ParentStep, WorkerStep

\* As long as every worker got to reset the shared flags, a worker is only
\* replaced after worker_period exports: no sequence of errors and crashes makes the parent fork workers in a tight loop.
THEOREM RespawnsSpaced == SupervisorSpec => []RespawnsAreSpaced
<1>1. GracefulInv => RespawnsAreSpaced
  BY Zenon DEF GracefulInv, RestartIsEarned, RespawnsAreSpaced
<1>2. Inv /\ GracefulInv /\ [SupervisorNext]_supervisorVars => GracefulInv'
  BY StepGraceful, Zenon
<1> QED BY <1>1, <1>2, InitGraceful, SupervisorCorrect, PTL DEF SupervisorSpec

\* As long as every worker got to reset the shared flags, a worker that failed or
\* crashed makes the profiler return an error.
THEOREM ErrorsAreReported == SupervisorSpec => []ErrorsReported
<1>1. GracefulInv => ErrorsReported
  BY Zenon DEF GracefulInv, ErrorsAreKept, ErrorsReported
<1>2. Inv /\ GracefulInv /\ [SupervisorNext]_supervisorVars => GracefulInv'
  BY StepGraceful
<1> QED BY <1>1, <1>2, InitGraceful, SupervisorCorrect, PTL DEF SupervisorSpec

(***************************************************************************)
(* The start of the profiler and of the library                            *)
(***************************************************************************)

-----------------------------------------------------------------------------
(* The inductive invariant of the files                                    *)

Making == {"stat", "write", "rename"}

LoaderRecord ==
  [pc : {"new", "dlopen", "loaded", "dead"} \cup Making, lib_env : BOOLEAN,
   exe_env : {"none", "installed", "embedded"},
   handle : {"none", "named", "installed", "embedded", "broken"},
   want : {<<>>, <<"lib", "exe">>, <<"exe">>, <<"lib", "loader">>, <<"loader">>},
   ok : BOOLEAN]

FilesType ==
  /\ installed.lib \in {"absent", "other_hash", "same_hash", "unloadable"}
  /\ files \in [{"lib", "exe", "loader"} -> {"absent", "whole"}]
  /\ loader \in [Apps -> LoaderRecord]

\* The profiling library that the wrapper names can be opened.
Named(f) == find_lib \/ f["lib"] = "whole"

\* What a process has so far is in the files f: the part of its list that it has
\* been through without a failure, and what it will open.
Backed(l, f) ==
  /\ l.pc \in {"new"} \cup Making => l.handle = "none" /\ l.exe_env = "none"
  /\ l.pc \in Making =>
       l.want \in IF l.lib_env THEN {<<"lib", "loader">>, <<"loader">>}
                               ELSE {<<"lib", "exe">>, <<"exe">>}
  /\ l.pc \in Making /\ l.want = <<"exe">> /\ l.ok => f["lib"] = "whole"
  /\ l.pc \in Making /\ l.want = <<"loader">> => Named(f)
  /\ l.pc = "new" => l.ok
  /\ l.pc = "dlopen" => l.exe_env = "embedded" /\ f["lib"] = "whole" /\ ~ l.lib_env
  /\ l.exe_env = "embedded" => f["exe"] = "whole"
  /\ l.lib_env /\ (l.pc = "new" \/ (l.pc = "loaded" /\ l.ok) \/ l.handle # "none") => Named(f)
  /\ l.handle # "broken"
  /\ l.handle \in {"installed", "embedded"} => l.exe_env = l.handle

LoaderInv == \A a \in Apps : Backed(loader[a], files)

-----------------------------------------------------------------------------
(* The inductive invariant of the start                                    *)

AppRecord ==
  [pc : {"unborn", "wrap", "wrapping", "daemonize", "loading", "running", "start", "connect",
         "request", "reply", "stopping", "dead"},
   env : BOOLEAN, active : BOOLEAN, follow_execs : BOOLEAN, started : BOOLEAN, starts : Nat]

StartType ==
  /\ mode \in {"wrapper", "wrapper_alloc", "library", "pid"}
  /\ app \in [Apps -> AppRecord]
  /\ initial \in {"none", "read_pid", "wait_temp", "daemonized", "error"}
  /\ intermediate \in {"none", "fork", "sigaction", "call_wait", "blocked", "ended"}
  /\ daemon \in {"none", "write_pid", "exec", "setup", "socket", "ready", "tell", "run", "dead"}
  /\ pipe \in Seq({"pid", "path"})

\* The pipe of daemonize holds the pid first and then, once the profiler is set up,
\* the path; the intermediate process of a wrapper ends only when there is no
\* profiler that is still being set up.
DaemonizeInv ==
  /\ intermediate = "fork" => initial = "read_pid" /\ pipe = <<>> /\ ~ DaemonAlive
  /\ initial \in {"none", "error"} /\ mode # "pid" => pipe = <<>> /\ ~ DaemonAlive
  /\ initial = "read_pid" =>
       /\ Len(pipe) <= 2
       /\ daemon \in {"none", "write_pid"} => pipe = <<>>
       /\ daemon \notin {"run", "dead"} => Len(pipe) <= 1
  /\ initial \in {"wait_temp", "daemonized"} =>
       /\ daemon \notin {"none", "write_pid"}
       /\ Len(pipe) <= 1 /\ (daemon \notin {"run", "dead"} => pipe = <<>>)
  /\ initial = "daemonized" => intermediate = "ended"
  /\ Wrapper /\ intermediate = "ended" => ~ SettingUp
  /\ Wrapper => daemon # "exec"
  /\ mode = "pid" => initial = "none" /\ intermediate = "none"

BeforeStart == {"wrap", "wrapping", "daemonize"}

\* The socket path is known to no process before the profiler is set up, and once
\* it is known nothing starts another one.
Settled ==
  /\ initial = "daemonized" /\ ~ SettingUp
  /\ app[Target].env /\ app[Target].pc \notin BeforeStart

AppInv ==
  /\ app[Target].pc \in {"wrap", "wrapping"} => initial = "none" /\ Wrapper
  /\ mode = "pid" => app[Target].pc \in {"running", "stopping"} /\ loader[Target].pc = "new"
  /\ \A a \in Apps :
       /\ app[a].pc = "unborn" => loader[a].pc = "new"
       /\ a # Target => app[a].pc \notin BeforeStart
       /\ app[a].env => Settled
       /\ app[a].pc \in {"connect", "request", "reply"} => app[a].env
       /\ a # Target /\ app[a].pc = "start" => app[a].env
  /\ Wrapper /\ app[Target].pc \notin BeforeStart \cup {"dead"} =>
       ~ SettingUp /\ initial \in {"none", "daemonized", "error"}

\* What the wrapper has until it executes the program.
Wraps(r, l) ==
  /\ r.pc \in BeforeStart \cup {"running", "stopping", "dead"}
  /\ r.pc = "wrap" => l.pc = "new"
  /\ r.pc # "wrap" => l.lib_env /\ l.handle = "none" /\ l.pc \in {"loaded", "dead"} \cup Making
  /\ r.pc = "daemonize" => l.pc = "loaded" /\ l.ok

WrapInv == mode = "wrapper_alloc" /\ ~ app[Target].env => Wraps(app[Target], loader[Target])

IInv ==
  /\ FilesType /\ LoaderInv
  /\ StartType /\ DaemonizeInv /\ AppInv /\ WrapInv
-----------------------------------------------------------------------------
(* The loader                                                              *)

\* The embedded files a loader has still to extract, in turn.
LEMMA Lists ==
  /\ Head(<<"lib", "exe">>) = "lib" /\ Tail(<<"lib", "exe">>) = <<"exe">>
  /\ Head(<<"lib", "loader">>) = "lib" /\ Tail(<<"lib", "loader">>) = <<"loader">>
  /\ Head(<<"exe">>) = "exe" /\ Tail(<<"exe">>) = <<>>
  /\ Head(<<"loader">>) = "loader" /\ Tail(<<"loader">>) = <<>>
  /\ <<"exe">> # <<>> /\ <<"loader">> # <<>> /\ <<"exe">> # <<"loader">>
  /\ <<"lib", "exe">> # <<"exe">> /\ <<"lib", "exe">> # <<"loader">> /\ <<"lib", "exe">> # <<>>
  /\ <<"lib", "loader">> # <<"exe">> /\ <<"lib", "loader">> # <<"loader">>
  /\ <<"lib", "loader">> # <<>> /\ <<"lib", "loader">> # <<"lib", "exe">>
OBVIOUS

\* The record that Made leaves.
MadeRecord(r, ok) ==
  LET l == [r EXCEPT !.ok = @ /\ ok, !.want = Tail(@)]
  IN IF l.want # <<>> /\ (l.ok \/ ~ l.lib_env) THEN [l EXCEPT !.pc = "stat"]
     ELSE IF l.ok /\ ~ l.lib_env THEN [l EXCEPT !.pc = "dlopen", !.exe_env = "embedded"]
     ELSE [l EXCEPT !.pc = "loaded"]

\* What is known of a file once it has been made or could not be.
LEMMA MadeIs == \A a, ok : Made(a, ok) <=> Set(a, MadeRecord(loader[a], ok))
BY Zenon DEF Made, MadeRecord

Files == [{"lib", "exe", "loader"} -> {"absent", "whole"}]

\* A file that could be made, or was there, is whole; one that could not leaves
\* the loader without a library and the wrapper without a profiler.
LEMMA MadeBacked ==
  ASSUME NEW f \in Files, NEW r \in LoaderRecord, NEW ok \in BOOLEAN,
         Backed(r, f), r.pc \in Making, ok => f[Head(r.want)] = "whole"
  PROVE  MadeRecord(r, ok) \in LoaderRecord /\ Backed(MadeRecord(r, ok), f)
<1>. DEFINE l == [r EXCEPT !.ok = @ /\ ok, !.want = Tail(@)]
            m == MadeRecord(r, ok)
<1>1. r.want \in {<<"lib", "loader">>, <<"loader">>, <<"lib", "exe">>, <<"exe">>}
  BY Zenon DEF Backed
<1>2. /\ l \in LoaderRecord /\ l.ok = (r.ok /\ ok) /\ l.want = Tail(r.want) /\ l.lib_env = r.lib_env
      /\ l.handle = "none" /\ l.exe_env = "none" /\ l.pc \in Making
  BY <1>1, Lists, Zenon DEF LoaderRecord, Backed
<1>3. m = IF l.want # <<>> /\ (l.ok \/ ~ l.lib_env) THEN [l EXCEPT !.pc = "stat"]
          ELSE IF l.ok /\ ~ l.lib_env THEN [l EXCEPT !.pc = "dlopen", !.exe_env = "embedded"]
          ELSE [l EXCEPT !.pc = "loaded"]
  BY Zenon DEF MadeRecord
<1>. HIDE DEF l, m
<1>4. /\ m \in LoaderRecord /\ m.ok = l.ok /\ m.want = l.want /\ m.lib_env = l.lib_env /\ m.handle = "none"
      /\ IF l.want # <<>> /\ (l.ok \/ ~ l.lib_env) THEN m.pc = "stat" /\ m.exe_env = "none"
         ELSE IF l.ok /\ ~ l.lib_env THEN m.pc = "dlopen" /\ m.exe_env = "embedded"
         ELSE m.pc = "loaded" /\ m.exe_env = "none"
  BY <1>2, <1>3, Zenon DEF LoaderRecord, Making
<1>5. /\ r.lib_env => r.want \in {<<"lib", "loader">>, <<"loader">>}
      /\ ~ r.lib_env => r.want \in {<<"lib", "exe">>, <<"exe">>}
      /\ r.want = <<"exe">> /\ r.ok => f["lib"] = "whole"
      /\ r.want = <<"loader">> => Named(f)
      /\ r.lib_env \in BOOLEAN /\ r.ok \in BOOLEAN
  BY Zenon DEF Backed, LoaderRecord
<1>6. Backed(m, f)
  <2>1. CASE r.want = <<"lib", "loader">>
    BY <1>2, <1>4, <1>5, <2>1, Lists DEF Backed, Making, Named
  <2>2. CASE r.want = <<"loader">>
    BY <1>2, <1>4, <1>5, <2>2, Lists DEF Backed, Making, Named
  <2>3. CASE r.want = <<"lib", "exe">>
    BY <1>2, <1>4, <1>5, <2>3, Lists, Zenon DEF Backed, Making, Named
  <2>4. CASE r.want = <<"exe">>
    BY <1>2, <1>4, <1>5, <2>4, Lists, Zenon DEF Backed, Making, Named
  <2>. QED  BY <1>1, <2>1, <2>2, <2>3, <2>4, Zenon
<1>. QED  BY <1>4, <1>6, Zenon DEF m

\* Files that are whole stay so.
LEMMA BackedGrows ==
  ASSUME NEW f \in Files, NEW g \in Files, NEW l \in LoaderRecord, Backed(l, f),
         \A k \in {"lib", "exe", "loader"} : f[k] = "whole" => g[k] = "whole"
  PROVE  Backed(l, g)
BY Zenon DEF Backed, Named

\* One process goes on with a record that is backed, the files only gain.
LEMMA OneLoader ==
  ASSUME FilesType, LoaderInv, NEW b \in Apps, NEW l \in LoaderRecord,
         UNCHANGED installed, files' \in Files, Set(b, l), Backed(l, files'),
         \A k \in {"lib", "exe", "loader"} : files[k] = "whole" => files'[k] = "whole"
  PROVE  FilesType' /\ LoaderInv'
<1>1. FilesType'
  BY Zenon DEF FilesType, Set, Files
<1>2. ASSUME NEW a \in Apps PROVE Backed(loader'[a], files')
  <2>1. CASE a = b
    BY <2>1, Zenon DEF Set, FilesType
  <2>2. CASE a # b
    <3>1. loader'[a] = loader[a] /\ loader[a] \in LoaderRecord /\ Backed(loader[a], files) /\ files \in Files
      BY <2>2, Zenon DEF Set, FilesType, LoaderInv, Files
    <3>. QED  BY <3>1, BackedGrows, Zenon
  <2>. QED  BY <2>1, <2>2, Zenon
<1>. QED  BY <1>1, <1>2, Zenon DEF LoaderInv, Backed, Named, find_lib

\* The loader never has a path to a file that is not whole, whatever step it takes
\* or dies in.
LEMMA LoaderSteps ==
  ASSUME FilesType, LoaderInv, NEW b \in Apps, LoaderStep(b) \/ LoaderCrash(b) \/ get_library_path(b)
  PROVE  FilesType' /\ LoaderInv'
<1>. DEFINE r == loader[b]
<1>1. r \in LoaderRecord /\ Backed(r, files) /\ files \in Files
  BY Zenon DEF FilesType, LoaderInv, Files
<1>2. ASSUME NEW l \in LoaderRecord, Set(b, l), Backed(l, files), UNCHANGED <<installed, files>>
      PROVE  FilesType' /\ LoaderInv'
  BY <1>1, <1>2, OneLoader, Zenon
<1>3. ASSUME NEW ok \in BOOLEAN, Made(b, ok), r.pc \in Making, UNCHANGED <<installed, files>>,
             ok => files[Head(r.want)] = "whole"
      PROVE  FilesType' /\ LoaderInv'
  <2>1. MadeRecord(r, ok) \in LoaderRecord /\ Backed(MadeRecord(r, ok), files)
    BY <1>1, <1>3, MadeBacked, Zenon
  <2>2. Set(b, MadeRecord(r, ok))
    BY <1>3, MadeIs, Zenon
  <2>. QED  BY <1>2, <1>3, <2>1, <2>2, Zenon
<1>4. CASE LoadNamed(b)
  <2>. DEFINE h == CASE ~find_lib -> FromFile("named")
                     [] installed.lib = "unloadable" -> "none"
                     [] OTHER -> "named"
              l == [r EXCEPT !.pc = "loaded", !.handle = h]
  <2>1. r.pc = "new" /\ r.lib_env /\ Set(b, l) /\ UNCHANGED <<installed, files>>
    BY <1>4, Zenon DEF LoadNamed
  <2>2. Named(files) /\ r.ok /\ r.exe_env = "none"
    BY <1>1, <2>1, Zenon DEF Backed
  <2>3. h \in {"none", "named"}
    BY <2>2, Zenon DEF Named, FromFile, find_lib
  <2>. HIDE DEF h
  <2>4. l \in LoaderRecord /\ l.pc = "loaded" /\ l.handle = h /\ l.exe_env = "none"
    BY <1>1, <2>2, <2>3, Zenon DEF LoaderRecord
  <2>5. Backed(l, files)
    BY <2>2, <2>3, <2>4, Zenon DEF Backed, Making
  <2>. QED  BY <1>2, <2>1, <2>4, <2>5, Zenon
<1>5. CASE LoadInstalled(b)
  <2>1. r.pc = "new" /\ ~ r.lib_env /\ UNCHANGED <<installed, files>>
    BY <1>5, Zenon DEF LoadInstalled
  <2>2. r.handle = "none" /\ r.exe_env = "none" /\ r.ok
    BY <1>1, <2>1, Zenon DEF Backed
  <2>3. CASE Set(b, [r EXCEPT !.pc = "loaded", !.handle = "installed", !.exe_env = "installed"])
    <3>. DEFINE l == [r EXCEPT !.pc = "loaded", !.handle = "installed", !.exe_env = "installed"]
    <3>1. l \in LoaderRecord /\ l.pc = "loaded" /\ l.handle = "installed" /\ l.exe_env = "installed" /\ ~ l.lib_env
      BY <1>1, <2>1, Zenon DEF LoaderRecord
    <3>2. Backed(l, files)
      BY <3>1, Zenon DEF Backed, Making
    <3>. QED  BY <1>2, <2>1, <2>3, <3>1, <3>2, Zenon
  <2>4. CASE Set(b, [r EXCEPT !.pc = "stat", !.want = <<"lib", "exe">>])
    <3>. DEFINE l == [r EXCEPT !.pc = "stat", !.want = <<"lib", "exe">>]
    <3>1. /\ l \in LoaderRecord /\ l.pc = "stat" /\ l.handle = "none" /\ l.exe_env = "none" /\ ~ l.lib_env
          /\ l.want = <<"lib", "exe">>
      BY <1>1, <2>1, <2>2, Zenon DEF LoaderRecord, Making
    <3>2. Backed(l, files)
      BY <3>1, Lists DEF Backed, Making
    <3>. QED  BY <1>2, <2>1, <2>4, <3>1, <3>2, Zenon
  <2>. QED  BY <1>5, <2>3, <2>4, Zenon DEF LoadInstalled
<1>6. CASE get_library_path(b)
  <2>. DEFINE w == IF find_lib THEN <<"loader">> ELSE <<"lib", "loader">>
              l == [r EXCEPT !.pc = "stat", !.lib_env = TRUE, !.want = w]
  <2>1. r.pc = "new" /\ Set(b, l) /\ UNCHANGED <<installed, files>>
    BY <1>6, Zenon DEF get_library_path
  <2>2. r.handle = "none" /\ r.exe_env = "none"
    BY <1>1, <2>1, Zenon DEF Backed
  <2>3. w = <<"lib", "loader">> \/ (w = <<"loader">> /\ find_lib)
    BY Zenon
  <2>. HIDE DEF w
  <2>4. /\ l \in LoaderRecord /\ l.pc = "stat" /\ l.handle = "none" /\ l.exe_env = "none" /\ l.lib_env
        /\ l.want = w
    BY <1>1, <2>2, <2>3, Zenon DEF LoaderRecord, Making
  <2>5. Backed(l, files)
    BY <2>3, <2>4, Lists DEF Backed, Making, Named
  <2>. QED  BY <1>2, <2>1, <2>4, <2>5, Zenon
<1>7. ASSUME r.pc \in Making, NEW p \in {"write", "rename"}, Set(b, [r EXCEPT !.pc = p]),
             UNCHANGED <<installed, files>>
      PROVE  FilesType' /\ LoaderInv'
  <2>. DEFINE l == [r EXCEPT !.pc = p]
  <2>1. /\ l \in LoaderRecord /\ l.pc = p /\ l.handle = r.handle /\ l.exe_env = r.exe_env
        /\ l.lib_env = r.lib_env /\ l.want = r.want /\ l.ok = r.ok
    BY <1>1, Zenon DEF LoaderRecord, Making
  <2>2. Backed(l, files)
    BY <1>1, <1>7, <2>1, Zenon DEF Backed, Making
  <2>. QED  BY <1>2, <1>7, <2>1, <2>2, Zenon
<1>. HIDE DEF r
<1>8. CASE Stat(b)
  <2>1. r.pc \in Making /\ UNCHANGED <<installed, files>> /\ Kind(b) = Head(r.want)
    BY <1>8, Zenon DEF Stat, Making, Kind, r
  <2>2. r.want \in {<<"lib", "loader">>, <<"loader">>, <<"lib", "exe">>, <<"exe">>}
    BY <1>1, <2>1, Zenon DEF Backed
  <2>3. files[Kind(b)] # "absent" => files[Head(r.want)] = "whole"
    BY <1>1, <2>1, <2>2, Lists, Zenon DEF Files
  <2>4. \/ files[Kind(b)] # "absent" /\ Made(b, TRUE)
        \/ Made(b, FALSE)
        \/ Set(b, [r EXCEPT !.pc = "write"])
    BY <1>8, Zenon DEF Stat, r
  <2>. QED  BY <1>3, <1>7, <2>1, <2>3, <2>4, Zenon
<1>9. CASE Write(b)
  <2>1. r.pc \in Making /\ UNCHANGED <<installed, files>>
    BY <1>9, Zenon DEF Write, Making, r
  <2>2. Made(b, FALSE) \/ Set(b, [r EXCEPT !.pc = "rename"])
    BY <1>9, Zenon DEF Write, r
  <2>. QED  BY <1>3, <1>7, <2>1, <2>2, Zenon
<1>10. CASE Rename(b)
  <2>1. r.pc \in Making /\ UNCHANGED installed
    BY <1>10, Zenon DEF Rename, Making, r
  <2>2. CASE Made(b, FALSE) /\ UNCHANGED files
    BY <1>3, <2>1, <2>2, Zenon
  <2>3. CASE files' = [files EXCEPT ![Kind(b)] = "whole"] /\ Made(b, TRUE)
    <3>1. r.want \in {<<"lib", "loader">>, <<"loader">>, <<"lib", "exe">>, <<"exe">>}
      BY <1>1, <2>1, Zenon DEF Backed
    <3>2. Kind(b) = Head(r.want) /\ Head(r.want) \in {"lib", "exe", "loader"}
      BY <3>1, Lists, Zenon DEF Kind, r
    <3>3. /\ files' \in Files /\ files'[Head(r.want)] = "whole"
          /\ \A k \in {"lib", "exe", "loader"} : files[k] = "whole" => files'[k] = "whole"
      BY <1>1, <2>3, <3>2, Zenon DEF Files
    <3>4. Backed(r, files')
      BY <1>1, <3>3, BackedGrows, Zenon
    <3>5. MadeRecord(r, TRUE) \in LoaderRecord /\ Backed(MadeRecord(r, TRUE), files')
      BY <1>1, <2>1, <3>3, <3>4, MadeBacked, Zenon
    <3>6. Set(b, MadeRecord(r, TRUE))
      BY <2>3, MadeIs, Zenon DEF r
    <3>. QED  BY <2>1, <3>3, <3>5, <3>6, OneLoader, Zenon
  <2>. QED  BY <1>10, <2>2, <2>3, Zenon DEF Rename
<1>11. CASE Dlopen(b)
  <2>1. PICK h \in {FromFile("embedded")} \cup {x \in {"none"} : MayFail} :
          r.pc = "dlopen" /\ Set(b, [r EXCEPT !.pc = "loaded", !.handle = h]) /\ UNCHANGED <<installed, files>>
    BY <1>11, Zenon DEF Dlopen, r
  <2>2. files["lib"] = "whole" /\ r.exe_env = "embedded" /\ ~ r.lib_env /\ files["exe"] = "whole"
    BY <1>1, <2>1, Zenon DEF Backed
  <2>3. h \in {"embedded", "none"}
    BY <2>2, Zenon DEF FromFile
  <2>. DEFINE l == [r EXCEPT !.pc = "loaded", !.handle = h]
  <2>4. /\ l \in LoaderRecord /\ l.pc = "loaded" /\ l.handle = h /\ l.exe_env = "embedded" /\ ~ l.lib_env
    BY <1>1, <2>2, <2>3, Zenon DEF LoaderRecord
  <2>5. Backed(l, files)
    BY <2>2, <2>3, <2>4, Zenon DEF Backed, Making
  <2>. QED  BY <1>2, <2>1, <2>4, <2>5, Zenon
<1>12. CASE LoaderCrash(b)
  <2>. DEFINE l == [r EXCEPT !.pc = "dead"]
  <2>1. Set(b, l) /\ UNCHANGED <<installed, files>>
    BY <1>12, Zenon DEF LoaderCrash, r
  <2>2. /\ l \in LoaderRecord /\ l.pc = "dead" /\ l.handle = r.handle /\ l.exe_env = r.exe_env
    BY <1>1, Zenon DEF LoaderRecord
  <2>3. Backed(l, files)
    BY <1>1, <2>2 DEF Backed, Making
  <2>. QED  BY <1>2, <2>1, <2>2, <2>3, Zenon
<1>. QED
  BY <1>4, <1>5, <1>6, <1>8, <1>9, <1>10, <1>11, <1>12, Zenon DEF LoaderStep

-----------------------------------------------------------------------------
(* The start                                                               *)

\* The target is one of the programs.
LEMMA TargetIs == Target \in Apps
BY AppsAssumption, Zenon DEF Target

\* Before ddprof or the loader has run, nothing has been started.
LEMMA InitInv == Init => IInv
<1>. SUFFICES ASSUME Init PROVE IInv  BY Zenon
<1>. USE TargetIs
<1>1. FilesType
  BY Zenon DEF Init, LoaderInit, FilesType, LoaderRecord, NewLoader, Making
<1>2. LoaderInv
  BY Zenon DEF Init, LoaderInit, LoaderInv, Backed, NewLoader, Making
<1>3. mode \in {"wrapper", "wrapper_alloc", "library", "pid"}
  BY ModesAssumption, Zenon DEF Init
<1>. DEFINE first(a) == IF a # Target THEN NewApp.pc
                        ELSE CASE mode = "wrapper" -> "daemonize" [] mode = "wrapper_alloc" -> "wrap"
                               [] mode = "library" -> "loading" [] mode = "pid" -> "running"
<1>4. app = [a \in Apps |-> [NewApp EXCEPT !.pc = first(a)]]
  BY Zenon DEF Init
<1>5. ASSUME NEW a \in Apps
      PROVE  first(a) \in {"unborn", "wrap", "daemonize", "loading", "running"}
  BY <1>3, Zenon DEF NewApp
<1>6. /\ first(Target) \in {"wrap", "daemonize", "loading", "running"}
      /\ first(Target) = "wrap" <=> mode = "wrapper_alloc"
      /\ first(Target) = "daemonize" <=> mode = "wrapper"
      /\ first(Target) = "running" <=> mode = "pid"
      /\ \A a \in Apps : a # Target => first(a) = "unborn"
  BY <1>3, Zenon DEF NewApp
<1>. HIDE DEF first
<1>7. /\ app \in [Apps -> AppRecord]
      /\ \A a \in Apps : app[a].pc = first(a) /\ ~ app[a].env
  BY <1>4, <1>5, Zenon DEF AppRecord, NewApp
<1>8. StartType
  BY <1>3, <1>7 DEF Init, StartType
<1>9. DaemonizeInv
  BY <1>3, Zenon DEF Init, DaemonizeInv, DaemonAlive, Wrapper, SettingUp
<1>10. \A a \in Apps : loader[a].pc = "new" /\ loader[a].handle = "none"
  BY Zenon DEF Init, LoaderInit, NewLoader
<1>11. initial = "none" /\ (mode # "pid" => daemon = "none")
  BY Zenon DEF Init
<1>12. AppInv
  BY <1>3, <1>6, <1>7, <1>10, <1>11, Zenon DEF AppInv, BeforeStart, Wrapper, SettingUp
<1>13. WrapInv
  BY <1>6, <1>7, <1>10, Zenon DEF WrapInv, Wraps, BeforeStart
<1>. QED  BY <1>1, <1>2, <1>8, <1>9, <1>12, <1>13, Zenon DEF IInv

\* What steps of the processes of daemonize and of the profiler do to the start:
\* they never undo it, and a profiler is set up only while its starter waits.
ProfilerMoves ==
  /\ UNCHANGED <<loaderVars, mode, app>>
  /\ initial = "daemonized" => initial' = "daemonized"
  /\ SettingUp' => SettingUp \/ initial = "read_pid"
  /\ initial' # initial => initial \in {"read_pid", "wait_temp"} \/ app[Target].pc = "daemonize"

\* Steps of daemonize and of the profiler leave the loader and the programs alone.
LEMMA ProfilerMovesKeep ==
  ASSUME IInv, ProfilerMoves, DaemonizeInv', StartType'
  PROVE  IInv'
<1>1. UNCHANGED <<installed, files, loader, mode, app>>
  BY Zenon DEF ProfilerMoves, loaderVars
<1>2. FilesType' /\ LoaderInv'
  BY <1>1, Zenon DEF IInv, FilesType, LoaderInv, Backed, Named, find_lib
<1>3. WrapInv'
  BY <1>1, Zenon DEF IInv, WrapInv, Wraps
<1>4. Settled => Settled'
  BY <1>1, Zenon DEF ProfilerMoves, Settled
<1>5. Wrapper' = Wrapper
  BY <1>1, Zenon DEF Wrapper
<1>6. /\ app[Target].pc \in {"wrap", "wrapping"} => initial' = "none"
      /\ Wrapper /\ app[Target].pc \notin BeforeStart \cup {"dead"} =>
           ~ SettingUp' /\ initial' \in {"none", "daemonized", "error"}
  BY Zenon DEF IInv, AppInv, ProfilerMoves, BeforeStart
<1>7. AppInv'
  BY <1>1, <1>4, <1>5, <1>6, Zenon DEF IInv, AppInv
<1>. QED  BY <1>2, <1>3, <1>7, Zenon DEF IInv

\* The pipe of daemonize holds pids and paths, first in first out.
LEMMA Pipe ==
  ASSUME StartType
  PROVE  /\ Len(pipe) \in Nat /\ (pipe = <<>> <=> Len(pipe) = 0)
         /\ \A m \in {"pid", "path"} :
              Append(pipe, m) \in Seq({"pid", "path"}) /\ Len(Append(pipe, m)) = Len(pipe) + 1
         /\ pipe # <<>> => Tail(pipe) \in Seq({"pid", "path"}) /\ Len(Tail(pipe)) = Len(pipe) - 1
         /\ Len(pipe) = 1 => Tail(pipe) = <<>>
<1>1. pipe \in Seq({"pid", "path"})
  BY Zenon DEF StartType
<1>2. Len(pipe) \in Nat /\ (pipe = <<>> <=> Len(pipe) = 0)
  BY <1>1
<1>3. \A m \in {"pid", "path"} :
        Append(pipe, m) \in Seq({"pid", "path"}) /\ Len(Append(pipe, m)) = Len(pipe) + 1
  BY <1>1
<1>4. pipe # <<>> => Tail(pipe) \in Seq({"pid", "path"}) /\ Len(Tail(pipe)) = Len(pipe) - 1
  BY <1>1
<1>5. Len(pipe) = 1 => Tail(pipe) = <<>>
  <2>. DEFINE t == Tail(pipe)
  <2>1. Len(pipe) = 1 => t \in Seq({"pid", "path"}) /\ Len(t) = 0
    BY <1>1, <1>2, <1>4
  <2>. HIDE DEF t
  <2>2. t \in Seq({"pid", "path"}) /\ Len(t) = 0 => t = <<>>
    OBVIOUS
  <2>. QED  BY <2>1, <2>2, Zenon DEF t
<1>. QED  BY <1>2, <1>3, <1>4, <1>5, Zenon

\* The steps of daemonize itself.
LEMMA DaemonizeMoves ==
  ASSUME IInv, call_daemonize \/ daemonize_steps
  PROVE  ProfilerMoves /\ DaemonizeInv' /\ StartType'
<1>. USE DEF DaemonAlive, SettingUp, Wrapper
<1>1. StartType /\ DaemonizeInv /\ UNCHANGED <<loaderVars, mode, app>>
  BY Zenon DEF IInv, call_daemonize, daemonize_steps, Others
<1>2. CASE call_daemonize
  <2>1. mode # "pid" /\ initial = "none" /\ pipe = <<>> /\ ~ DaemonAlive /\ app[Target].pc = "daemonize"
    BY <1>1, <1>2, Zenon DEF call_daemonize, DaemonizeInv, IInv, AppInv
  <2>2. /\ UNCHANGED <<daemon, pipe>>
        /\ \/ initial' = "read_pid" /\ intermediate' = "fork"
           \/ initial' = "error" /\ UNCHANGED intermediate
    BY <1>2, Zenon DEF call_daemonize, daemonize
  <2>3. intermediate # "fork"
    BY <1>1, <2>1, Zenon DEF DaemonizeInv
  <2>4. Len(pipe') = 0
    BY <2>1, <2>2, Zenon
  <2>5. StartType' /\ DaemonizeInv'
    BY <1>1, <2>1, <2>2, <2>3, <2>4 DEF StartType, DaemonizeInv
  <2>. QED  BY <1>1, <2>1, <2>2, <2>5, Zenon DEF ProfilerMoves
<1>3. CASE fork_daemon
  <2>1. initial = "read_pid" /\ pipe = <<>> /\ mode # "pid"
    BY <1>1, <1>3, Zenon DEF fork_daemon, DaemonizeInv
  <2>2. /\ UNCHANGED <<initial, pipe>> /\ intermediate' = "sigaction"
        /\ daemon' \in {"write_pid", "none"}
    BY <1>3, Zenon DEF fork_daemon
  <2>3. Len(pipe') = 0
    BY <2>1, <2>2, Zenon
  <2>4. StartType' /\ DaemonizeInv'
    BY <1>1, <2>1, <2>2, <2>3 DEF StartType, DaemonizeInv
  <2>. QED  BY <1>1, <2>1, <2>2, <2>4, Zenon DEF ProfilerMoves
<1>4. CASE install_handler \/ waitpid_daemon
  <2>1. /\ UNCHANGED <<initial, daemon, pipe>> /\ intermediate \in {"sigaction", "call_wait", "blocked"}
        /\ intermediate' \in {"call_wait", "blocked", "ended"}
        /\ intermediate' = "ended" => ~ DaemonAlive
    BY <1>4, Zenon DEF install_handler, waitpid_daemon
  <2>2. StartType' /\ DaemonizeInv'
    BY <1>1, <2>1 DEF StartType, DaemonizeInv
  <2>. QED  BY <1>1, <2>1, <2>2, Zenon DEF ProfilerMoves
<1>5. CASE read_pid
  <2>1. /\ initial = "read_pid" /\ UNCHANGED <<intermediate, daemon>>
        /\ \/ pipe # <<>> /\ initial' = "wait_temp" /\ pipe' = Tail(pipe)
           \/ pipe = <<>> /\ ~ DaemonAlive /\ intermediate \in {"none", "ended"}
              /\ initial' = "error" /\ UNCHANGED pipe
    BY <1>5, Zenon DEF read_pid, Eof
  <2>2. intermediate # "fork" \/ pipe = <<>>
    BY <1>1, Zenon DEF DaemonizeInv
  <2>3. StartType'
    BY <1>1, <2>1, Pipe, Zenon DEF StartType
  <2>4. DaemonizeInv'
    <3>1. CASE pipe # <<>> /\ initial' = "wait_temp" /\ pipe' = Tail(pipe)
      <4>1. Len(pipe) <= 2 /\ daemon \notin {"none", "write_pid"} /\ (daemon \notin {"run", "dead"} => Len(pipe) = 1)
        BY <1>1, <2>1, <3>1, Pipe DEF DaemonizeInv
      <4>2. Len(pipe') <= 1 /\ (daemon \notin {"run", "dead"} => pipe' = <<>>)
        BY <1>1, <3>1, <4>1, Pipe
      <4>. QED  BY <1>1, <2>1, <2>2, <3>1, <4>1, <4>2, Zenon DEF DaemonizeInv
    <3>2. CASE pipe = <<>> /\ ~ DaemonAlive /\ intermediate \in {"none", "ended"}
               /\ initial' = "error" /\ UNCHANGED pipe
      BY <1>1, <2>1, <3>2, Zenon DEF DaemonizeInv
    <3>. QED  BY <2>1, <3>1, <3>2, Zenon
  <2>. QED  BY <1>1, <2>1, <2>3, <2>4, Zenon DEF ProfilerMoves
<1>6. CASE waitpid_temp
  <2>1. /\ initial = "wait_temp" /\ intermediate = "ended" /\ initial' = "daemonized"
        /\ UNCHANGED <<intermediate, daemon, pipe>>
    BY <1>6, Zenon DEF waitpid_temp
  <2>2. StartType' /\ DaemonizeInv'
    BY <1>1, <2>1, Zenon DEF StartType, DaemonizeInv
  <2>. QED  BY <1>1, <2>1, <2>2, Zenon DEF ProfilerMoves
<1>. QED  BY <1>2, <1>3, <1>4, <1>5, <1>6, Zenon DEF daemonize_steps, DaemonizeStep

\* The steps of the profiler: it writes its pid, is set up or fails, releases the
\* intermediate process, writes its path, and exits.
LEMMA ProfilerStepMoves ==
  ASSUME IInv,
         \/ daemon_writes_pid \/ exec_ddprof \/ setup \/ create_socket \/ release_intermediate
         \/ tell_library \/ profiler_exits \/ setup_fails
  PROVE  ProfilerMoves /\ DaemonizeInv' /\ StartType'
<1>. USE DEF DaemonAlive, SettingUp, Wrapper
<1>1. StartType /\ DaemonizeInv /\ UNCHANGED <<initial, loaderVars, mode, app>>
  BY Zenon DEF IInv, Others, daemon_writes_pid, write_pid, exec_ddprof, setup, create_socket,
     release_intermediate, tell_library, profiler_exits, setup_fails, Daemon
<1>2. ASSUME DaemonAlive PROVE intermediate # "fork" /\ (initial \in {"none", "error"} => mode = "pid")
  BY <1>1, <1>2, Zenon DEF DaemonizeInv
<1>3. /\ Terminated \in {intermediate, "ended"}
      /\ intermediate = "ended" => Terminated = "ended"
  BY <1>1, Zenon DEF Terminated, StartType
<1>4. mode = "pid" => intermediate = "none" /\ Terminated = "none"
  BY <1>1, Zenon DEF Terminated, DaemonizeInv
<1>. HIDE DEF Terminated
<1>5. CASE daemon_writes_pid
  <2>1. /\ daemon = "write_pid" /\ UNCHANGED intermediate
        /\ \/ daemon' = (IF Wrapper THEN "setup" ELSE "exec") /\ pipe' = Append(pipe, "pid")
           \/ daemon' = "dead" /\ UNCHANGED pipe
    BY <1>5, Zenon DEF daemon_writes_pid, write_pid
  <2>2. CASE daemon' = (IF Wrapper THEN "setup" ELSE "exec") /\ pipe' = Append(pipe, "pid")
    <3>1. initial = "read_pid" => Len(pipe) = 0
      BY <1>1, <2>1, Pipe, Zenon DEF DaemonizeInv
    <3>2. pipe' \in Seq({"pid", "path"}) /\ (initial = "read_pid" => Len(pipe') = 1)
      BY <1>1, <2>2, <3>1, Pipe
    <3>3. initial \notin {"wait_temp", "daemonized"}
      BY <1>1, <2>1, Zenon DEF DaemonizeInv
    <3>. QED  BY <1>1, <1>2, <2>1, <2>2, <3>2, <3>3 DEF StartType, DaemonizeInv, ProfilerMoves
  <2>3. CASE daemon' = "dead" /\ UNCHANGED pipe
    BY <1>1, <1>2, <2>1, <2>3, Zenon DEF StartType, DaemonizeInv, ProfilerMoves
  <2>. QED  BY <2>1, <2>2, <2>3, Zenon
<1>6. CASE exec_ddprof
  <2>1. daemon = "exec" /\ intermediate' = Terminated /\ daemon' \in {"setup", "dead"} /\ UNCHANGED pipe
    BY <1>6, Zenon DEF exec_ddprof, Daemon
  <2>. QED  BY <1>1, <1>2, <1>3, <1>4, <2>1, Zenon DEF StartType, DaemonizeInv, ProfilerMoves
<1>7. CASE setup \/ create_socket
  <2>1. /\ daemon \in {"setup", "socket"} /\ daemon' \in {"socket", "ready"}
        /\ UNCHANGED <<intermediate, pipe>>
    BY <1>7, Zenon DEF setup, create_socket, Daemon
  <2>. QED  BY <1>1, <1>2, <2>1, Zenon DEF StartType, DaemonizeInv, ProfilerMoves
<1>8. CASE release_intermediate \/ setup_fails
  <2>1. /\ daemon \in {"ready", "setup", "socket", "tell"} /\ daemon' \in {"tell", "dead"} /\ UNCHANGED pipe
        /\ intermediate' \in {Terminated, intermediate}
    BY <1>8, Zenon DEF release_intermediate, setup_fails, Daemon, Fails
  <2>. QED  BY <1>1, <1>2, <1>3, <1>4, <2>1 DEF StartType, DaemonizeInv, ProfilerMoves
<1>9. CASE tell_library
  <2>1. /\ daemon = "tell" /\ daemon' = "run" /\ UNCHANGED intermediate
        /\ pipe' \in {pipe, Append(pipe, "path")}
    BY <1>9, Zenon DEF tell_library
  <2>2. /\ initial = "read_pid" => Len(pipe) <= 1
        /\ initial \in {"wait_temp", "daemonized"} => Len(pipe) = 0
    BY <1>1, <2>1, Pipe, Zenon DEF DaemonizeInv
  <2>3. /\ pipe' \in Seq({"pid", "path"})
        /\ initial = "read_pid" => Len(pipe') <= 2
        /\ initial \in {"wait_temp", "daemonized"} => Len(pipe') <= 1
    <3>1. CASE pipe' = pipe
      BY <1>1, <2>2, <3>1, Pipe DEF StartType
    <3>2. CASE pipe' = Append(pipe, "path")
      BY <1>1, <2>2, <3>2, Pipe DEF StartType
    <3>. QED  BY <2>1, <3>1, <3>2, Zenon
  <2>. QED  BY <1>1, <1>2, <2>1, <2>3, Zenon DEF StartType, DaemonizeInv, ProfilerMoves
<1>10. CASE profiler_exits
  <2>1. daemon = "run" /\ daemon' = "dead" /\ UNCHANGED <<intermediate, pipe>>
    BY <1>10, Zenon DEF profiler_exits, Daemon
  <2>. QED  BY <1>1, <1>2, <2>1, Zenon DEF StartType, DaemonizeInv, ProfilerMoves
<1>. QED  BY <1>5, <1>6, <1>7, <1>8, <1>9, <1>10, Zenon

\* The worker and its server thread leave the start alone.
LEMMA WorkerMoves ==
  ASSUME IInv, start_worker \/ serve_clients \/ worker_joined \/ worker_stops \/ worker_crashes
  PROVE  ProfilerMoves /\ DaemonizeInv' /\ StartType'
<1>1. UNCHANGED <<daemonizeVars, loaderVars, mode, app>>
  BY Zenon DEF start_worker, serve_clients, worker_joined, worker_stops, worker_crashes, Others
<1>2. UNCHANGED <<initial, intermediate, daemon, pipe, mode, app>>
  BY <1>1, Zenon DEF daemonizeVars
<1>. QED
  BY <1>1, <1>2 DEF IInv, StartType, DaemonizeInv, ProfilerMoves, SettingUp, DaemonAlive, Wrapper

-----------------------------------------------------------------------------
(* The processes that are profiled                                         *)

\* What the invariant asks of a process with the record r and the loader l.
TargetAllowed(r, l) ==
  /\ r.pc \in {"wrap", "wrapping"} => initial = "none" /\ Wrapper
  /\ mode = "pid" => r.pc \in {"running", "stopping"} /\ l.pc = "new"
  /\ r.env => r.pc \notin BeforeStart
  /\ Wrapper /\ r.pc \notin BeforeStart \cup {"dead"} =>
       ~ SettingUp /\ initial \in {"none", "daemonized", "error"}
  /\ mode = "wrapper_alloc" /\ ~ r.env => Wraps(r, l)

Allowed(a, r, l) ==
  /\ r.pc = "unborn" => l.pc = "new"
  /\ a = Target /\ app[a].env => r.env
  /\ r.env => initial = "daemonized" /\ ~ SettingUp /\ (a # Target => Settled)
  /\ r.pc \in {"connect", "request", "reply"} => r.env
  /\ a # Target => r.pc \notin BeforeStart /\ (r.pc = "start" => r.env)
  /\ a = Target => TargetAllowed(r, l)

\* A program is where its loader allows it to be.
LEMMA AllowedNow ==
  ASSUME IInv, NEW a \in Apps
  PROVE  Allowed(a, app[a], loader[a])
<1>1. app[a].env => Settled
  BY Zenon DEF IInv, AppInv
<1>2. ASSUME a = Target PROVE TargetAllowed(app[a], loader[a])
  BY <1>1, <1>2, Zenon DEF IInv, AppInv, WrapInv, TargetAllowed, Settled
<1>. QED  BY <1>1, <1>2, Zenon DEF IInv, AppInv, Allowed, Settled

\* A process goes on; the others and daemonize do not move, and the profiler does
\* not but for being killed.
Killed == UNCHANGED <<initial, intermediate, pipe, mode>> /\ daemon' \in {daemon, "dead"}

\* A program moves to a place its loader allows; at most the profiler dies meanwhile.
LEMMA OneApp ==
  ASSUME IInv, NEW a \in Apps, NEW r \in AppRecord, app' = [app EXCEPT ![a] = r],
         \A b \in Apps : b # a => loader'[b] = loader[b],
         FilesType', LoaderInv', Killed,
         Allowed(a, r, loader'[a])
  PROVE  IInv'
<1>. USE TargetIs
<1>1. UNCHANGED <<initial, intermediate, pipe, mode>> /\ daemon' \in {daemon, "dead"}
  BY Zenon DEF Killed
<1>2. StartType'
  BY <1>1, Zenon DEF IInv, StartType
<1>3. (SettingUp' => SettingUp) /\ Wrapper' = Wrapper /\ (DaemonAlive' => DaemonAlive)
  BY <1>1, Zenon DEF SettingUp, Wrapper, DaemonAlive
<1>4. DaemonizeInv'
  BY <1>1, <1>3, Zenon DEF IInv, DaemonizeInv
<1>5. app'[a] = r /\ \A b \in Apps : b # a => app'[b] = app[b]
  BY Zenon DEF IInv, StartType
<1>6. ASSUME a = Target \/ ~ r.env \/ Settled, NEW b \in Apps, app'[b].env
      PROVE  Settled'
  <2>1. CASE a = Target
    <3>1. app[b].env \/ b = Target
      BY <1>5, <1>6, <2>1, Zenon
    <3>2. app[b].env => app[Target].env
      BY Zenon DEF IInv, AppInv, Settled
    <3>3. r.env
      BY <1>5, <1>6, <2>1, <3>1, <3>2, Zenon DEF Allowed
    <3>. QED  BY <1>1, <1>3, <1>5, <2>1, <3>3 DEF Allowed, TargetAllowed, Settled
  <2>2. CASE a # Target
    <3>1. Settled
      BY <1>5, <1>6, <2>2 DEF IInv, AppInv, Allowed
    <3>. QED  BY <1>1, <1>3, <1>5, <2>2, <3>1, Zenon DEF Settled
  <2>. QED  BY <2>1, <2>2, Zenon
<1>7. a = Target \/ ~ r.env \/ Settled
  BY Zenon DEF Allowed
<1>8. ASSUME NEW b \in Apps
      PROVE  /\ app'[b].pc = "unborn" => loader'[b].pc = "new"
             /\ b # Target => app'[b].pc \notin BeforeStart
             /\ app'[b].env => Settled'
             /\ app'[b].pc \in {"connect", "request", "reply"} => app'[b].env
             /\ b # Target /\ app'[b].pc = "start" => app'[b].env
  <2>1. CASE b = a
    BY <1>5, <1>6, <1>7, <2>1, Zenon DEF Allowed
  <2>2. CASE b # a
    BY <1>5, <1>6, <1>7, <2>2, Zenon DEF IInv, AppInv
  <2>. QED  BY <2>1, <2>2, Zenon
<1>9. TargetAllowed(app'[Target], loader'[Target])
  <2>1. CASE a = Target
    BY <1>5, <2>1, Zenon DEF Allowed
  <2>2. CASE a # Target
    BY <1>5, <2>2, AllowedNow, Zenon DEF Allowed
  <2>. QED  BY <2>1, <2>2, Zenon
<1>10. AppInv' /\ WrapInv'
  BY <1>1, <1>3, <1>8, <1>9, Zenon DEF AppInv, WrapInv, TargetAllowed
<1>. QED  BY <1>2, <1>4, <1>10, Zenon DEF IInv

\* A step that is not the loader's leaves files and loaders as they are.
LEMMA SameFiles ==
  ASSUME IInv, UNCHANGED loaderVars
  PROVE  FilesType' /\ LoaderInv' /\ UNCHANGED loader
<1>1. UNCHANGED <<installed, files, loader>>
  BY Zenon DEF loaderVars
<1>. QED  BY <1>1, Zenon DEF IInv, FilesType, LoaderInv, Backed, Named, find_lib

\* A process goes on in its program, with the environment it has.
LEMMA Goes ==
  ASSUME IInv, NEW a \in Apps, NEW r \in AppRecord, r.env = app[a].env,
         app' = [app EXCEPT ![a] = r], app[a].pc # "wrap",
         UNCHANGED loaderVars, Killed,
         r.pc \in {"running", "start", "connect", "request", "reply", "stopping", "daemonize", "loading"},
         r.pc \in {"connect", "request", "reply"} => app[a].env,
         r.pc = "start" => app[a].env \/ (a = Target /\ Loaded(a)),
         r.pc = "loading" => a # Target,
         r.pc = "daemonize" => a = Target /\ ~ app[a].env /\ mode # "pid" /\
                             (mode = "wrapper_alloc" => loader[a].pc = "loaded" /\ loader[a].ok),
         app[a].pc \in BeforeStart \cup {"dead"} => Wrapper /\ initial = "none"
  PROVE  IInv'
<1>1. app[a] \in AppRecord
  BY Zenon DEF IInv, StartType
<1>2. loader' = loader /\ FilesType' /\ LoaderInv'
  BY SameFiles, Zenon
<1>3. Allowed(a, app[a], loader[a])
  BY AllowedNow, Zenon
<1>4. app[a].env => Settled
  BY Zenon DEF IInv, AppInv
<1>5. Wrapper /\ initial = "none" => ~ SettingUp
  BY Zenon DEF IInv, DaemonizeInv, DaemonAlive, SettingUp, Wrapper
<1>6. ASSUME a = Target PROVE TargetAllowed(r, loader[a])
  <2>0. TargetAllowed(app[a], loader[a])
    BY <1>3, <1>6, Zenon DEF Allowed
  <2>1. mode = "pid" => r.pc \in {"running", "stopping"} /\ loader[a].pc = "new"
    <3>1. mode = "pid" => ~ app[a].env
      BY <1>4, Zenon DEF IInv, DaemonizeInv, Settled
    <3>. QED  BY <1>6, <2>0, <3>1, Zenon DEF TargetAllowed, Loaded
  <2>2. r.env => r.pc \notin BeforeStart
    BY <1>1, Zenon DEF BeforeStart
  <2>3. Wrapper /\ r.pc \notin BeforeStart \cup {"dead"} =>
           ~ SettingUp /\ initial \in {"none", "daemonized", "error"}
    BY <1>5, <2>0, Zenon DEF TargetAllowed
  <2>4. mode = "wrapper_alloc" /\ ~ r.env => Wraps(r, loader[a])
    <3>. SUFFICES ASSUME mode = "wrapper_alloc", ~ r.env PROVE Wraps(r, loader[a])
      BY Zenon
    <3>1. Wraps(app[a], loader[a])
      BY <1>1, <2>0, Zenon DEF TargetAllowed
    <3>. QED  BY <1>1, <1>6, <3>1, Zenon DEF Wraps, BeforeStart, Loaded
  <2>. QED  BY <1>1, <2>1, <2>2, <2>3, <2>4, Zenon DEF TargetAllowed
<1>7. Allowed(a, r, loader[a])
  BY <1>1, <1>3, <1>4, <1>6, Zenon DEF Allowed, Settled, BeforeStart
<1>. QED  BY <1>1, <1>2, <1>7, OneApp, Zenon

\* A program that goes on keeps its environment.
LEMMA GoIs ==
  ASSUME IInv, NEW a \in Apps,
         NEW to \in {"running", "start", "connect", "request", "reply", "stopping", "daemonize", "loading"},
         Go(a, to)
  PROVE  \E r \in AppRecord : r.pc = to /\ r.env = app[a].env /\ app' = [app EXCEPT ![a] = r]
<1>. DEFINE r == [app[a] EXCEPT !.pc = to]
<1>1. r \in AppRecord /\ r.pc = to /\ r.env = app[a].env
  BY Zenon DEF IInv, StartType, AppRecord
<1>2. app' = [app EXCEPT ![a] = r]
  BY Zenon DEF Go
<1>. QED  BY <1>1, <1>2, Zenon

\* The steps of the library in a process that leave the loader and daemonize alone.
LEMMA AppSteps ==
  ASSUME IInv, NEW a \in Apps,
         \/ autostart(a) \/ call_start(a) \/ ddprof_start_profiling(a) \/ connect(a) \/ request(a)
         \/ reply(a) \/ launch(a) \/ ddprof_stop_profiling(a) \/ stopped(a) \/ (a = Target /\ wrapped)
  PROVE  IInv'
<1>1. UNCHANGED loaderVars /\ Killed
  BY Zenon DEF autostart, call_start, ddprof_start_profiling, connect, request, reply, launch,
     ddprof_stop_profiling, stopped, wrapped, Others, Killed, Daemon, daemonizeVars
<1>2. /\ app[a] \in AppRecord
      /\ app[a].pc \in {"connect", "request", "reply"} => app[a].env
      /\ a # Target /\ app[a].pc = "start" => app[a].env
      /\ mode = "pid" /\ a = Target => app[a].pc \notin {"start", "wrapping", "loading"}
      /\ a = Target /\ app[a].pc = "wrapping" => Wrapper /\ initial = "none"
  BY Zenon DEF IInv, StartType, AppInv
<1>3. CASE autostart(a)
  <2>1. PICK to \in {"start", "running"} :
          Go(a, to) /\ app[a].pc = "loading" /\ (to = "start" => app[a].env)
    BY <1>3, Zenon DEF autostart
  <2>2. PICK r \in AppRecord : r.pc = to /\ r.env = app[a].env /\ app' = [app EXCEPT ![a] = r]
    BY <2>1, GoIs
  <2>. QED  BY <1>1, <2>1, <2>2, Goes, Zenon DEF BeforeStart
<1>4. CASE call_start(a)
  <2>1. app[a].pc = "running" /\ Loaded(a) /\ Go(a, "start") /\ (app[a].env \/ a = Target)
    BY <1>4, Zenon DEF call_start
  <2>2. PICK r \in AppRecord : r.pc = "start" /\ r.env = app[a].env /\ app' = [app EXCEPT ![a] = r]
    BY <2>1, GoIs, Zenon
  <2>. QED  BY <1>1, <2>1, <2>2, Goes, Zenon DEF BeforeStart
<1>5. CASE ddprof_start_profiling(a)
  <2>. DEFINE to == IF Refused(a) THEN "running" ELSE IF app[a].env THEN "connect" ELSE "daemonize"
              n == app[a].starts + 1
              r == [app[a] EXCEPT !.starts = n, !.pc = to]
  <2>1. app[a].pc = "start" /\ app' = [app EXCEPT ![a] = r]
    BY <1>5, Zenon DEF ddprof_start_profiling
  <2>2. to \in {"running", "connect", "daemonize"} /\ (to = "connect" => app[a].env)
        /\ (to = "daemonize" => ~ app[a].env)
    BY Zenon
  <2>n. n \in Nat
    BY <1>2 DEF AppRecord
  <2>. HIDE DEF to, n
  <2>3. r \in AppRecord /\ r.pc = to /\ r.env = app[a].env
    BY <1>2, <2>2, <2>n, Zenon DEF AppRecord
  <2>. HIDE DEF r
  <2>4. mode = "wrapper_alloc" /\ a = Target => app[a].env
    BY <2>1, AllowedNow, Zenon DEF Allowed, TargetAllowed, Wraps, BeforeStart
  <2>. QED  BY <1>1, <1>2, <2>1, <2>2, <2>3, <2>4, Goes, Zenon DEF BeforeStart
<1>6. CASE connect(a) \/ request(a)
  <2>1. PICK to \in {"request", "reply", "running"} : Go(a, to) /\ app[a].pc \in {"connect", "request"}
    BY <1>6, Zenon DEF connect, request
  <2>2. PICK r \in AppRecord : r.pc = to /\ r.env = app[a].env /\ app' = [app EXCEPT ![a] = r]
    BY <2>1, GoIs
  <2>. QED  BY <1>1, <1>2, <2>1, <2>2, Goes, Zenon DEF BeforeStart
<1>7. CASE reply(a)
  <2>. DEFINE r == [app[a] EXCEPT !.pc = "running", !.started = TRUE, !.active = TRUE]
  <2>1. app[a].pc = "reply" /\ (app' = [app EXCEPT ![a] = r] \/ Go(a, "running"))
    BY <1>7, Zenon DEF reply
  <2>2. r \in AppRecord /\ r.pc = "running" /\ r.env = app[a].env
    BY <1>2, Zenon DEF AppRecord
  <2>. HIDE DEF r
  <2>3. PICK s \in AppRecord : s.pc = "running" /\ s.env = app[a].env /\ app' = [app EXCEPT ![a] = s]
    BY <2>1, <2>2, GoIs, Zenon
  <2>. QED  BY <1>1, <2>1, <2>3, Goes, Zenon DEF BeforeStart
<1>8. CASE launch(a)
  <2>1. a # Target /\ app[a].pc = "unborn" /\ Go(a, "loading")
    BY <1>8, Zenon DEF launch
  <2>2. PICK r \in AppRecord : r.pc = "loading" /\ r.env = app[a].env /\ app' = [app EXCEPT ![a] = r]
    BY <2>1, GoIs, Zenon
  <2>. QED  BY <1>1, <2>1, <2>2, Goes, Zenon DEF BeforeStart
<1>9. CASE ddprof_stop_profiling(a)
  <2>1. app[a].pc = "running" /\ Go(a, "stopping")
    BY <1>9, Zenon DEF ddprof_stop_profiling
  <2>2. PICK r \in AppRecord : r.pc = "stopping" /\ r.env = app[a].env /\ app' = [app EXCEPT ![a] = r]
    BY <2>1, GoIs, Zenon
  <2>. QED  BY <1>1, <2>1, <2>2, Goes, Zenon DEF BeforeStart
<1>10. CASE a = Target /\ wrapped
  <2>1. PICK to \in {"daemonize", "running"} :
          /\ Go(a, to) /\ app[a].pc = "wrapping" /\ loader[a].pc = "loaded"
          /\ to = "daemonize" => loader[a].ok
    BY <1>10, Zenon DEF wrapped, Wrapped
  <2>2. PICK r \in AppRecord : r.pc = to /\ r.env = app[a].env /\ app' = [app EXCEPT ![a] = r]
    BY <2>1, GoIs
  <2>3. ~ app[a].env
    BY <1>10, <2>1, AllowedNow, Zenon DEF Allowed, TargetAllowed, BeforeStart
  <2>. QED  BY <1>1, <1>2, <1>10, <2>1, <2>2, <2>3, Goes, Zenon DEF BeforeStart
<1>11. CASE stopped(a)
  <2>. DEFINE r == [app[a] EXCEPT !.pc = "running", !.started = FALSE, !.active = FALSE]
  <2>1. app[a].pc = "stopping" /\ app' = [app EXCEPT ![a] = r]
    BY <1>11, Zenon DEF stopped
  <2>2. r \in AppRecord /\ r.pc = "running" /\ r.env = app[a].env
    BY <1>2, Zenon DEF AppRecord
  <2>. HIDE DEF r
  <2>. QED  BY <1>1, <2>1, <2>2, Goes, Zenon DEF BeforeStart
<1>. QED  BY <1>3, <1>4, <1>5, <1>6, <1>7, <1>8, <1>9, <1>10, <1>11, Zenon

\* The library that started the profiler reads its path, or learns that there is no
\* profiler.
LEMMA PathRead ==
  ASSUME IInv, NEW a \in Apps, get_ddprof_socket_path(a)
  PROVE  IInv'
<1>1. UNCHANGED <<loaderVars, intermediate, daemon, mode>> /\ app[a].pc = "daemonize" /\ ~ Wrapper
  BY Zenon DEF get_ddprof_socket_path, Others
<1>2. a = Target /\ mode = "library" /\ app[a] \in AppRecord
  BY <1>1, Zenon DEF IInv, AppInv, BeforeStart, StartType, Wrapper
<1>3. \A b \in Apps : ~ app[b].env
  BY <1>1, <1>2, Zenon DEF IInv, AppInv, Settled, BeforeStart
<1>4. FilesType' /\ LoaderInv' /\ UNCHANGED loader
  BY <1>1, SameFiles, Zenon
<1>5. WrapInv' /\ ~ Wrapper' /\ mode' = "library"
  BY <1>1, <1>2, Zenon DEF WrapInv, Wrapper
<1>6. /\ SettingUp' = SettingUp /\ DaemonAlive' = DaemonAlive
  BY <1>1, Zenon DEF SettingUp, DaemonAlive
<1>7. CASE initial = "daemonized" /\ pipe # <<>> /\ pipe' = Tail(pipe) /\ UNCHANGED initial
           /\ app' = [app EXCEPT ![a].env = TRUE, ![a].pc = "connect"]
  <2>. DEFINE r == [app[a] EXCEPT !.env = TRUE, !.pc = "connect"]
  <2>1. r \in AppRecord /\ r.pc = "connect" /\ r.env /\ app' = [app EXCEPT ![a] = r]
    BY <1>2, <1>7, Zenon DEF AppRecord
  <2>. HIDE DEF r
  <2>2. app' \in [Apps -> AppRecord] /\ app'[a] = r /\ \A b \in Apps : b # a => app'[b] = app[b]
    BY <2>1, Zenon DEF IInv, StartType
  <2>3. /\ Len(pipe) = 1 /\ daemon \in {"run", "dead"} /\ intermediate = "ended"
        /\ StartType
    BY <1>7, Pipe DEF IInv, DaemonizeInv
  <2>4. StartType' /\ pipe' = <<>> /\ Len(pipe') = 0
    BY <1>1, <1>7, <2>2, <2>3, Pipe, Zenon DEF StartType
  <2>5. DaemonizeInv'
    <3>1. initial' = "daemonized" /\ intermediate' = "ended" /\ daemon' \in {"run", "dead"}
      BY <1>1, <1>7, <2>3, Zenon
    <3>. QED  BY <1>5, <2>4, <3>1 DEF DaemonizeInv
  <2>6. Settled'
    BY <1>1, <1>2, <1>6, <1>7, <2>1, <2>2, <2>3, Zenon DEF Settled, SettingUp, BeforeStart
  <2>7. AppInv'
    BY <1>2, <1>3, <1>4, <1>5, <2>1, <2>2, <2>6, Zenon DEF IInv, AppInv
  <2>. QED  BY <1>4, <1>5, <2>4, <2>5, <2>7, Zenon DEF IInv
<1>8. CASE (initial = "error" \/ (initial = "daemonized" /\ Eof))
           /\ Go(a, "running") /\ initial' = "none" /\ UNCHANGED pipe
  <2>1. PICK r \in AppRecord : r.pc = "running" /\ ~ r.env /\ app' = [app EXCEPT ![a] = r]
    BY <1>3, <1>8, GoIs
  <2>2. app' \in [Apps -> AppRecord] /\ app'[a] = r /\ \A b \in Apps : b # a => app'[b] = app[b]
    BY <2>1, Zenon DEF IInv, StartType
  <2>3. pipe = <<>> /\ ~ DaemonAlive /\ StartType /\ intermediate # "fork"
    BY <1>2, <1>8, Zenon DEF IInv, DaemonizeInv, Eof
  <2>4. StartType' /\ DaemonizeInv'
    BY <1>1, <1>5, <1>6, <1>8, <2>2, <2>3, Zenon DEF StartType, DaemonizeInv
  <2>5. AppInv'
    BY <1>2, <1>3, <1>4, <1>5, <2>1, <2>2, Zenon DEF IInv, AppInv
  <2>. QED  BY <1>4, <1>5, <2>4, <2>5, Zenon DEF IInv
<1>. QED  BY <1>7, <1>8, Zenon DEF get_ddprof_socket_path

-----------------------------------------------------------------------------
(* The steps that load or wrap                                             *)

\* A step of the loader alone leaves the program where it was.
LEMMA SameApp ==
  ASSUME IInv, NEW a \in Apps
  PROVE  app[a] \in AppRecord /\ app = [app EXCEPT ![a] = app[a]]
BY Zenon DEF IInv, StartType

\* What a step of its loader leaves of a process that is being wrapped.
LEMMA LoaderWraps ==
  ASSUME FilesType, LoaderInv, NEW a \in Apps, LoaderStep(a) \/ LoaderCrash(a),
         loader[a].lib_env, loader[a].handle = "none", loader[a].pc \in {"loaded", "dead"} \cup Making
  PROVE  /\ loader'[a].lib_env /\ loader'[a].handle = "none"
         /\ loader'[a].pc \in {"loaded", "dead"} \cup Making
<1>. DEFINE r == loader[a]
<1>1. r \in LoaderRecord /\ loader \in [Apps -> LoaderRecord]
  BY Zenon DEF FilesType
<1>2. ASSUME NEW l, Set(a, l) PROVE loader'[a] = l
  BY <1>1, <1>2, Zenon DEF Set
<1>3. ASSUME NEW ok \in BOOLEAN, Made(a, ok)
      PROVE  /\ loader'[a].lib_env /\ loader'[a].handle = "none"
             /\ loader'[a].pc \in {"loaded", "dead"} \cup Making
  <2>1. loader'[a] = MadeRecord(r, ok)
    BY <1>2, <1>3, MadeIs, Zenon
  <2>. DEFINE l == [r EXCEPT !.ok = @ /\ ok, !.want = Tail(@)]
  <2>2. l.lib_env = r.lib_env /\ l.handle = r.handle /\ l.pc = r.pc
    BY <1>1, Zenon DEF LoaderRecord
  <2>3. loader'[a] \in {[l EXCEPT !.pc = "stat"], [l EXCEPT !.pc = "loaded"]}
    BY <2>1, <2>2, Zenon DEF MadeRecord
  <2>4. DOMAIN l = DOMAIN r /\ DOMAIN r = {"pc", "lib_env", "exe_env", "handle", "want", "ok"}
    BY <1>1, Zenon DEF LoaderRecord
  <2>. HIDE DEF l
  <2>. QED  BY <2>2, <2>3, <2>4, Zenon DEF Making
<1>4. ASSUME NEW p \in {"write", "rename", "dead"}, Set(a, [r EXCEPT !.pc = p])
      PROVE  /\ loader'[a].lib_env /\ loader'[a].handle = "none"
             /\ loader'[a].pc \in {"loaded", "dead"} \cup Making
  BY <1>1, <1>2, <1>4, Zenon DEF LoaderRecord, Making
<1>5. \/ Made(a, TRUE) \/ Made(a, FALSE)
      \/ \E p \in {"write", "rename", "dead"} : Set(a, [r EXCEPT !.pc = p])
  BY Zenon
     DEF LoaderStep, LoaderCrash, LoadNamed, LoadInstalled, Stat, Write, Rename, Dlopen, Making
<1>. QED  BY <1>3, <1>4, <1>5, Zenon

\* A loader works on its own process.
LEMMA OthersKeep ==
  ASSUME FilesType, NEW a \in Apps, LoaderStep(a) \/ LoaderCrash(a) \/ get_library_path(a)
  PROVE  \A b \in Apps : b # a => loader'[b] = loader[b]
<1>1. \E l : Set(a, l)
  BY MadeIs, Zenon
     DEF LoaderStep, LoaderCrash, get_library_path, LoadNamed, LoadInstalled, Stat, Write,
     Rename, Dlopen
<1>. QED  BY <1>1, Zenon DEF Set, FilesType

\* The constructor of the loader, in the wrapper or in a program, whoever dies in it.
LEMMA LoadSteps ==
  ASSUME IInv, NEW a \in Apps, load(a) \/ crash(a)
  PROVE  IInv'
<1>1. /\ LoaderStep(a) \/ LoaderCrash(a)
      /\ UNCHANGED <<daemonizeVars, mode>> /\ (UNCHANGED app \/ Go(a, "dead"))
  BY Zenon DEF load, crash, Others
<1>2. app[a].pc \in {"wrapping", "loading"}
  BY Zenon DEF load, crash
<1>3. Killed
  BY <1>1, Zenon DEF Killed, daemonizeVars
<1>4. FilesType' /\ LoaderInv' /\ \A b \in Apps : b # a => loader'[b] = loader[b]
  BY <1>1, LoaderSteps, OthersKeep, Zenon DEF IInv
<1>5. PICK r \in AppRecord : app' = [app EXCEPT ![a] = r] /\ r.env = app[a].env /\ r.pc \in {app[a].pc, "dead"}
  <2>1. CASE UNCHANGED app
    BY <2>1, SameApp, Zenon
  <2>2. CASE Go(a, "dead")
    <3>. DEFINE r == [app[a] EXCEPT !.pc = "dead"]
    <3>1. r \in AppRecord /\ r.env = app[a].env /\ r.pc = "dead"
      BY SameApp, Zenon DEF AppRecord
    <3>2. app' = [app EXCEPT ![a] = r]
      BY <2>2, Zenon DEF Go
    <3>. QED  BY <3>1, <3>2, Zenon
  <2>. QED  BY <1>1, <2>1, <2>2, Zenon
<1>6. Allowed(a, app[a], loader[a])
  BY AllowedNow, Zenon
<1>7. ASSUME a = Target PROVE TargetAllowed(r, loader'[a])
  <2>1. TargetAllowed(app[a], loader[a])
    BY <1>6, <1>7, Zenon DEF Allowed
  <2>2. ASSUME mode = "wrapper_alloc", ~ r.env PROVE Wraps(r, loader'[a])
    <3>1. Wraps(app[a], loader[a]) /\ app[a].pc = "wrapping"
      BY <1>2, <1>5, <2>1, <2>2, Zenon DEF TargetAllowed, Wraps, BeforeStart
    <3>2. /\ loader'[a].lib_env /\ loader'[a].handle = "none"
          /\ loader'[a].pc \in {"loaded", "dead"} \cup Making
      BY <1>1, <3>1, LoaderWraps, Zenon DEF Wraps, IInv
    <3>. QED  BY <1>5, <3>1, <3>2, Zenon DEF Wraps, BeforeStart
  <2>3. mode # "pid"
    BY <1>2, <2>1, Zenon DEF TargetAllowed
  <2>. QED  BY <1>2, <1>5, <2>1, <2>2, <2>3, Zenon DEF TargetAllowed, BeforeStart
<1>8. Allowed(a, r, loader'[a])
  BY <1>2, <1>5, <1>6, <1>7, Zenon DEF Allowed, BeforeStart
<1>. QED  BY <1>3, <1>4, <1>5, <1>8, OneApp, Zenon

\* The wrapper looks for the libraries.
LEMMA WrapStep ==
  ASSUME IInv, wrap
  PROVE  IInv'
<1>. DEFINE a == Target
            r == [app[a] EXCEPT !.pc = "wrapping"]
<1>1. a \in Apps /\ app[a].pc = "wrap" /\ get_library_path(a) /\ Killed /\ app' = [app EXCEPT ![a] = r]
  BY TargetIs, Zenon DEF wrap, Killed, Others, daemonizeVars, Go
<1>2. r \in AppRecord /\ r.env = app[a].env /\ r.pc = "wrapping"
  BY <1>1, SameApp, Zenon DEF AppRecord
<1>. HIDE DEF r
<1>3. FilesType' /\ LoaderInv' /\ \A b \in Apps : b # a => loader'[b] = loader[b]
  BY <1>1, LoaderSteps, OthersKeep, Zenon DEF IInv
<1>4. Allowed(a, app[a], loader[a]) /\ TargetAllowed(app[a], loader[a])
  BY <1>1, AllowedNow, Zenon DEF Allowed
<1>5. loader'[a].lib_env /\ loader'[a].handle = "none" /\ loader'[a].pc \in Making
  <2>1. loader[a].handle = "none" /\ loader[a] \in LoaderRecord
    BY <1>1, Zenon DEF IInv, LoaderInv, Backed, get_library_path, FilesType
  <2>. QED  BY <1>1, <2>1, Zenon DEF get_library_path, Set, LoaderRecord, Making, IInv, FilesType
<1>6. ~ r.env /\ mode # "pid" /\ Wrapper /\ initial = "none"
  BY <1>1, <1>2, <1>4, Zenon DEF TargetAllowed, BeforeStart
<1>7. Wraps(r, loader'[a])
  BY <1>2, <1>5, Zenon DEF Wraps, BeforeStart
<1>8. Allowed(a, r, loader'[a])
  BY <1>2, <1>4, <1>6, <1>7, Zenon DEF Allowed, TargetAllowed, BeforeStart
<1>. QED  BY <1>1, <1>2, <1>3, <1>8, OneApp, Zenon

\* The wrapper executes the program, profiled or not.
LEMMA ExecStep ==
  ASSUME IInv, exec_program
  PROVE  IInv'
<1>. DEFINE a == Target
<1>1. /\ a \in Apps /\ Wrapper /\ app[a].pc = "daemonize" /\ initial \in {"daemonized", "error"}
      /\ UNCHANGED <<installed, files>> /\ Killed
  BY TargetIs, Zenon DEF exec_program, Killed, Others, daemonizeVars
<1>2. Allowed(a, app[a], loader[a]) /\ TargetAllowed(app[a], loader[a])
  BY <1>1, AllowedNow, Zenon DEF Allowed
<1>3. ~ app[a].env /\ ~ SettingUp
  BY <1>1, <1>2, Zenon
     DEF TargetAllowed, BeforeStart, IInv, DaemonizeInv, DaemonAlive, SettingUp, Wrapper
<1>4. mode = "wrapper_alloc" => Wraps(app[a], loader[a])
  BY <1>2, <1>3, Zenon DEF TargetAllowed
<1>5. ASSUME Go(a, "running"), UNCHANGED loader PROVE IInv'
  <2>1. PICK r \in AppRecord : r.pc = "running" /\ r.env = app[a].env /\ app' = [app EXCEPT ![a] = r]
    BY <1>1, <1>5, GoIs, Zenon
  <2>2. mode = "wrapper_alloc" => Wraps(r, loader[a])
    BY <1>1, <1>4, <2>1, Zenon DEF Wraps, BeforeStart
  <2>3. mode # "pid"
    BY <1>1, Zenon DEF Wrapper
  <2>4. Allowed(a, r, loader[a])
    BY <1>1, <1>2, <1>3, <2>1, <2>2, <2>3, Zenon DEF Allowed, TargetAllowed, BeforeStart
  <2>5. FilesType' /\ LoaderInv'
    BY <1>1, <1>5, SameFiles, Zenon DEF loaderVars
  <2>. QED  BY <1>1, <1>5, <2>1, <2>4, <2>5, OneApp, Zenon
<1>6. ASSUME initial = "daemonized", mode = "wrapper_alloc",
             app' = [app EXCEPT ![a].pc = "loading", ![a].env = TRUE],
             loader' = [loader EXCEPT ![a] = [NewLoader EXCEPT !.lib_env = TRUE]]
      PROVE  IInv'
  <2>. DEFINE r == [app[a] EXCEPT !.pc = "loading", !.env = TRUE]
              l == [NewLoader EXCEPT !.lib_env = TRUE]
  <2>1. r \in AppRecord /\ r.pc = "loading" /\ r.env /\ app' = [app EXCEPT ![a] = r]
    BY <1>1, <1>6, SameApp, Zenon DEF AppRecord
  <2>2. /\ l \in LoaderRecord /\ l.pc = "new" /\ l.handle = "none" /\ l.exe_env = "none" /\ l.ok
        /\ Set(a, l)
    BY <1>6, Zenon DEF LoaderRecord, NewLoader, Set
  <2>. HIDE DEF r, l
  <2>3. Named(files)
    BY <1>1, <1>4, <1>6, Zenon DEF IInv, LoaderInv, Backed, Wraps
  <2>4. Named(files)' /\ files' \in Files /\ files' = files
    BY <1>1, <2>3, Zenon DEF Named, find_lib, IInv, FilesType, Files
  <2>5. Backed(l, files')
    BY <2>2, <2>3, <2>4, Zenon DEF Backed, Making
  <2>6. FilesType' /\ LoaderInv'
    BY <1>1, <2>2, <2>4, <2>5, OneLoader, Zenon DEF IInv
  <2>7. loader'[a] = l /\ \A b \in Apps : b # a => loader'[b] = loader[b]
    BY <1>1, <2>2, Zenon DEF Set, IInv, FilesType
  <2>8. Allowed(a, r, l)
    BY <1>1, <1>3, <1>6, <2>1, Zenon DEF Allowed, TargetAllowed, BeforeStart
  <2>. QED  BY <1>1, <2>1, <2>6, <2>7, <2>8, OneApp, Zenon
<1>. QED  BY <1>5, <1>6, Zenon DEF exec_program

\* A program executes another one.
LEMMA SpawnStep ==
  ASSUME IInv, NEW a \in Apps, NEW b \in Apps, spawn(a, b)
  PROVE  IInv'
<1>1. PICK fe \in BOOLEAN :
        app' = [app EXCEPT ![b] = [NewApp EXCEPT !.pc = "loading", !.env = app[a].env,
                                     !.active = app[a].active, !.follow_execs = fe]]
  BY Zenon DEF spawn
<1>2. /\ Loaded(a) /\ b # Target /\ app[b].pc = "unborn" /\ Killed /\ UNCHANGED <<installed, files>>
      /\ loader' = [loader EXCEPT ![b].lib_env = loader[a].lib_env]
  BY Zenon DEF spawn, Killed, Others, daemonizeVars
<1>. DEFINE r == [NewApp EXCEPT !.pc = "loading", !.env = app[a].env,
                    !.active = app[a].active, !.follow_execs = fe]
            l == [loader[b] EXCEPT !.lib_env = loader[a].lib_env]
<1>3. r \in AppRecord /\ r.pc = "loading" /\ r.env = app[a].env
  BY SameApp, Zenon DEF AppRecord, NewApp
<1>4. loader[b].pc = "new" /\ (app[a].env => Settled)
  BY <1>2, Zenon DEF IInv, AppInv
<1>5. /\ loader[a] \in LoaderRecord /\ loader[b] \in LoaderRecord /\ files \in Files
      /\ Backed(loader[a], files) /\ Backed(loader[b], files)
  BY Zenon DEF IInv, FilesType, LoaderInv, Files
<1>6. /\ l \in LoaderRecord /\ l.pc = "new" /\ l.lib_env = loader[a].lib_env
      /\ l.handle = loader[b].handle /\ l.exe_env = loader[b].exe_env /\ l.ok = loader[b].ok
      /\ Set(b, l)
  BY <1>2, <1>4, <1>5, Zenon DEF LoaderRecord, Set
<1>. HIDE DEF r, l
<1>7. loader[a].lib_env => Named(files)
  BY <1>2, <1>5, Zenon DEF Backed, Loaded
<1>8. Backed(l, files) /\ files' = files
  BY <1>2, <1>4, <1>5, <1>6, <1>7, Zenon DEF Backed, Making
<1>9. FilesType' /\ LoaderInv'
  BY <1>2, <1>5, <1>6, <1>8, OneLoader, Zenon DEF IInv
<1>10. loader'[b] = l /\ \A c \in Apps : c # b => loader'[c] = loader[c]
  BY <1>6, Zenon DEF Set, IInv, FilesType
<1>11. Allowed(b, r, l)
  BY <1>2, <1>3, <1>4, Zenon DEF Allowed, Settled, BeforeStart
<1>. QED  BY <1>1, <1>2, <1>3, <1>9, <1>10, <1>11, OneApp, Zenon DEF r
-----------------------------------------------------------------------------
(* The theorems                                                            *)

\* Every step of a program, its loader, daemonize or the profiler keeps the invariant.
LEMMA StepInv == IInv /\ [Next]_vars => IInv'
<1>. SUFFICES ASSUME IInv, [Next]_vars PROVE IInv'  BY Zenon
<1>1. CASE UNCHANGED vars
  <2>1. ProfilerMoves /\ DaemonizeInv' /\ StartType'
    BY <1>1 DEF vars, daemonizeVars, IInv, StartType, DaemonizeInv, ProfilerMoves, SettingUp,
       DaemonAlive, Wrapper
  <2>. QED  BY <2>1, ProfilerMovesKeep, Zenon
<1>2. CASE InitialStep \/ daemonize_steps
  BY <1>2, TargetIs, WrapStep, AppSteps, ExecStep, DaemonizeMoves, ProfilerMovesKeep, Zenon
     DEF InitialStep
<1>3. CASE DaemonStep \/ ServerStep \/ setup_fails \/ worker_stops \/ worker_crashes
  BY <1>3, ProfilerStepMoves, WorkerMoves, ProfilerMovesKeep, Zenon DEF DaemonStep, ServerStep
<1>4. ASSUME NEW a \in Apps,
             LibraryStep(a) \/ call_start(a) \/ launch(a) \/ crash(a) \/ ddprof_stop_profiling(a)
      PROVE  IInv'
  BY <1>4, LoadSteps, AppSteps, PathRead, Zenon DEF LibraryStep
<1>5. ASSUME NEW a \in Apps, NEW b \in Apps, spawn(a, b) PROVE IInv'
  BY <1>5, SpawnStep, Zenon
<1>. QED  BY <1>1, <1>2, <1>3, <1>4, <1>5, Zenon DEF Next

\* The invariant holds in every state of a start.
LEMMA Invariant == Spec => []IInv
BY InitInv, StepInv, PTL DEF Spec

\* Whatever processes race for the files that the embedded library and executable
\* are written to, and wherever one of them is killed (get_or_create_temp_file), a
\* process that loads a library loads a whole one, with the executable that belongs
\* to it: in every mode and for any number of processes.
THEOREM WholeLibraries == Spec => []LoadsWholeLibrary
<1>1. IInv => LoadsWholeLibrary
  BY Zenon DEF IInv, LoaderInv, Backed, LoadsWholeLibrary, Loaded
<1>. QED  BY <1>1, Invariant, PTL

\* The wrapped program runs, and a library that started its profiler connects, only
\* when the profiler is set up or there is none: whatever fails or is killed, and
\* whenever the signal reaches the intermediate process (start_profiler_internal,
\* daemonize, get_ddprof_socket_path).
THEOREM ProfilerReadyFirst == Spec => []ReadyBeforeProgram
<1>1. IInv => ReadyBeforeProgram
  <2>. SUFFICES ASSUME IInv PROVE ReadyBeforeProgram  BY Zenon
  <2>1. Wrapper /\ app[Target].pc \notin {"wrap", "wrapping", "daemonize", "dead"} => ~ SettingUp
    BY Zenon DEF IInv, AppInv, BeforeStart
  <2>2. \A a \in Apps : app[a].pc = "connect" => ~ SettingUp
    BY Zenon DEF IInv, AppInv, Settled
  <2>. QED  BY <2>1, <2>2, Zenon DEF ReadyBeforeProgram
<1>. QED  BY <1>1, Invariant, PTL
==============================================================================
