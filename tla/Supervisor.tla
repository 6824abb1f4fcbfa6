----------------------------- MODULE Supervisor -----------------------------
(***************************************************************************)
(* The profiler process and its workers.  spawn_workers forks a worker,    *)
(* waits for it and forks another one if the worker asked to be replaced   *)
(* (restart_worker, in memory shared with it); SIGTERM and SIGINT may come *)
(* at any instruction and handle_signal forwards them to the worker.       *)
(* The worker is its control flow: initialisation, the loop with its       *)
(* exports, the final export.  Any step of it may fail, and the process    *)
(* may crash.                                                              *)
(***************************************************************************)
EXTENDS Integers

CONSTANTS
  WorkerPeriod,   \* params.worker_period: exports between worker refreshes
  WorkerMayFail,  \* the worker may meet fatal errors
  MayCrash,       \* the worker may be killed at any instruction
  SpawnMayFail,   \* fork may return -1
  MaxForks,       \* bound on the calls of fork: what would lead to one more
                  \* (a restart) does not happen
  MaxSignals      \* bound on the signals sent to the profiler

ASSUME PeriodAssumption == WorkerPeriod \in Nat

ASSUME SpawnBounds == MaxForks \in Nat \ {0} /\ MaxSignals \in Nat

ASSUME SpawnFlags == {WorkerMayFail, MayCrash, SpawnMayFail} \subseteq BOOLEAN

VARIABLES
  \* the parent
  pc, masked, pending,
  g_termination_requested,
  g_child_pid,
  \* PersistentWorkerState
  restart_worker, errors,
  \* the workers, by pid
  wpc,            \* where each one is
  wpending,       \* a signal is pending for it
  wterm,          \* its copy of g_termination_requested
  count_worker,   \* its exports
  stop,           \* it saw POLLHUP in this iteration
  \* history
  forks,          \* calls of fork, also the last pid
  signals,        \* signals sent
  graceful,       \* the workers that have returned from worker without error
  unstarted       \* a fork failed, or a worker died before WorkerStart

parent == <<pc, masked, pending, g_termination_requested, g_child_pid>>
shared == <<restart_worker, errors>>
worker == <<wpc, wpending, wterm, count_worker, stop>>
history == <<forks, signals, graceful, unstarted>>
supervisorVars == <<parent, shared, worker, history>>

Pids == 1 .. MaxForks

Alive(w) == wpc[w] \notin {"none", "zombie", "reaped"}

\* main_loop maps a zeroed PersistentWorkerState, and spawn_workers installs
\* the signal handler.
SupervisorInit ==
  /\ pc = "check"
  /\ masked = FALSE
  /\ pending = FALSE
  /\ g_termination_requested = FALSE
  /\ g_child_pid = 0
  /\ restart_worker = FALSE
  /\ errors = FALSE
  /\ wpc = [w \in Pids |-> "none"]
  /\ wpending = [w \in Pids |-> FALSE]
  /\ wterm = [w \in Pids |-> FALSE]
  /\ count_worker = [w \in Pids |-> 0]
  /\ stop = [w \in Pids |-> FALSE]
  /\ forks = 0
  /\ signals = 0
  /\ graceful = {}
  /\ unstarted = FALSE

-----------------------------------------------------------------------------
(* The parent: spawn_workers *)

\* The condition of the loop over workers.
Check ==
  /\ pc = "check"
  /\ pc' = IF g_termination_requested THEN "done" ELSE "block"
  /\ UNCHANGED <<masked, pending, g_termination_requested, g_child_pid, shared,
                 worker, history>>

\* modify_sigprocmask(SIG_BLOCK)
Block ==
  /\ pc = "block"
  /\ masked' = TRUE
  /\ pc' = "fork"
  /\ UNCHANGED <<pending, g_termination_requested, g_child_pid, shared, worker,
                 history>>

\* g_child_pid = fork().  The child has a copy of the parent's memory and of its
\* signal mask, and no pending signal.
Fork ==
  /\ pc = "fork"
  /\ forks' = forks + 1
  /\ \/ /\ g_child_pid' = forks'
        /\ wpc' = [wpc EXCEPT ![forks'] = "forked"]
        /\ wterm' = [wterm EXCEPT ![forks'] = g_termination_requested]
        /\ UNCHANGED unstarted
     \/ /\ SpawnMayFail
        /\ restart_worker => forks' < MaxForks
        /\ g_child_pid' = -1
        /\ unstarted' = TRUE
        /\ UNCHANGED <<wpc, wterm>>
  /\ pc' = "unblock"
  /\ UNCHANGED <<masked, pending, g_termination_requested, shared, wpending,
                 count_worker, stop, signals, graceful>>

\* modify_sigprocmask(SIG_UNBLOCK)
Unblock ==
  /\ pc = "unblock"
  /\ masked' = FALSE
  /\ pc' = "wait"
  /\ UNCHANGED <<pending, g_termination_requested, g_child_pid, shared, worker,
                 history>>

\* Mutant of Wait: without SA_RESTART a signal interrupts waitpid.
WaitInterruptible ==
  /\ pc = "wait"
  /\ \/ /\ g_child_pid > 0 /\ wpc[g_child_pid] = "zombie"
        /\ wpc' = [wpc EXCEPT ![g_child_pid] = "reaped"]
     \/ /\ g_child_pid = -1 \/ g_termination_requested
        /\ UNCHANGED wpc
  /\ pc' = "reap"
  /\ UNCHANGED <<masked, pending, g_termination_requested, g_child_pid, shared,
                 wpending, wterm, count_worker, stop, history>>

\* waitpid reaps the child; there is none to wait for if fork failed.
Wait ==
  /\ pc = "wait"
  /\ \/ /\ g_child_pid > 0 /\ wpc[g_child_pid] = "zombie"
        /\ wpc' = [wpc EXCEPT ![g_child_pid] = "reaped"]
     \/ /\ g_child_pid = -1
        /\ UNCHANGED wpc
  /\ pc' = "reap"
  /\ UNCHANGED <<masked, pending, g_termination_requested, g_child_pid, shared,
                 wpending, wterm, count_worker, stop, history>>

\* g_child_pid = 0
Reap ==
  /\ pc = "reap"
  /\ g_child_pid' = 0
  /\ pc' = "harvest"
  /\ UNCHANGED <<masked, pending, g_termination_requested, shared, worker,
                 history>>

\* Harvest the exit state of the child process.
Harvest ==
  /\ pc = "harvest"
  /\ pc' = IF restart_worker THEN "check"
           ELSE IF errors THEN "warned" ELSE "done"
  /\ UNCHANGED <<masked, pending, g_termination_requested, g_child_pid, shared,
                 worker, history>>

\* Mutant of HandleSignal: the signal stays with the parent.
HandleSignalAlone ==
  /\ pending /\ ~masked
  /\ pc \notin {"done", "warned"}
  /\ pending' = FALSE
  /\ g_termination_requested' = TRUE
  /\ UNCHANGED <<pc, masked, g_child_pid, shared, worker, history>>

\* handle_signal interrupts spawn_workers anywhere.  kill does nothing to a child
\* that is dead, nor (in this model) to what else has its pid.
HandleSignal ==
  /\ pending /\ ~masked
  /\ pc \notin {"done", "warned"}
  /\ pending' = FALSE
  /\ g_termination_requested' = TRUE
  /\ wpending' = IF g_child_pid > 0 /\ Alive(g_child_pid)
                   THEN [wpending EXCEPT ![g_child_pid] = TRUE]
                   ELSE wpending
  /\ UNCHANGED <<pc, masked, g_child_pid, shared, wpc, wterm, count_worker,
                 stop, forks, signals, graceful, unstarted>>

-----------------------------------------------------------------------------
(* A worker *)

Goto(w, from, to) ==
  /\ wpc[w] = from
  /\ wpc' = [wpc EXCEPT ![w] = to]

\* The child has unblocked its signals.  Mutant of WorkerStart: the flags are
\* left as the previous worker set them.
WorkerStartAsIs(w) ==
  /\ Goto(w, "forked", "init")
  /\ errors' = TRUE
  /\ UNCHANGED <<parent, restart_worker, wpending, wterm, count_worker, stop,
                 history>>

\* The child has unblocked its signals: worker resets the shared flags.
WorkerStart(w) ==
  /\ Goto(w, "forked", "init")
  /\ restart_worker' = FALSE
  /\ errors' = TRUE
  /\ UNCHANGED <<parent, wpending, wterm, count_worker, stop, history>>

\* attr->init_fun (ddprof_worker_init) and start_worker_server.
WorkerInit(w) ==
  /\ \/ Goto(w, "init", "loop")
     \/ WorkerMayFail /\ Goto(w, "init", "fatal")
  /\ UNCHANGED <<parent, shared, wpending, wterm, count_worker, stop, history>>

\* The loop condition of worker_loop.
LoopCheck(w) ==
  /\ Goto(w, "loop", IF wterm[w] THEN "final" ELSE "process")
  /\ UNCHANGED <<parent, shared, wpending, wterm, count_worker, stop, history>>

\* poll, which a signal may interrupt, then the ring buffers are processed;
\* poll may report a hangup.
ProcessRingBuffers(w) ==
  /\ \/ Goto(w, "process", "loop") /\ UNCHANGED stop
     \/ /\ \/ Goto(w, "process", "export")
           \/ WorkerMayFail /\ Goto(w, "process", "fatal")
        /\ stop' \in {stop, [stop EXCEPT ![w] = TRUE]}
  /\ UNCHANGED <<parent, shared, wpending, wterm, count_worker, history>>

\* ddprof_worker_maybe_export, when no export is due: the worker leaves its
\* loop if the target is gone.
NotDue(w) ==
  /\ Goto(w, "export", IF stop[w] THEN "final" ELSE "loop")
  /\ UNCHANGED <<parent, shared, wpending, wterm, count_worker, stop, history>>

\* ddprof_worker_maybe_export, when an export is due: decides whether this is
\* the last export of the worker ...
Due(w) ==
  /\ Goto(w, "export", "cycle")
  /\ restart_worker' = (count_worker[w] + 1 >= WorkerPeriod)
  /\ restart_worker' => forks < MaxForks
  /\ UNCHANGED <<parent, errors, wpending, wterm, count_worker, stop, history>>

\* ... and runs ddprof_worker_cycle, after which the worker asks to be
\* replaced, leaves its loop or goes on.
Cycle(w) ==
  /\ \/ /\ Goto(w, "cycle", IF restart_worker THEN "ok"
                            ELSE IF stop[w] THEN "final" ELSE "loop")
        /\ count_worker' = [count_worker EXCEPT ![w] = @ + 1]
     \/ /\ WorkerMayFail
        /\ Goto(w, "cycle", "fatal")
        /\ UNCHANGED count_worker
  /\ UNCHANGED <<parent, shared, wpending, wterm, stop, history>>

\* "export current samples before exiting"
FinalCycle(w) ==
  /\ \/ /\ Goto(w, "final", "ok")
        /\ count_worker' = [count_worker EXCEPT ![w] = @ + 1]
     \/ /\ WorkerMayFail
        /\ Goto(w, "final", "fatal")
        /\ UNCHANGED count_worker
  /\ UNCHANGED <<parent, shared, wpending, wterm, stop, history>>

\* worker_loop returned: worker clears errors unless the result is fatal, and
\* the process exits.
WorkerExit(w) ==
  /\ \/ /\ Goto(w, "ok", "zombie")
        /\ errors' = FALSE
        /\ graceful' = graceful \cup {w}
     \/ /\ Goto(w, "fatal", "zombie")
        /\ UNCHANGED <<errors, graceful>>
  /\ UNCHANGED <<parent, restart_worker, wpending, wterm, count_worker, stop,
                 forks, signals, unstarted>>

\* The process is killed, or dies of a memory error.
WorkerCrash(w) ==
  /\ MayCrash
  /\ Alive(w)
  /\ restart_worker => forks < MaxForks
  /\ wpc' = [wpc EXCEPT ![w] = "zombie"]
  /\ unstarted' = (unstarted \/ wpc[w] = "forked")
  /\ UNCHANGED <<parent, shared, wpending, wterm, count_worker, stop, forks,
                 signals, graceful>>

\* handle_signal in the worker, where g_child_pid is 0.
WorkerSignal(w) ==
  /\ wpending[w]
  /\ Alive(w) /\ wpc[w] # "forked"
  /\ wpending' = [wpending EXCEPT ![w] = FALSE]
  /\ wterm' = [wterm EXCEPT ![w] = TRUE]
  /\ UNCHANGED <<parent, shared, wpc, count_worker, stop, history>>

-----------------------------------------------------------------------------

\* Somebody sends SIGTERM or SIGINT to the profiler, or to its process group.
SendSignal ==
  /\ signals < MaxSignals
  /\ signals' = signals + 1
  /\ pending' = TRUE
  /\ wpending' \in {wpending, [w \in Pids |-> wpending[w] \/ Alive(w)]}
  /\ UNCHANGED <<pc, masked, g_termination_requested, g_child_pid, shared,
                 wpc, wterm, count_worker, stop, forks, graceful, unstarted>>

ParentStep ==
  Check \/ Block \/ Fork \/ Unblock \/ Wait \/ Reap \/ Harvest \/ HandleSignal

WorkerStep(w) ==
  \/ WorkerStart(w) \/ WorkerInit(w) \/ LoopCheck(w) \/ ProcessRingBuffers(w)
  \/ NotDue(w) \/ Due(w) \/ Cycle(w) \/ FinalCycle(w) \/ WorkerExit(w)

SupervisorNext ==
  \/ ParentStep
  \/ \E w \in Pids : WorkerStep(w)
  \/ \E w \in Pids : WorkerSignal(w)
  \/ \E w \in Pids : WorkerCrash(w)
  \/ SendSignal

SupervisorSpec == SupervisorInit /\ [][SupervisorNext]_supervisorVars

\* Processes are scheduled and pending signals are delivered.
FairSupervisor ==
  /\ SupervisorSpec
  /\ WF_supervisorVars(ParentStep)
  /\ \A w \in Pids : WF_supervisorVars(WorkerStep(w)) /\ WF_supervisorVars(WorkerSignal(w))

-----------------------------------------------------------------------------
(* Properties *)

WorkerPc == {"none", "forked", "init", "loop", "process", "export", "cycle",
             "final", "ok", "fatal", "zombie", "reaped"}

\* Types of the state of the parent, the shared flags and the workers.
TypeOK ==
  /\ pc \in {"check", "block", "fork", "unblock", "wait", "reap", "harvest",
             "done", "warned"}
  /\ masked \in BOOLEAN /\ pending \in BOOLEAN
  /\ g_termination_requested \in BOOLEAN
  /\ restart_worker \in BOOLEAN /\ errors \in BOOLEAN
  /\ g_child_pid \in Pids \cup {0, -1}
  /\ wpc \in [Pids -> WorkerPc]
  /\ wpending \in [Pids -> BOOLEAN]
  /\ wterm \in [Pids -> BOOLEAN]
  /\ stop \in [Pids -> BOOLEAN]
  /\ count_worker \in [Pids -> Nat]
  /\ forks \in 0 .. MaxForks /\ signals \in 0 .. MaxSignals
  /\ graceful \subseteq Pids
  /\ unstarted \in BOOLEAN

\* The ring buffers have a single reader: no worker is forked while another
\* one is alive, and none is left behind when the profiler returns, whatever
\* signals and crashes happen.
SingleWorker ==
  /\ \A v, w \in Pids : Alive(v) /\ Alive(w) => v = w
  /\ pc \in {"check", "block", "fork", "reap", "harvest", "done", "warned"}
       => \A w \in Pids : ~Alive(w)

\* Workers are not replaced in a tight loop: once every worker got to reset the
\* shared flags, a worker that has a successor went through worker_period
\* exports, the last of which may have failed or crashed.
RespawnsAreSpaced ==
  ~unstarted => \A w \in Pids : w < forks => count_worker[w] + 1 >= WorkerPeriod

\* A successful end of the profiler means that its last worker ended without
\* error or crash, unless the profiler was told to terminate: errors is set
\* before the worker does anything else and cleared only by its graceful return.
ErrorsReported ==
  pc = "done" /\ ~g_termination_requested /\ ~unstarted => forks \in graceful

\* A profiler that gets SIGTERM or SIGINT ends, its worker before it.
TerminationCompletes ==
  pending /\ pc \notin {"done", "warned"} ~>
    pc \in {"done", "warned"} /\ \A w \in Pids : ~Alive(w)

=============================================================================
