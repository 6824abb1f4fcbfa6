------------------------------- MODULE Startup -------------------------------
(***************************************************************************)
(* The start of the profiler.  The ddprof program (main.cc) either wraps a *)
(* program, which it executes once a daemon is ready to profile it, or is  *)
(* given a process; the profiling library (dd_profiling.cc) spawns such a  *)
(* daemon from inside the program.  In all of them the library asks the    *)
(* profiler's worker for its ring buffer over a socket.                    *)
(***************************************************************************)
EXTENDS Loader, WorkerServer, Daemonize

CONSTANTS
  Modes,            \* the ways to start that are considered
  MaxStarts,        \* bound on the calls of ddprof_start_profiling by a process
  MaxWorkers        \* bound on the workers the profiler starts

ASSUME ModesAssumption == Modes \subseteq {"wrapper", "wrapper_alloc", "library", "pid"}

ASSUME AppsAssumption == Apps # {}   \* there is a process that starts the profiler

ASSUME BoundsAssumption == MaxStarts \in Nat /\ MaxWorkers \in Nat

VARIABLES
  mode,
  app,              \* the profiled processes
  ending,           \* SIGTERM, or the end of a worker that asks for no other
  workers,          \* the workers that were started
  profiler          \* g_state.profiler_pid: the worker that answered a process

vars == <<loaderVars, serverVars, daemonizeVars, mode, app, ending, workers, profiler>>

\* The process that starts the profiler, and one it later executes.
Target == CHOOSE a \in Apps : TRUE

Wrapper == mode \in {"wrapper", "wrapper_alloc"}

\* env: the socket path is in the environment; active: so is the indicator of an
\* active profiler, which only matters if execs are not followed; started and
\* starts: g_state.started, and the calls of ddprof_start_profiling.
NewApp == [pc |-> "unborn", env |-> FALSE, active |-> FALSE, follow_execs |-> TRUE,
           started |-> FALSE, starts |-> 0]

Init ==
  /\ LoaderInit /\ ServerInit
  /\ initial = "none" /\ intermediate = "none" /\ pipe = <<>>
  /\ mode \in Modes
  /\ daemon = IF mode = "pid" THEN "setup" ELSE "none"
  /\ app = [a \in Apps |-> [NewApp EXCEPT
       !.pc = IF a # Target THEN @
              ELSE CASE mode = "wrapper" -> "daemonize" [] mode = "wrapper_alloc" -> "wrap"
                     [] mode = "library" -> "loading" [] mode = "pid" -> "running"]]
  /\ ending = FALSE
  /\ workers = 0
  /\ profiler = [a \in Apps |-> 0]

Go(a, pc) == app' = [app EXCEPT ![a].pc = pc]

Others == UNCHANGED <<mode, ending, workers, profiler>>
-----------------------------------------------------------------------------
(* The wrapper: start_profiler_internal and main in the initial process    *)

wrap ==
  /\ app[Target].pc = "wrap" /\ get_library_path(Target)
  /\ Go(Target, "wrapping")
  /\ UNCHANGED <<serverVars, daemonizeVars>> /\ Others

\* Without the libraries the program runs unprofiled.
wrapped ==
  /\ app[Target].pc = "wrapping" /\ Wrapped(Target)
  /\ Go(Target, IF loader[Target].ok THEN "daemonize" ELSE "running")
  /\ UNCHANGED <<loaderVars, serverVars, daemonizeVars>> /\ Others

call_daemonize ==
  /\ app[Target].pc = "daemonize" /\ initial = "none" /\ daemonize
  /\ UNCHANGED <<loaderVars, serverVars, app>> /\ Others

\* Whatever happened to the profiler, the program is executed; with the library
\* preloaded and the socket path in its environment if the daemon was started.
exec_program ==
  /\ Wrapper /\ app[Target].pc = "daemonize" /\ initial \in {"daemonized", "error"}
  /\ IF initial = "daemonized" /\ mode = "wrapper_alloc"
       THEN /\ app' = [app EXCEPT ![Target].pc = "loading", ![Target].env = TRUE]
            /\ loader' = [loader EXCEPT ![Target] = [NewLoader EXCEPT !.lib_env = TRUE]]
       ELSE Go(Target, "running") /\ UNCHANGED loader
  /\ UNCHANGED <<installed, files, serverVars, daemonizeVars>> /\ Others
-----------------------------------------------------------------------------
(* The profiling library in the program                                    *)

\* ProfilerAutoStart, when the library is preloaded or the environment asks for it;
\* a library that is neither waits for the program's call.
autostart(a) ==
  /\ app[a].pc = "loading" /\ loader[a].pc = "loaded"
  /\ Go(a, IF Loaded(a) /\ app[a].env THEN "start" ELSE "running")
  /\ UNCHANGED <<loaderVars, serverVars, daemonizeVars>> /\ Others

call_start(a) ==
  /\ app[a].pc = "running" /\ Loaded(a) /\ app[a].starts < MaxStarts
  /\ app[a].env \/ a = Target
  /\ Go(a, "start")
  /\ UNCHANGED <<loaderVars, serverVars, daemonizeVars>> /\ Others

\* ddprof_start_profiling_internal
Refused(a) == app[a].started \/ (~app[a].follow_execs /\ app[a].active)

ddprof_start_profiling(a) ==
  /\ app[a].pc = "start"
  /\ app' = [app EXCEPT ![a].starts = @ + 1,
       ![a].pc = IF Refused(a) THEN "running" ELSE IF app[a].env THEN "connect" ELSE "daemonize"]
  /\ UNCHANGED <<loaderVars, serverVars, daemonizeVars>> /\ Others

\* The profiler is ready when it has written its socket path.
get_ddprof_socket_path(a) ==
  /\ app[a].pc = "daemonize" /\ ~Wrapper
  /\ \/ /\ initial = "daemonized" /\ pipe # <<>>
        /\ app' = [app EXCEPT ![a].env = TRUE, ![a].pc = "connect"]
        /\ pipe' = Tail(pipe) /\ UNCHANGED initial
     \/ /\ initial = "error" \/ (initial = "daemonized" /\ Eof)
        /\ Go(a, "running") /\ initial' = "none" /\ UNCHANGED pipe
  /\ UNCHANGED <<loaderVars, serverVars, intermediate, daemon>> /\ Others

connect(a) ==
  /\ app[a].pc = "connect"
  /\ \/ create_client_socket(a) /\ Go(a, "request")
     \/ ~listening /\ Go(a, "running") /\ UNCHANGED conn
  /\ UNCHANGED <<loaderVars, listening, server, daemonizeVars>> /\ Others

request(a) ==
  /\ app[a].pc = "request"
  /\ \/ send_request(a) /\ Go(a, "reply")
     \/ receive_failed(a) /\ Go(a, "running")
  /\ UNCHANGED <<loaderVars, listening, server, daemonizeVars>> /\ Others

\* The allocation tracker is started with the ring buffer of the reply.
reply(a) ==
  /\ app[a].pc = "reply"
  /\ \/ /\ receive_reply(a)
        /\ app' = [app EXCEPT ![a].pc = "running", ![a].started = TRUE, ![a].active = TRUE]
     \/ receive_failed(a) /\ Go(a, "running")
  /\ UNCHANGED <<loaderVars, listening, server, daemonizeVars>> /\ Others

\* The program executes another one, which inherits its environment.
spawn(a, b) == \E follow_execs \in BOOLEAN :
  /\ app[a].pc = "running" /\ Loaded(a)
  /\ b # Target /\ app[b].pc = "unborn"
  /\ app' = [app EXCEPT ![b] = [NewApp EXCEPT !.pc = "loading", !.env = app[a].env,
                                  !.active = app[a].active, !.follow_execs = follow_execs]]
  /\ loader' = [loader EXCEPT ![b].lib_env = loader[a].lib_env]
  /\ UNCHANGED <<installed, files, serverVars, daemonizeVars>> /\ Others
\* A program unrelated to this profiler loads the library.
launch(b) ==
  /\ b # Target /\ app[b].pc = "unborn"
  /\ Go(b, "loading")
  /\ UNCHANGED <<loaderVars, serverVars, daemonizeVars>> /\ Others
-----------------------------------------------------------------------------
(* The daemon: exec_ddprof, start_profiler_internal, main_loop             *)

daemon_writes_pid ==
  /\ write_pid(IF Wrapper THEN "setup" ELSE "exec")
  /\ UNCHANGED <<loaderVars, serverVars, app>> /\ Others

Daemon(pc) == daemon' = pc /\ UNCHANGED <<initial, pipe>>
Fails(pcs) == MayFail /\ daemon \in pcs

\* The library's daemon releases the intermediate process at once.
exec_ddprof ==
  /\ daemon = "exec"
  /\ intermediate' = Terminated
  /\ Daemon("setup") \/ (Fails({"exec"}) /\ Daemon("dead"))
  /\ UNCHANGED <<loaderVars, serverVars, app>> /\ Others

\* The checks of the system, the affinity, and ddprof_setup, which opens and
\* enables the perf events.
setup ==
  /\ daemon = "setup" /\ Daemon("socket")
  /\ UNCHANGED <<intermediate, loaderVars, serverVars, app>> /\ Others

create_socket ==
  /\ daemon = "socket" /\ Daemon("ready")
  /\ listening' = TRUE
  /\ UNCHANGED <<intermediate, loaderVars, server, conn, app>> /\ Others

\* exec_defer(defer_kill_temp_pid): the wrapper may go on; then the socket path is
\* written for the library.
MutantReleaseIntermediate ==   \* releases the intermediate process before setting up
  /\ daemon = "setup" /\ Wrapper
  /\ intermediate' = Terminated
  /\ daemon' = "socket"
  /\ UNCHANGED <<initial, pipe, loaderVars, serverVars, app>> /\ Others

release_intermediate ==
  /\ daemon = "ready"
  /\ daemon' = "tell" /\ intermediate' = IF Wrapper THEN Terminated ELSE intermediate
  /\ UNCHANGED <<initial, pipe, loaderVars, serverVars, app>> /\ Others

tell_library ==
  /\ daemon = "tell"
  /\ daemon' = "run" /\ pipe' = IF mode = "library" THEN Append(pipe, "path") ELSE pipe
  /\ UNCHANGED <<initial, intermediate, loaderVars, serverVars, app>> /\ Others

\* Any of these steps fails: the defers run and the daemon exits.
setup_fails ==
  /\ Fails({"setup", "socket", "tell"})
  /\ Daemon("dead") /\ intermediate' = IF Wrapper THEN Terminated ELSE intermediate
  /\ SocketGone
  /\ UNCHANGED <<loaderVars, app>> /\ Others

start_worker ==
  /\ daemon = "run" /\ ~ending /\ workers < MaxWorkers /\ start_worker_server
  /\ workers' = workers + 1
  /\ UNCHANGED <<loaderVars, daemonizeVars, app, mode, ending, profiler>>

\* The reply holds the pid of the worker.
serve_clients ==
  /\ Serving
  /\ profiler' = [a \in Apps |-> IF conn[a].message # "reply" /\ conn'[a].message = "reply"
                                    THEN workers ELSE profiler[a]]
  /\ UNCHANGED <<loaderVars, daemonizeVars, app, mode, ending, workers>>

\* The profiler ends with this worker, unless it had asked to be replaced by
\* another one (restart_worker).
LastWorker == ending' \in {TRUE} \cup {e \in {FALSE} : ~ending /\ workers < MaxWorkers}

\* The end of worker_loop: to be replaced by another worker, because of SIGTERM or
\* because of an error.
worker_stops ==
  /\ shut_down
  /\ LastWorker
  /\ UNCHANGED <<loaderVars, daemonizeVars, app, mode, workers, profiler>>

worker_joined ==
  /\ server_ends
  /\ UNCHANGED <<loaderVars, daemonizeVars, app>> /\ Others

KillWorker ==
  /\ server_killed
  /\ IF server = "up" THEN LastWorker ELSE UNCHANGED ending

worker_crashes ==
  /\ MayFail /\ KillWorker
  /\ UNCHANGED <<loaderVars, daemonizeVars, app, mode, workers, profiler>>

\* main_loop returns once the worker is gone.
profiler_exits ==
  /\ daemon = "run" /\ server = "down" /\ ending
  /\ Daemon("dead") /\ SocketGone
  /\ UNCHANGED <<intermediate, loaderVars, app>> /\ Others
-----------------------------------------------------------------------------
(* ddprof_stop_profiling                                                   *)

\* The worker that answered is still the current one.
ProfilerAlive(a) == server # "down" /\ profiler[a] = workers

\* SIGTERM to that worker, which does not reach one that has replaced it.
ddprof_stop_profiling(a) ==
  /\ app[a].pc = "running" /\ app[a].started
  /\ IF ProfilerAlive(a) /\ server = "up" THEN LastWorker ELSE UNCHANGED ending
  /\ Go(a, "stopping")
  /\ UNCHANGED <<loaderVars, serverVars, daemonizeVars, mode, workers, profiler>>

\* The worker is gone, or killed at the time limit.
stopped(a) ==
  /\ app[a].pc = "stopping"
  /\ app' = [app EXCEPT ![a].pc = "running", ![a].started = FALSE, ![a].active = FALSE]
  /\ \/ ~ProfilerAlive(a) /\ UNCHANGED <<serverVars, ending>>
     \/ ProfilerAlive(a) /\ KillWorker
  /\ UNCHANGED <<loaderVars, daemonizeVars, mode, workers, profiler>>
-----------------------------------------------------------------------------
load(a) ==
  /\ app[a].pc \in {"wrapping", "loading"} /\ LoaderStep(a)
  /\ UNCHANGED <<serverVars, daemonizeVars, app>> /\ Others

crash(a) ==
  /\ app[a].pc \in {"wrapping", "loading"} /\ LoaderCrash(a)
  /\ Go(a, "dead")
  /\ UNCHANGED <<serverVars, daemonizeVars>> /\ Others

daemonize_steps ==
  /\ DaemonizeStep
  /\ UNCHANGED <<loaderVars, serverVars, app>> /\ Others

LibraryStep(a) ==
  \/ load(a) \/ autostart(a) \/ ddprof_start_profiling(a) \/ get_ddprof_socket_path(a)
  \/ connect(a) \/ request(a) \/ reply(a) \/ stopped(a)

InitialStep ==
  wrap \/ wrapped \/ call_daemonize \/ exec_program

DaemonStep ==
  \/ daemon_writes_pid \/ exec_ddprof \/ setup \/ create_socket \/ release_intermediate
  \/ tell_library \/ start_worker \/ profiler_exits

ServerStep == serve_clients \/ worker_joined

Next ==
  \/ InitialStep \/ daemonize_steps \/ DaemonStep \/ ServerStep
  \/ setup_fails \/ worker_stops \/ worker_crashes
  \/ \E a \in Apps : LibraryStep(a) \/ call_start(a) \/ launch(a) \/ crash(a) \/ ddprof_stop_profiling(a)
  \/ \E a, b \in Apps : spawn(a, b)

\* Every process runs on, the timeouts of the clients' sockets expire (the second
\* disjuncts of request and reply), and a worker that was sent SIGTERM leaves its loop.
Fairness ==
  /\ WF_vars(InitialStep) /\ WF_vars(daemonize_steps) /\ WF_vars(DaemonStep)
  /\ WF_vars(serve_clients) /\ WF_vars(worker_joined) /\ WF_vars(ending /\ worker_stops)
  /\ \A a \in Apps : WF_vars(LibraryStep(a))

Spec == Init /\ [][Next]_vars /\ Fairness
-----------------------------------------------------------------------------
(* Properties                                                              *)

SettingUp == daemon \in {"write_pid", "exec", "setup", "socket", "ready"}

\* A wrapped program runs only once the perf events are enabled and the socket
\* listens, or when there is no daemon that could still do so (start_profiler_internal
\* releases the intermediate process last); a library that spawned the profiler
\* connects only then.
ReadyBeforeProgram ==
  /\ Wrapper /\ app[Target].pc \notin {"wrap", "wrapping", "daemonize", "dead"} => ~SettingUp
  /\ \A a \in Apps : app[a].pc = "connect" => ~SettingUp

\* The signal came between sigaction and waitpid of the intermediate process, and
\* is not sent again.
SignalLost ==
  /\ intermediate \in {"call_wait", "blocked"}
  /\ daemon \in IF Wrapper THEN {"tell", "run"} ELSE {"setup", "socket", "ready", "tell", "run"}

Busy(a) == app[a].pc \notin {"unborn", "running", "dead"}

\* Starting the profiler comes to an end, for the wrapper as for every caller of
\* ddprof_start_profiling, whatever fails, dies, times out or is replaced meanwhile;
\* the exception is a signal the intermediate process of daemonize lost.
StartReturns == \A a \in Apps : Busy(a) ~> (~Busy(a) \/ SignalLost)

\* A worker that ends is not kept by its server thread, which waits for connections
\* it has accepted (event_loop).
ServerStops == server = "shutting_down" ~> server = "down"

=============================================================================
