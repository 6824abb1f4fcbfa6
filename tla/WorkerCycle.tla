----------------------------- MODULE WorkerCycle -----------------------------
(***************************************************************************)
(* The export of profiles.  The worker thread aggregates samples in one of *)
(* two profiles; ddprof_worker_cycle waits for the previous export, swaps  *)
(* the profiles and lets an export thread send the one that is full (or    *)
(* sends it itself, when the worker is about to end).  Each profile has an *)
(* exporter with a counter of consecutive errors.  The sequence number of  *)
(* the profiles lives in the memory that survives the worker.              *)
(***************************************************************************)
EXTENDS Integers, Sequences

CONSTANTS
  WorkerPeriod,        \* params.worker_period
  MaxErrorsAllowed,    \* k_max_nb_consecutive_errors_allowed
  MayFail,             \* steps of the cycle may fail, joins may time out
  MayCrash,            \* the worker process may be killed
  CreateMayFail,       \* pthread_create may fail, which nobody looks at
  MaxSamples,          \* bound on the samples
  MaxCycles            \* bound on the exports

ASSUME CycleAssumption ==
  /\ WorkerPeriod \in Nat /\ MaxErrorsAllowed \in Nat
  /\ MaxSamples \in Nat /\ MaxCycles \in Nat

VARIABLES
  \* PersistentWorkerState
  restart_worker, profile_seq,
  \* the worker thread
  pc,
  sync,            \* synchronous_export of the running cycle
  count_worker,
  i_current_pprof,
  exp_tid,         \* a thread is recorded
  fatal,           \* worker_loop is returning an error
  freed,           \* the profiles and the exporters are freed
  \* the profiles and the exporters
  pprof, nb_consecutive_errors, exp_error,
  \* the export thread, or the worker in a synchronous export
  tpc, ti, tseq, tdata,
  \* history
  samples,         \* samples aggregated so far
  attempts,        \* profiles that were serialized and sent, in this order
  lost             \* samples a failure took away

shared == <<restart_worker, profile_seq>>
control == <<pc, sync, count_worker, i_current_pprof, exp_tid, fatal, freed>>
profiles == <<pprof, nb_consecutive_errors, exp_error>>
thread == <<tpc, ti, tseq, tdata>>
history == <<samples, attempts, lost>>
vars == <<shared, control, profiles, thread, history>>

Profiles == 0 .. 1

Attempted == UNION {attempts[k].data : k \in 1 .. Len(attempts)}

\* Samples that are still to be exported.
Kept == (UNION {pprof[i] : i \in Profiles}) \cup tdata

\* The worker's memory when ddprof_worker_init has returned.
InitWorker ==
  /\ pc' = "loop"
  /\ sync' = FALSE
  /\ count_worker' = 0
  /\ i_current_pprof' = 0
  /\ exp_tid' = FALSE
  /\ fatal' = FALSE
  /\ freed' = FALSE
  /\ pprof' = [i \in Profiles |-> {}]
  /\ nb_consecutive_errors' = [i \in Profiles |-> 0]
  /\ exp_error' = FALSE
  /\ tpc' = "none"
  /\ ti' = 0 /\ tseq' = 0 /\ tdata' = {}

Init ==
  /\ restart_worker = FALSE /\ profile_seq = 0
  /\ pc = "loop"
  /\ sync = FALSE
  /\ count_worker = 0
  /\ i_current_pprof = 0
  /\ exp_tid = FALSE
  /\ fatal = FALSE
  /\ freed = FALSE
  /\ pprof = [i \in Profiles |-> {}]
  /\ nb_consecutive_errors = [i \in Profiles |-> 0]
  /\ exp_error = FALSE
  /\ tpc = "none"
  /\ ti = 0 /\ tseq = 0 /\ tdata = {}
  /\ samples = 0 /\ attempts = <<>> /\ lost = {}

-----------------------------------------------------------------------------
(* The worker thread *)

\* pr_sample aggregates in the current profile.
Sample ==
  /\ pc = "loop"
  /\ samples < MaxSamples
  /\ samples' = samples + 1
  /\ pprof' = [pprof EXCEPT ![i_current_pprof] = @ \cup {samples'}]
  /\ UNCHANGED <<shared, control, nb_consecutive_errors, exp_error, thread,
                 attempts, lost>>

\* ddprof_worker_maybe_export, when the upload period has passed.
MaybeExport ==
  /\ pc = "loop"
  /\ profile_seq < MaxCycles
  /\ restart_worker' = (count_worker + 1 >= WorkerPeriod)
  /\ sync' = restart_worker'
  /\ pc' = "join"
  /\ UNCHANGED <<profile_seq, count_worker, i_current_pprof, exp_tid, fatal,
                 freed, profiles, thread, history>>

\* worker_loop leaves its loop: the last export, which is synchronous.
FinalExport ==
  /\ pc = "loop"
  /\ sync' = TRUE
  /\ pc' = "join"
  /\ UNCHANGED <<shared, count_worker, i_current_pprof, exp_tid, fatal, freed,
                 profiles, thread, history>>

\* A step that returns an error makes worker_loop return it.
Fail ==
  /\ MayFail
  /\ pc \in {"loop", "join", "check", "reset", "update"}
  /\ fatal' = TRUE
  /\ pc' = "free"
  /\ UNCHANGED <<shared, sync, count_worker, i_current_pprof, exp_tid, freed,
                 profiles, thread, history>>

\* Mutant of Join: the previous export is not waited for.
JoinNotWaiting ==
  /\ pc = "join"
  /\ exp_tid' = FALSE
  /\ pc' = "check"
  /\ UNCHANGED <<shared, sync, count_worker, i_current_pprof, fatal, freed,
                 profiles, thread, history>>

\* pthread_timedjoin_np on the previous export; that it times out is one of the
\* errors of Fail.
Join ==
  /\ pc = "join"
  /\ exp_tid => tpc = "done"
  /\ exp_tid' = FALSE
  /\ pc' = "check"
  /\ UNCHANGED <<shared, sync, count_worker, i_current_pprof, fatal, freed,
                 profiles, thread, history>>

\* Mutant of Swap: the worker goes on with the profile it has filled.
SwapForgotten ==
  /\ pc = "check"
  /\ IF exp_error
       THEN fatal' = TRUE /\ pc' = "free"
       ELSE pc' = "reset" /\ UNCHANGED fatal
  /\ UNCHANGED <<shared, sync, count_worker, i_current_pprof, exp_tid, freed,
                 profiles, thread, history>>

\* Ends the cycle if the previous export failed, otherwise swaps the profiles.
Swap ==
  /\ pc = "check"
  /\ IF exp_error
       THEN /\ fatal' = TRUE
            /\ pc' = "free"
            /\ UNCHANGED i_current_pprof
       ELSE /\ i_current_pprof' = 1 - i_current_pprof
            /\ pc' = "reset"
            /\ UNCHANGED fatal
  /\ UNCHANGED <<shared, sync, count_worker, exp_tid, freed, profiles, thread,
                 history>>

\* Mutant of Reset: the profile keeps what it held two cycles before.
ResetNothing ==
  /\ pc = "reset"
  /\ pc' = "dispatch"
  /\ UNCHANGED <<shared, sync, count_worker, i_current_pprof, exp_tid, fatal,
                 freed, profiles, thread, history>>

\* pprof_reset of the profile the worker is about to write.
Reset ==
  /\ pc = "reset"
  /\ pprof' = [pprof EXCEPT ![i_current_pprof] = {}]
  /\ pc' = "dispatch"
  /\ UNCHANGED <<shared, sync, count_worker, i_current_pprof, exp_tid, fatal,
                 freed, nb_consecutive_errors, exp_error, thread, history>>

\* pthread_create, or a direct call of the thread's function.  When the creation
\* fails the cycle goes on and the profile is never sent.
Dispatch ==
  /\ pc = "dispatch"
  /\ \/ /\ tpc' = "start"
        /\ exp_tid' = ~sync
        /\ pc' = IF sync THEN "inline" ELSE "update"
        /\ UNCHANGED lost
     \/ /\ CreateMayFail /\ ~sync
        /\ pc' = "update"
        /\ lost' = lost \cup pprof[1 - i_current_pprof]
        /\ UNCHANGED <<tpc, exp_tid>>
  /\ UNCHANGED <<shared, sync, count_worker, i_current_pprof, fatal, freed,
                 profiles, ti, tseq, tdata, samples, attempts>>

\* The direct call has returned.
InlineDone ==
  /\ pc = "inline"
  /\ tpc = "done"
  /\ fatal' = exp_error
  /\ pc' = IF exp_error THEN "free" ELSE "update"
  /\ UNCHANGED <<shared, sync, count_worker, i_current_pprof, exp_tid, freed,
                 profiles, thread, history>>

\* The rest of the cycle (statistics, the count of exports); a worker that has
\* exported synchronously returns from worker_loop.
Update ==
  /\ pc = "update"
  /\ count_worker' = count_worker + 1
  /\ pc' = IF sync THEN "free" ELSE "loop"
  /\ UNCHANGED <<shared, sync, i_current_pprof, exp_tid, fatal, freed,
                 profiles, thread, history>>

\* ddprof_worker_free: joins the export thread, or cancels it if it takes too
\* long, and frees the exporters and the profiles.  A cancelled thread stops at
\* its next cancellation point.
Free ==
  /\ pc = "free"
  /\ \/ (exp_tid => tpc = "done") /\ UNCHANGED tpc
     \/ exp_tid /\ tpc # "done" /\ tpc' \in {tpc, "done"}
  /\ exp_tid' = FALSE
  /\ freed' = TRUE
  /\ pc' = "exit"
  /\ UNCHANGED <<shared, sync, count_worker, i_current_pprof, fatal, profiles,
                 ti, tseq, tdata, history>>

\* The process exits, its export thread with it.
Exit ==
  /\ pc = "exit"
  /\ pc' = "ended"
  /\ lost' = lost \cup (Kept \ Attempted)
  /\ tpc' = "none"
  /\ tdata' = {}
  /\ pprof' = [i \in Profiles |-> {}]
  /\ UNCHANGED <<shared, sync, count_worker, i_current_pprof, exp_tid, fatal,
                 freed, nb_consecutive_errors, exp_error, ti, tseq, samples,
                 attempts>>

\* The process is killed.
Crash ==
  /\ MayCrash
  /\ pc # "ended"
  /\ fatal' = TRUE
  /\ pc' = "ended"
  /\ lost' = lost \cup (Kept \ Attempted)
  /\ tpc' = "none"
  /\ tdata' = {}
  /\ pprof' = [i \in Profiles |-> {}]
  /\ UNCHANGED <<shared, sync, count_worker, i_current_pprof, exp_tid, freed,
                 nb_consecutive_errors, exp_error, ti, tseq, samples, attempts>>

\* spawn_workers forks the next worker.
Respawn ==
  /\ pc = "ended"
  /\ restart_worker
  /\ restart_worker' = FALSE
  /\ InitWorker
  /\ UNCHANGED <<profile_seq, samples, attempts, lost>>

-----------------------------------------------------------------------------
(* ddprof_worker_export_thread *)

\* Mutant of Start: the number is taken from the profiles of this worker.
StartCounting ==
  /\ tpc = "start"
  /\ ti' = 1 - i_current_pprof
  /\ tseq' = count_worker
  /\ profile_seq' = profile_seq + 1
  /\ tpc' = "serialize"
  /\ UNCHANGED <<restart_worker, control, profiles, tdata, history>>

\* Picks the profile that is not written to and takes a sequence number.
Start ==
  /\ tpc = "start"
  /\ ti' = 1 - i_current_pprof
  /\ tseq' = profile_seq
  /\ profile_seq' = profile_seq + 1
  /\ tpc' = "serialize"
  /\ UNCHANGED <<restart_worker, control, profiles, tdata, history>>

\* ddprof_exporter_export: serialization, of which an error is fatal.
Serialize ==
  /\ tpc = "serialize"
  /\ \/ /\ tdata' = pprof[ti]
        /\ tpc' = "send"
        /\ UNCHANGED exp_error
     \/ /\ MayFail
        /\ exp_error' = TRUE
        /\ tpc' = "done"
        /\ UNCHANGED tdata
  /\ UNCHANGED <<shared, control, pprof, nb_consecutive_errors, ti, tseq,
                 history>>

\* The connection fails, which is fatal when it is one time too many; or the
\* backend answers, which resets the counter and is fatal for 403 and 404.
Send ==
  /\ tpc = "send"
  /\ attempts' = Append(attempts, [seq |-> tseq, data |-> tdata])
  /\ tdata' = {}
  /\ tpc' = "done"
  /\ \/ /\ exp_error' = (exp_error
                         \/ nb_consecutive_errors[ti] >= MaxErrorsAllowed)
        /\ nb_consecutive_errors' = [nb_consecutive_errors EXCEPT ![ti] = @ + 1]
     \/ /\ nb_consecutive_errors' = [nb_consecutive_errors EXCEPT ![ti] = 0]
        /\ \/ UNCHANGED exp_error
           \/ MayFail /\ exp_error' = TRUE
  /\ UNCHANGED <<shared, control, pprof, ti, tseq, samples, lost>>

-----------------------------------------------------------------------------

WorkerStep ==
  \/ MaybeExport \/ FinalExport \/ Join \/ Swap \/ Reset \/ Dispatch
  \/ InlineDone \/ Update \/ Free \/ Exit

ExportStep == Start \/ Serialize \/ Send

Next == Sample \/ WorkerStep \/ Fail \/ Crash \/ Respawn \/ ExportStep

Spec == Init /\ [][Next]_vars

\* The worker thread, the export thread and the parent are scheduled.
FairSpec ==
  Spec /\ WF_vars(WorkerStep) /\ WF_vars(ExportStep) /\ WF_vars(Respawn)

-----------------------------------------------------------------------------
(* Properties *)

\* The export thread never reads the profile the worker writes to or resets:
\* no cycle swaps the profiles while an export runs, and only a worker that
\* failed frees the profiles under a running export.
ExportsTheOtherProfile ==
  /\ tpc \in {"serialize", "send"} => ti # i_current_pprof
  /\ tpc = "start" => pc \notin {"check", "reset", "dispatch"}
  /\ freed /\ tpc \in {"start", "serialize", "send"} => fatal

\* No sample is in two profiles that were sent, nor still to be sent again;
\* and unless the worker fails, every sample is in a profile or was sent: a
\* profile is only reset after an attempt to send it, or when its export thread
\* could not be created (the samples in lost).  In particular a worker that
\* ends gracefully has sent all it has seen.
SentExactlyOnce ==
  /\ \A k, l \in 1 .. Len(attempts) :
       k # l => attempts[k].data \cap attempts[l].data = {}
  /\ pc = "loop" => pprof[i_current_pprof] \cap Attempted = {}
  /\ ~fatal =>
       /\ 1 .. samples \subseteq Kept \cup Attempted \cup lost
       /\ pc \in {"free", "exit", "ended"}
            => 1 .. samples \subseteq Attempted \cup lost

\* "if exporter thread gets joined forcefully, we should not resume on same
\* value": the numbers of the profiles that are sent increase, over crashes,
\* cancelled exports and worker restarts.
SequenceIncreases ==
  \A k \in 1 .. Len(attempts) - 1 : attempts[k].seq < attempts[k + 1].seq

\* Every sample is eventually sent, or its worker failed.
EventuallySent ==
  \A s \in 1 .. MaxSamples :
    samples >= s ~> (s \in Attempted \/ s \in lost \/ fatal)

=============================================================================
