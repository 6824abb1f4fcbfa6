---------------------------- MODULE WorkerProofs ----------------------------
(***************************************************************************)
(* Proofs about what a worker works with: its ring buffers and its         *)
(* profiles.                                                               *)
(*                                                                         *)
(* PEvents, for any command line, any number of cpus, threads, events and  *)
(* addresses, and whatever call fails: a worker reads ring buffers that    *)
(* are mapped in its own address space, and the profiler gives back all    *)
(* files and mappings.                                                     *)
(*                                                                         *)
(* WorkerCycle, for any upload period, any number of errors allowed, any   *)
(* number of samples and exports, and whatever fails, times out, crashes   *)
(* or is respawned: the export thread and the worker never use the same    *)
(* profile, every sample is sent at most once and none is forgotten, and   *)
(* the sequence numbers of what is sent increase.                          *)
(***************************************************************************)
EXTENDS PEvents, WorkerCycle, TLAPS

(***************************************************************************)
(* The export cycle                                                        *)
(***************************************************************************)

TypeInv ==
  /\ profile_seq \in Nat /\ samples \in Nat
  /\ sync \in BOOLEAN /\ exp_tid \in BOOLEAN /\ fatal \in BOOLEAN /\ exp_error \in BOOLEAN
  /\ pc \in {"loop", "join", "check", "reset", "dispatch", "inline", "update",
             "free", "exit", "ended"}
  /\ tpc \in {"none", "start", "serialize", "send", "done"}
  /\ i_current_pprof \in Profiles /\ ti \in Profiles /\ tseq \in Nat
  /\ pprof \in [Profiles -> SUBSET Nat] /\ tdata \in SUBSET Nat
  /\ attempts \in Seq([seq : Nat, data : SUBSET Nat])

\* An export is under way.
Exporting == tpc \in {"start", "serialize", "send"}

\* The profile that the worker writes to, and the other one.
Current == pprof[i_current_pprof]

Full == pprof[1 - i_current_pprof]

\* Where the worker can be while an export is under way, and what the export reads.
ThreadInv ==
  /\ Exporting => exp_tid \/ pc \in {"inline", "exit"}
  /\ pc \in {"check", "reset", "dispatch", "inline"} => ~exp_tid
  /\ pc = "inline" => sync
  /\ pc = "update" /\ sync => ~exp_tid /\ tpc = "done" /\ ~exp_error
  /\ pc = "free" /\ ~fatal => ~exp_tid
  /\ pc = "exit" /\ ~fatal => ~Exporting
  /\ pc = "ended" => tpc = "none"
  /\ freed => pc \in {"exit", "ended"}
  /\ tpc \in {"serialize", "send"} => ti = 1 - i_current_pprof

\* The numbers given out are behind profile_seq, and the one of a running export
\* ahead of those that were sent.
SeqInv ==
  /\ \A n \in DOMAIN attempts : attempts[n].seq < profile_seq
  /\ \A m, n \in DOMAIN attempts : m < n => attempts[m].seq < attempts[n].seq
  /\ tpc \in {"serialize", "send"} =>
       tseq < profile_seq /\ \A n \in DOMAIN attempts : attempts[n].seq < tseq

\* What may still be sent was not sent before: the profile being filled, the one
\* about to be exported, and what the running export holds.
FreshInv ==
  /\ Kept \cup Attempted \subseteq 1 .. samples
  /\ Current \cap Full = {}
  /\ \A m, n \in DOMAIN attempts : m # n => attempts[m].data \cap attempts[n].data = {}
  /\ pc \in {"loop", "join", "check"} => Current \cap Attempted = {}
  /\ pc \in {"dispatch", "inline", "update"} => Current = {}
  /\ pc \in {"reset", "dispatch"} \/ Exporting => Full \cap Attempted = {}
  /\ tpc = "send" => tdata = Full
  /\ tpc # "send" /\ ~ (pc = "exit" /\ tpc = "done") => tdata = {}

\* No sample is forgotten: an export that has ended without an error has sent
\* its profile, or could not be started, before the profile is used again.
KeptInv ==
  /\ 1 .. samples \subseteq Kept \cup Attempted \cup lost
  /\ pc \in {"loop", "join", "check", "update"} /\ ~Exporting /\ ~exp_error =>
       Full \subseteq Attempted \cup lost
  /\ pc = "inline" /\ tpc = "done" /\ ~exp_error => Full \subseteq Attempted \cup lost
  /\ pc = "reset" => Current \subseteq Attempted \cup lost
  /\ (pc \in {"free", "exit"} /\ ~fatal) \/ pc = "ended" => 1 .. samples \subseteq Attempted \cup lost

IInv == TypeInv /\ ThreadInv /\ SeqInv /\ FreshInv /\ KeptInv

-----------------------------------------------------------------------------
(* Facts about the state *)

\* There are two profiles: the one written to, and the full one.
LEMMA TwoProfiles == Profiles = {0, 1} /\ Kept = pprof[0] \cup pprof[1] \cup tdata
<1>1. Profiles = {0, 1}
  BY DEF Profiles
<1>. QED  BY <1>1, Zenon DEF Kept

\* What has been sent depends on attempts alone, and grows by what is appended.
LEMMA AttemptedKept == UNCHANGED attempts => UNCHANGED Attempted
BY Zenon DEF Attempted

\* Each attempt has a number, and its samples are among those sent.
LEMMA AttemptTypes ==
  TypeInv => /\ Len(attempts) \in Nat /\ DOMAIN attempts = 1 .. Len(attempts)
             /\ \A n \in DOMAIN attempts : /\ n \in Nat /\ attempts[n].seq \in Nat
                                          /\ attempts[n].data \subseteq Attempted
<1>. SUFFICES ASSUME TypeInv
     PROVE  /\ Len(attempts) \in Nat /\ DOMAIN attempts = 1 .. Len(attempts)
            /\ \A n \in DOMAIN attempts : /\ n \in Nat /\ attempts[n].seq \in Nat
                                         /\ attempts[n].data \subseteq Attempted
  BY Zenon
<1>1. attempts \in Seq([seq : Nat, data : SUBSET Nat])
  BY Zenon DEF TypeInv
<1>2. Len(attempts) \in Nat /\ DOMAIN attempts = 1 .. Len(attempts)
  BY <1>1
<1>3. \A n \in DOMAIN attempts : n \in Nat /\ attempts[n].seq \in Nat
  <2>. DEFINE Attempts == [seq : Nat, data : SUBSET Nat]
  <2>1. attempts \in Seq(Attempts)
    BY <1>1, Zenon
  <2>2. \A r \in Attempts : r.seq \in Nat
    BY Zenon
  <2>. HIDE DEF Attempts
  <2>3. \A n \in 1 .. Len(attempts) : attempts[n] \in Attempts
    BY <2>1
  <2>. QED  BY <1>2, <2>2, <2>3
<1>4. \A n \in DOMAIN attempts : attempts[n].data \subseteq Attempted
  BY <1>2, Zenon DEF Attempted
<1>. QED  BY <1>2, <1>3, <1>4, Zenon

\* An attempt of the exporter adds its samples to those sent, after all earlier ones.
LEMMA AttemptedGrows ==
  ASSUME NEW r \in [seq : Nat, data : SUBSET Nat], TypeInv, attempts' = Append(attempts, r)
  PROVE  /\ Attempted' = Attempted \cup r.data
         /\ DOMAIN attempts' = DOMAIN attempts \cup {Len(attempts) + 1}
         /\ Len(attempts) + 1 \notin DOMAIN attempts
         /\ attempts'[Len(attempts) + 1] = r
         /\ \A n \in DOMAIN attempts : attempts'[n] = attempts[n] /\ n < Len(attempts) + 1
<1>1. attempts \in Seq([seq : Nat, data : SUBSET Nat])
  BY Zenon DEF TypeInv
<1>2. /\ Len(attempts) \in Nat /\ DOMAIN attempts = 1 .. Len(attempts)
      /\ Len(attempts') = Len(attempts) + 1
      /\ attempts'[Len(attempts) + 1] = r
      /\ \A n \in 1 .. Len(attempts) : attempts'[n] = attempts[n]
      /\ DOMAIN attempts' = 1 .. Len(attempts) + 1
  BY <1>1
<1>3. 1 .. Len(attempts) + 1 = (1 .. Len(attempts)) \cup {Len(attempts) + 1}
  BY <1>2
<1>4. Attempted' = Attempted \cup r.data
  BY <1>2, <1>3 DEF Attempted
<1>. QED  BY <1>2, <1>3, <1>4

\* A worker starts with empty profiles, no export thread and nothing sent.
LEMMA InitInv == Init => IInv
<1>. SUFFICES ASSUME Init PROVE IInv
  BY Zenon
<1>. attempts \in Seq([seq : Nat, data : SUBSET Nat]) /\ 0 \in Profiles
  BY DEF Init, Profiles
<1>1. TypeInv
  BY Zenon DEF Init, TypeInv
<1>2. Attempted = {} /\ Kept = {} /\ DOMAIN attempts = {}
  BY DEF Init, Attempted, Kept, Profiles
<1>3. ThreadInv /\ SeqInv
  BY <1>2, Zenon DEF Init, ThreadInv, SeqInv, Exporting
<1>4. FreshInv
  BY <1>2, Zenon DEF Init, FreshInv, Full, Current, Exporting, Profiles
<1>5. KeptInv
  BY <1>2 DEF Init, KeptInv, Full, Current, Profiles
<1>. QED  BY <1>1, <1>3, <1>4, <1>5, Zenon DEF IInv

-----------------------------------------------------------------------------
(* Types *)

\* Every step of the worker, the export thread and the respawn keeps the types.
LEMMA TypeStep == TypeInv /\ [Next]_vars => TypeInv'
<1>. SUFFICES ASSUME TypeInv, [Next]_vars PROVE TypeInv'
  BY Zenon
<1>. USE CycleAssumption, TwoProfiles DEF TypeInv, shared, control, profiles, thread, history
<1>1. CASE Sample
  BY <1>1 DEF Sample
<1>2. CASE MaybeExport
  BY <1>2 DEF MaybeExport
<1>3. CASE FinalExport
  BY <1>3, Zenon DEF FinalExport
<1>4. CASE Join
  BY <1>4, Zenon DEF Join
<1>5. CASE Swap
  <2>1. 1 - i_current_pprof \in Profiles
    OBVIOUS
  <2>. QED  BY <1>5, <2>1, Zenon DEF Swap
<1>6. CASE Reset
  BY <1>6, Zenon DEF Reset
<1>7. CASE Dispatch
  BY <1>7, Zenon DEF Dispatch
<1>8. CASE InlineDone
  BY <1>8, Zenon DEF InlineDone
<1>9. CASE Update
  BY <1>9, Zenon DEF Update
<1>10. CASE Free
  BY <1>10, Zenon DEF Free
<1>11. CASE Exit
  BY <1>11, Zenon DEF Exit
<1>12. CASE Fail
  BY <1>12, Zenon DEF Fail
<1>13. CASE Crash
  BY <1>13, Zenon DEF Crash
<1>14. CASE Respawn
  BY <1>14, Zenon DEF Respawn, InitWorker
<1>15. CASE Start
  BY <1>15 DEF Start
<1>16. CASE Serialize
  BY <1>16, Zenon DEF Serialize
<1>17. CASE Send
  <2>1. [seq |-> tseq, data |-> tdata] \in [seq : Nat, data : SUBSET Nat]
    BY Zenon
  <2>2. attempts' \in Seq([seq : Nat, data : SUBSET Nat])
    BY <1>17, <2>1 DEF Send
  <2>3. exp_error' \in BOOLEAN
    BY <1>17, Zenon DEF Send
  <2>. QED  BY <1>17, <2>2, <2>3, Zenon DEF Send
<1>18. CASE UNCHANGED vars
  BY <1>18, Zenon DEF vars
<1>. QED
  BY <1>1, <1>2, <1>3, <1>4, <1>5, <1>6, <1>7, <1>8, <1>9, <1>10, <1>11, <1>12, <1>13,
     <1>14, <1>15, <1>16, <1>17, <1>18, Zenon
  DEF Next, WorkerStep, ExportStep

-----------------------------------------------------------------------------
(* The worker and its export thread *)

\* Every step keeps the export thread on the profile that the worker does not write to:
\* it is joined before ddprof_worker_cycle swaps and resets.
LEMMA ThreadStep == TypeInv /\ ThreadInv /\ [Next]_vars => ThreadInv'
<1>. SUFFICES ASSUME TypeInv, ThreadInv, [Next]_vars PROVE ThreadInv'
  BY Zenon
<1>. USE DEF TypeInv, ThreadInv, Exporting, shared, control, profiles, thread, history
<1>1. CASE Sample
  BY <1>1, Zenon DEF Sample
<1>2. CASE MaybeExport
  BY <1>2, Zenon DEF MaybeExport
<1>3. CASE FinalExport
  BY <1>3, Zenon DEF FinalExport
<1>4. CASE Join
  BY <1>4, Zenon DEF Join
<1>5. CASE Swap
  BY <1>5, Zenon DEF Swap
<1>6. CASE Reset
  BY <1>6, Zenon DEF Reset
<1>7. CASE Dispatch
  BY <1>7, Zenon DEF Dispatch
<1>8. CASE InlineDone
  BY <1>8, Zenon DEF InlineDone
<1>9. CASE Update
  BY <1>9, Zenon DEF Update
<1>10. CASE Free
  BY <1>10, Zenon DEF Free
<1>11. CASE Exit
  BY <1>11, Zenon DEF Exit
<1>12. CASE Fail
  BY <1>12, Zenon DEF Fail
<1>13. CASE Crash
  BY <1>13, Zenon DEF Crash
<1>14. CASE Respawn
  BY <1>14, Zenon DEF Respawn, InitWorker
<1>15. CASE Start
  BY <1>15, Zenon DEF Start
<1>16. CASE Serialize
  BY <1>16, Zenon DEF Serialize
<1>17. CASE Send
  BY <1>17, Zenon DEF Send
<1>18. CASE UNCHANGED vars
  BY <1>18, Zenon DEF vars
<1>. QED
  BY <1>1, <1>2, <1>3, <1>4, <1>5, <1>6, <1>7, <1>8, <1>9, <1>10, <1>11, <1>12, <1>13,
     <1>14, <1>15, <1>16, <1>17, <1>18, Zenon
  DEF Next, WorkerStep, ExportStep

-----------------------------------------------------------------------------
(* The sequence numbers *)

\* Every step keeps profile_seq ahead of the numbers used, a respawned worker included.
LEMMA SeqStep == TypeInv /\ ThreadInv /\ SeqInv /\ [Next]_vars => SeqInv'
<1>. SUFFICES ASSUME TypeInv, ThreadInv, SeqInv, [Next]_vars PROVE SeqInv'
  BY Zenon
<1>1. CASE Start
  <2>1. profile_seq \in Nat /\ \A n \in DOMAIN attempts : attempts[n].seq \in Nat
    BY AttemptTypes, Zenon DEF TypeInv
  <2>2. /\ profile_seq' = profile_seq + 1 /\ tseq' = profile_seq
        /\ UNCHANGED attempts
    BY <1>1, Zenon DEF Start, history
  <2>. QED  BY <2>1, <2>2 DEF SeqInv
<1>2. CASE Send
  <2>. DEFINE r == [seq |-> tseq, data |-> tdata]
              k == Len(attempts) + 1
  <2>1. r \in [seq : Nat, data : SUBSET Nat] /\ attempts' = Append(attempts, r) /\ r.seq = tseq
    BY <1>2, Zenon DEF Send, TypeInv
  <2>2. /\ DOMAIN attempts' = DOMAIN attempts \cup {k}
        /\ attempts'[k] = r
        /\ \A n \in DOMAIN attempts : attempts'[n] = attempts[n] /\ n < k
    BY <2>1, AttemptedGrows, Zenon
  <2>3. tseq < profile_seq /\ \A n \in DOMAIN attempts : attempts[n].seq < tseq
    BY <1>2, Zenon DEF Send, SeqInv
  <2>4. k \in Nat /\ \A n \in DOMAIN attempts : n \in Nat
    BY AttemptTypes
  <2>5. UNCHANGED profile_seq /\ tpc' = "done"
    BY <1>2, Zenon DEF Send, shared
  <2>. HIDE DEF r, k
  <2>6. \A m, n \in DOMAIN attempts' : m < n => attempts'[m].seq < attempts'[n].seq
    BY <2>1, <2>2, <2>3, <2>4 DEF SeqInv
  <2>7. \A n \in DOMAIN attempts' : attempts'[n].seq < profile_seq
    BY <2>1, <2>2, <2>3, Zenon DEF SeqInv
  <2>. QED  BY <2>5, <2>6, <2>7, Zenon DEF SeqInv
<1>3. CASE ~ Start /\ ~ Send
  <2>1. /\ UNCHANGED <<attempts, profile_seq>>
        /\ tpc' \in {"serialize", "send"} => tpc \in {"serialize", "send"} /\ UNCHANGED tseq
    BY <1>3, Zenon
       DEF Next, WorkerStep, ExportStep, vars, shared, control, profiles, thread, history,
         Sample, MaybeExport, FinalExport, Join, Swap, Reset, Dispatch, InlineDone, Update, Free,
         Exit, Fail, Crash, Respawn, InitWorker, Serialize
  <2>. QED  BY <2>1, Zenon DEF SeqInv
<1>. QED  BY <1>1, <1>2, <1>3, Zenon

-----------------------------------------------------------------------------
(* The samples *)

\* The samples still to be exported are those of the two profiles and of the export.
LEMMA KeptIs == TypeInv => Kept = Current \cup Full \cup tdata
<1>. SUFFICES ASSUME TypeInv PROVE Kept = Current \cup Full \cup tdata
  BY Zenon
<1>1. CASE i_current_pprof = 0
  BY <1>1, TwoProfiles DEF Current, Full
<1>2. CASE i_current_pprof = 1
  BY <1>2, TwoProfiles DEF Current, Full
<1>. QED  BY <1>1, <1>2, TwoProfiles, Zenon DEF TypeInv

\* The steps that leave the profiles and what was sent alone.
ControlStep ==
  \/ MaybeExport \/ FinalExport \/ Join \/ Dispatch \/ InlineDone \/ Update \/ Free
  \/ Fail \/ Start \/ UNCHANGED vars

\* What the steps do to the two profiles, whichever of them is the current one.
LEMMA ProfileSteps ==
  ASSUME TypeInv, ThreadInv
  PROVE  /\ ControlStep => UNCHANGED <<Current, Full, tdata, attempts, samples>>
         /\ Sample => Current' = Current \cup {samples + 1} /\ UNCHANGED Full
         /\ Swap => IF exp_error THEN UNCHANGED <<Current, Full>>
                                 ELSE Current' = Full /\ Full' = Current
         /\ Reset => Current' = {} /\ UNCHANGED Full
         /\ Exit \/ Crash \/ Respawn => Current' = {} /\ Full' = {} /\ tdata' = {}
         /\ Serialize => /\ UNCHANGED <<Current, Full>>
                         /\ \/ tpc' = "send" /\ tdata' = Full
                            \/ tpc' = "done" /\ UNCHANGED tdata
         /\ Send => UNCHANGED <<Current, Full>>
<1>. i_current_pprof \in {0, 1} /\ pprof \in [{0, 1} -> SUBSET Nat] /\ 1 - i_current_pprof \in {0, 1}
     /\ 1 - i_current_pprof # i_current_pprof /\ 1 - (1 - i_current_pprof) = i_current_pprof
  BY TwoProfiles DEF TypeInv
<1>. USE DEF Current, Full, shared, control, profiles, thread, history
<1>1. ControlStep => UNCHANGED <<Current, Full, tdata, attempts, samples>>
  BY Zenon
     DEF ControlStep, MaybeExport, FinalExport, Join, Dispatch, InlineDone, Update, Free, Fail,
         Start, vars
<1>2. Sample => Current' = Current \cup {samples + 1} /\ UNCHANGED Full
  BY DEF Sample
<1>3. Swap => IF exp_error THEN UNCHANGED <<Current, Full>>
                           ELSE Current' = Full /\ Full' = Current
  BY Zenon DEF Swap
<1>4. Reset => Current' = {} /\ UNCHANGED Full
  BY DEF Reset
<1>5. Exit \/ Crash => Current' = {} /\ Full' = {} /\ tdata' = {}
  BY TwoProfiles, Zenon DEF Exit, Crash
<1>6. Respawn => Current' = {} /\ Full' = {} /\ tdata' = {}
  BY TwoProfiles, Zenon DEF Respawn, InitWorker
<1>7. Serialize => /\ UNCHANGED <<Current, Full>>
                   /\ \/ tpc' = "send" /\ tdata' = Full
                      \/ tpc' = "done" /\ UNCHANGED tdata
  BY Zenon DEF Serialize, ThreadInv
<1>8. Send => UNCHANGED <<Current, Full>>
  BY Zenon DEF Send
<1>. HIDE DEF Current, Full
<1>. QED  BY <1>1, <1>2, <1>3, <1>4, <1>5, <1>6, <1>7, <1>8, Zenon

\* Every step keeps what may still be sent apart from what was sent.
LEMMA FreshStep == TypeInv /\ ThreadInv /\ FreshInv /\ [Next]_vars => FreshInv'
<1>. SUFFICES ASSUME TypeInv, ThreadInv, FreshInv, [Next]_vars PROVE FreshInv'
  OBVIOUS
<1>. DEFINE Apart == \A m, n \in DOMAIN attempts : m # n => attempts[m].data \cap attempts[n].data = {}
            Rest ==
              /\ Current \cup Full \cup tdata \cup Attempted \subseteq 1 .. samples
              /\ Current \cap Full = {}
              /\ pc \in {"loop", "join", "check"} => Current \cap Attempted = {}
              /\ pc \in {"dispatch", "inline", "update"} => Current = {}
              /\ pc \in {"reset", "dispatch"} \/ Exporting => Full \cap Attempted = {}
              /\ tpc = "send" => tdata = Full
              /\ tpc # "send" /\ ~ (pc = "exit" /\ tpc = "done") => tdata = {}
<1>1. TypeInv' /\ ThreadInv'
  BY TypeStep, ThreadStep, Zenon
<1>2. Kept = Current \cup Full \cup tdata /\ Kept' = Current' \cup Full' \cup tdata'
  <2>1. (TypeInv => Kept = Current \cup Full \cup tdata)'
    BY KeptIs, PTL
  <2>. QED  BY <1>1, <2>1, KeptIs, Zenon
<1>3. Apart /\ Rest
  BY <1>2, Zenon DEF FreshInv
<1>4. Send => /\ Attempted' = Attempted \cup tdata /\ Apart' /\ tdata' = {} /\ tpc = "send" /\ tpc' = "done"
              /\ UNCHANGED <<pc, samples, Current, Full>>
  <2>. SUFFICES ASSUME Send
       PROVE  /\ Attempted' = Attempted \cup tdata /\ Apart' /\ tdata' = {} /\ tpc = "send" /\ tpc' = "done"
              /\ UNCHANGED <<pc, samples, Current, Full>>
    BY Zenon
  <2>. DEFINE r == [seq |-> tseq, data |-> tdata]
              k == Len(attempts) + 1
  <2>1. r \in [seq : Nat, data : SUBSET Nat] /\ attempts' = Append(attempts, r) /\ r.data = tdata
    BY Zenon DEF Send, TypeInv
  <2>2. /\ DOMAIN attempts' = DOMAIN attempts \cup {k}
        /\ attempts'[k] = r
        /\ \A n \in DOMAIN attempts : attempts'[n] = attempts[n]
        /\ Attempted' = Attempted \cup r.data
    BY <2>1, AttemptedGrows, Zenon
  <2>3. tdata \cap Attempted = {}
    BY <1>3, Zenon DEF Send, Exporting
  <2>4. \A n \in DOMAIN attempts : attempts[n].data \cap tdata = {}
    BY <2>3, AttemptTypes, Zenon
  <2>. HIDE DEF r, k
  <2>5. Apart'
    BY <1>3, <2>1, <2>2, <2>4, Zenon
  <2>6. tdata' = {} /\ tpc = "send" /\ tpc' = "done" /\ UNCHANGED <<pc, samples, Current, Full>>
    BY ProfileSteps, Zenon DEF Send, control
  <2>. QED  BY <2>1, <2>2, <2>5, <2>6, Zenon
<1>5. Send \/ (UNCHANGED <<attempts, Attempted>> /\ Apart')
  <2>1. Send \/ UNCHANGED attempts
    BY Zenon
       DEF Next, WorkerStep, ExportStep, vars, history, Sample, MaybeExport, FinalExport, Join,
         Swap, Reset, Dispatch, InlineDone, Update, Free, Exit, Fail, Crash, Respawn, Start, Serialize
  <2>. QED  BY <1>3, <2>1, AttemptedKept, Zenon
<1>. HIDE DEF Apart
<1>6. Rest'
  <2>9. CASE Send
    BY <2>9, <1>3, <1>4, Zenon DEF Exporting, ThreadInv
  <2>. SUFFICES ASSUME UNCHANGED Attempted PROVE Rest'
    BY <1>5, <2>9, Zenon
  <2>. USE <1>3, ProfileSteps DEF Exporting, ThreadInv
  <2>1. CASE Sample
    BY <2>1 DEF Sample, control, thread, TypeInv
  <2>2. CASE MaybeExport \/ FinalExport \/ Join \/ Start \/ UNCHANGED vars
    BY <2>2, Zenon DEF ControlStep, MaybeExport, FinalExport, Join, Start, thread, control,
         history, vars
  <2>3. CASE Dispatch \/ InlineDone \/ Update
    BY <2>3, Zenon DEF ControlStep, Dispatch, InlineDone, Update, thread, history
  <2>4. CASE Fail
    BY <2>4, Zenon DEF ControlStep, Fail, thread, history
  <2>10. CASE Free
    BY <2>10, Zenon DEF ControlStep, Free, thread, history
  <2>5. CASE Swap
    BY <2>5, Zenon DEF Swap, thread, history
  <2>6. CASE Reset
    BY <2>6, Zenon DEF Reset, thread, history
  <2>7. CASE Exit \/ Crash \/ Respawn
    BY <2>7, Zenon DEF Exit, Crash, Respawn, InitWorker
  <2>8. CASE Serialize
    BY <2>8, Zenon DEF Serialize, control, history
  <2>. QED
    BY <2>1, <2>2, <2>3, <2>4, <2>5, <2>6, <2>7, <2>8, <2>9, <2>10, Zenon
    DEF Next, WorkerStep, ExportStep
<1>. QED  BY <1>2, <1>4, <1>5, <1>6, Zenon DEF FreshInv, Apart

\* Every way out of an export sends its profile or is an error; a profile is
\* reset only afterwards, and what a dying process holds is counted as lost.
LEMMA KeptStep == IInv /\ [Next]_vars => KeptInv'
<1>. SUFFICES ASSUME IInv, [Next]_vars PROVE KeptInv'
  BY Zenon
<1>1. TypeInv /\ ThreadInv /\ FreshInv /\ KeptInv /\ TypeInv'
  BY TypeStep, Zenon DEF IInv
<1>2. Kept = Current \cup Full \cup tdata /\ Kept' = Current' \cup Full' \cup tdata'
  <2>1. (TypeInv => Kept = Current \cup Full \cup tdata)'
    BY KeptIs, PTL
  <2>. QED  BY <1>1, <2>1, KeptIs, Zenon
<1>3. Send => Attempted' = Attempted \cup tdata
  <2>1. [seq |-> tseq, data |-> tdata] \in [seq : Nat, data : SUBSET Nat]
    BY <1>1, Zenon DEF TypeInv
  <2>2. [seq |-> tseq, data |-> tdata].data = tdata
    BY Zenon
  <2>. QED  BY <1>1, <2>1, <2>2, AttemptedGrows, Zenon DEF Send
<1>4. Send \/ UNCHANGED Attempted
  <2>1. Send \/ UNCHANGED attempts
    BY Zenon
       DEF Next, WorkerStep, ExportStep, vars, history, Sample, MaybeExport, FinalExport, Join,
         Swap, Reset, Dispatch, InlineDone, Update, Free, Exit, Fail, Crash, Respawn, Start, Serialize
  <2>. QED  BY <2>1, AttemptedKept, Zenon
<1>5. CASE Send
  <2>1. UNCHANGED <<Current, Full>>
    BY <1>1, <1>5, ProfileSteps, Zenon
  <2>2. /\ tpc = "send" /\ tpc' = "done" /\ tdata' = {}
        /\ UNCHANGED <<pc, samples, lost, fatal>>
    BY <1>5, Zenon DEF Send, control
  <2>3. tdata = Full
    BY <1>1, <2>2, Zenon DEF FreshInv
  <2>. QED  BY <1>1, <1>2, <1>3, <1>5, <2>1, <2>2, <2>3, Zenon DEF KeptInv, Exporting, ThreadInv
<1>6. ASSUME UNCHANGED Attempted PROVE KeptInv'
  <2>. USE <1>1, <1>2, <1>6, ProfileSteps DEF KeptInv, Exporting
  <2>1. CASE Sample
    <3>1. samples \in Nat /\ samples' = samples + 1 /\ 1 .. samples' = (1 .. samples) \cup {samples + 1}
      BY <2>1 DEF Sample, TypeInv
    <3>2. UNCHANGED <<pc, tpc, tdata, lost, fatal, exp_error>> /\ pc = "loop"
      BY <2>1, Zenon DEF Sample, control, thread
    <3>. QED  BY <2>1, <3>1, <3>2, Zenon
  <2>2. CASE MaybeExport \/ FinalExport \/ Join \/ Start \/ UNCHANGED vars
    BY <2>2, Zenon DEF ControlStep, MaybeExport, FinalExport, Join, Start, thread, control,
         history, profiles, vars, ThreadInv
  <2>3. CASE Dispatch
    BY <2>3, Zenon DEF ControlStep, Dispatch, thread, history, profiles, FreshInv, ThreadInv, Full
  <2>4. CASE InlineDone
    BY <2>4, Zenon DEF ControlStep, InlineDone, thread, history, profiles, FreshInv, ThreadInv
  <2>5. CASE Update
    BY <2>5, Zenon DEF ControlStep, Update, thread, history, profiles, FreshInv, ThreadInv
  <2>6. CASE Fail
    BY <2>6, Zenon DEF ControlStep, Fail, thread, history
  <2>7. CASE Free
    BY <2>7, Zenon DEF ControlStep, Free, thread, history, ThreadInv
  <2>8. CASE Swap
    BY <2>8, Zenon DEF Swap, thread, history, ThreadInv, FreshInv
  <2>9. CASE Reset
    BY <2>9, Zenon DEF Reset, thread, history, ThreadInv
  <2>10. CASE Exit \/ Crash
    BY <2>10, Zenon DEF Exit, Crash
  <2>11. CASE Respawn
    BY <2>11, Zenon DEF Respawn, InitWorker
  <2>12. CASE Serialize
    <3>1. /\ tpc = "serialize" /\ UNCHANGED <<pc, fatal, samples, lost>>
          /\ tpc' = "send" \/ (tpc' = "done" /\ exp_error' = TRUE)
      BY <2>12, Zenon DEF Serialize, control, history
    <3>2. UNCHANGED <<Current, Full>>
      BY <2>12, Zenon
    <3>3. tdata = {} /\ pc \notin {"reset", "ended"}
      BY <3>1, Zenon DEF ThreadInv, FreshInv
    <3>. QED  BY <3>1, <3>2, <3>3, Zenon
  <2>13. CASE Send
    BY <1>5, <2>13, Zenon
  <2>. QED
    BY <2>1, <2>2, <2>3, <2>4, <2>5, <2>6, <2>7, <2>8, <2>9, <2>10, <2>11, <2>12, <2>13, Zenon
    DEF Next, WorkerStep, ExportStep
<1>. QED  BY <1>4, <1>5, <1>6, Zenon

\* The invariant holds in every state of the worker and its export thread.
LEMMA InvHolds == Spec => []IInv
<1>1. IInv /\ [Next]_vars => IInv'
  BY TypeStep, ThreadStep, SeqStep, FreshStep, KeptStep, Zenon DEF IInv
<1>. QED  BY InitInv, <1>1, PTL DEF Spec

-----------------------------------------------------------------------------
(* The results *)

\* The export thread never uses the profile that the worker writes to, swaps or
\* resets, and a worker that did not fail frees nothing under a running export
\* (ddprof_worker_cycle joins the previous export before it swaps).
THEOREM ProfilesNeverShared == Spec => []ExportsTheOtherProfile
<1>1. IInv => ExportsTheOtherProfile
  BY TwoProfiles DEF IInv, TypeInv, ThreadInv, Exporting, ExportsTheOtherProfile
<1>. QED  BY <1>1, InvHolds, PTL

\* No sample is sent twice, and none is dropped without a failure: whatever
\* pprof_reset clears was sent before, and a worker that ends gracefully has sent
\* every sample (ddprof_worker_cycle, ddprof_worker_export_thread).
THEOREM SamplesSentOnce == Spec => []SentExactlyOnce
<1>1. IInv => SentExactlyOnce
  <2>. SUFFICES ASSUME IInv PROVE SentExactlyOnce
    BY Zenon
  <2>1. DOMAIN attempts = 1 .. Len(attempts)
    BY AttemptTypes, Zenon DEF IInv
  <2>2. \A k, l \in 1 .. Len(attempts) : k # l => attempts[k].data \cap attempts[l].data = {}
    BY <2>1, Zenon DEF IInv, FreshInv
  <2>. QED  BY <2>2, Zenon DEF IInv, FreshInv, KeptInv, SentExactlyOnce, Current
<1>. QED  BY <1>1, InvHolds, PTL

\* The sequence numbers of the profiles that are sent increase, over failed
\* exports, crashes and restarts of the worker: profile_seq lives in the memory
\* the workers share and is taken before the profile is serialized.
THEOREM SequenceNumbersIncrease == Spec => []SequenceIncreases
<1>1. IInv => SequenceIncreases
  <2>. SUFFICES ASSUME IInv, NEW k \in 1 .. Len(attempts) - 1
       PROVE  attempts[k].seq < attempts[k + 1].seq
    BY Zenon DEF SequenceIncreases
  <2>1. k \in DOMAIN attempts /\ k + 1 \in DOMAIN attempts /\ k < k + 1
    BY AttemptTypes DEF IInv
  <2>. QED  BY <2>1, Zenon DEF IInv, SeqInv
<1>. QED  BY <1>1, InvHolds, PTL

(***************************************************************************)
(* The perf events and their ring buffers                                  *)
(***************************************************************************)

-----------------------------------------------------------------------------
(* The inductive invariant of the perf events *)

EventRecord ==
  [watcher : Nat, custom : BOOLEAN, exclude_kernel : BOOLEAN, sub_fds : SUBSET Tids,
   base : Addresses \cup {NoBase}]

Stages == {"parse", "open", "mmap", "enable", "running", "torn_down", "worker_mmap", "loop",
           "worker_exit", "exit", "segv"}

SetupTypes ==
  /\ stage \in Stages
  /\ at \in Nat \X Nat
  /\ pes \in Seq(EventRecord)
  /\ space \in [Addresses -> {Unused, Other} \cup {Event(i) : i \in Nat}]

\* The open files are those of the events, which pevent_close_event closes.
FilesInv == \A f \in open : f[1] \in DOMAIN pes /\ f \in pevent_close_event(f[1])

\* In the profiler, what is mapped is the ring buffer of an event, and events have
\* no address before they are mapped.
Profiler == {"parse", "open", "mmap", "enable", "running", "torn_down"}

Known(a) == \E i \in DOMAIN pes : pes[i].base = a

SpaceInv ==
  /\ stage \in Profiler => \A a \in Addresses : space[a] # Unused => Known(a)
  /\ stage \in {"parse", "open"} => \A i \in DOMAIN pes : pes[i].base = NoBase
  /\ stage = "mmap" => \A i \in DOMAIN pes : i >= at[1] => pes[i].base = NoBase

\* An event has its ring buffer at its address.
MappedTo(i) == pes[i].base \in Addresses /\ space[pes[i].base] = Event(i)

\* Those that pevent_mmap has been at are mapped, whatever the others inherited.
MapInv ==
  /\ Mapping => \A i \in DOMAIN pes : i < at[1] => MappedTo(i)
  /\ stage \in {"enable", "running", "loop"} => \A i \in DOMAIN pes : MappedTo(i)

Counts(f) == f \in enabled \/ pes[f[1]].custom

EnableInv ==
  /\ stage = "enable" => \A f \in open : f[1] < at[1] => Counts(f)
  /\ stage \in {"running", "worker_mmap", "loop"} => \A f \in open : Counts(f)

SetupInv == SetupTypes /\ FilesInv /\ SpaceInv /\ MapInv /\ EnableInv

-----------------------------------------------------------------------------
(* Events and addresses *)

\* The events are numbered from 1.
LEMMA PesType ==
  ASSUME SetupTypes
  PROVE  /\ Len(pes) \in Nat /\ DOMAIN pes = 1 .. Len(pes)
         /\ \A i \in DOMAIN pes : i \in Nat /\ pes[i] \in EventRecord
         /\ at[1] \in Nat /\ at[2] \in Nat /\ at = <<at[1], at[2]>>
<1>1. pes \in Seq(EventRecord) /\ at \in Nat \X Nat
  BY Zenon DEF SetupTypes
<1>. HIDE DEF EventRecord
<1>. QED  BY <1>1

\* An event that is created comes last, and has no address.
LEMMA Created ==
  ASSUME SetupTypes, NEW e \in EventRecord, pes' = Append(pes, e)
  PROVE  /\ pes' \in Seq(EventRecord) /\ Len(pes') = Len(pes) + 1
         /\ DOMAIN pes' = DOMAIN pes \cup {Len(pes')} /\ Len(pes') \notin DOMAIN pes
         /\ \A i \in DOMAIN pes : pes'[i] = pes[i]
         /\ pes'[Len(pes')] = e
<1>1. pes \in Seq(EventRecord)
  BY Zenon DEF SetupTypes
<1>. HIDE DEF EventRecord
<1>2. /\ Append(pes, e) \in Seq(EventRecord) /\ Len(Append(pes, e)) = Len(pes) + 1 /\ Len(pes) \in Nat
      /\ DOMAIN pes = 1 .. Len(pes) /\ DOMAIN Append(pes, e) = 1 .. Len(pes) + 1
      /\ \A i \in 1 .. Len(pes) : Append(pes, e)[i] = pes[i]
      /\ Append(pes, e)[Len(pes) + 1] = e
  BY <1>1
<1>3. 1 .. Len(pes) + 1 = (1 .. Len(pes)) \cup {Len(pes) + 1} /\ Len(pes) + 1 \notin 1 .. Len(pes)
  BY <1>2
<1>. QED  BY <1>2, <1>3, Zenon

\* An event is opened: its files are the last event's, and nothing is mapped.
LEMMA OpenKeeps ==
  ASSUME SetupInv, NEW e \in EventRecord, stage = "open", pes' = Append(pes, e), e.base = NoBase,
         NEW fs, open' = open \cup {<<Len(pes'), f>> : f \in fs},
         \A f \in fs : f = "main" \/ f \in e.sub_fds \/ (f = "map" /\ e.custom),
         stage' \in {"open", "mmap", "segv"}, stage' = "mmap" => at' = <<1, 0>>,
         at' \in Nat \X Nat, UNCHANGED <<space, enabled>>
  PROVE  SetupInv'
<1>. USE DEF SetupInv
<1>1. /\ pes' \in Seq(EventRecord) /\ DOMAIN pes' = DOMAIN pes \cup {Len(pes')} /\ Len(pes') \notin DOMAIN pes
      /\ (\A i \in DOMAIN pes : pes'[i] = pes[i]) /\ pes'[Len(pes')] = e
  BY Created, Zenon
<1>2. SetupTypes'
  <2>1. stage' \in Stages
    BY Zenon DEF Stages
  <2>. QED  BY <1>1, <2>1, Zenon DEF SetupTypes
<1>3. FilesInv'
  <2>1. SUFFICES ASSUME NEW f \in open' PROVE f[1] \in DOMAIN pes' /\ f \in pevent_close_event(f[1])'
    BY Zenon DEF FilesInv
  <2>2. CASE f \in open
    <3>1. f[1] \in DOMAIN pes /\ f \in pevent_close_event(f[1]) /\ pes'[f[1]] = pes[f[1]]
      BY <1>1, <2>2, Zenon DEF FilesInv
    <3>. QED  BY <1>1, <3>1, Zenon DEF pevent_close_event
  <2>3. CASE f \notin open
    <3>1. PICK g \in fs : f = <<Len(pes'), g>>
      BY <2>1, <2>3, Zenon
    <3>2. f[1] = Len(pes')
      BY <3>1
    <3>3. g \in {"main"} \cup e.sub_fds \cup {m \in {"map"} : e.custom}
      BY <3>1, Zenon
    <3>4. PICK n \in DOMAIN pes' : n = f[1] /\ pes'[n] = e /\ f = <<n, g>>
      BY <1>1, <3>1, <3>2, Zenon
    <3>5. <<n, g>> \in {<<n, h>> : h \in {"main"} \cup pes'[n].sub_fds \cup {m \in {"map"} : pes'[n].custom}}
      BY <3>3, <3>4, Zenon
    <3>. QED  BY <3>4, <3>5, Zenon DEF pevent_close_event
  <2>. QED  BY <2>2, <2>3, Zenon
<1>4. SpaceInv'
  <2>1. \A a \in Addresses : space[a] # Unused => Known(a)'
    <3>1. SUFFICES ASSUME NEW a \in Addresses, space[a] # Unused PROVE Known(a)'
      BY Zenon
    <3>2. PICK i \in DOMAIN pes : pes[i].base = a
      BY <3>1, Zenon DEF SpaceInv, Known, Profiler
    <3>3. i \in DOMAIN pes' /\ pes'[i].base = a
      BY <1>1, <3>2, Zenon
    <3>. QED  BY <3>3, Zenon DEF Known
  <2>2. \A i \in DOMAIN pes' : pes'[i].base = NoBase
    BY <1>1, Zenon DEF SpaceInv
  <2>3. stage' \notin {"torn_down"}
    BY Zenon
  <2>. QED  BY <2>1, <2>2, Zenon DEF SpaceInv
<1>5. MapInv'
  <2>1. stage' \notin {"worker_mmap", "enable", "running", "loop"}
    BY Zenon
  <2>2. ASSUME stage' = "mmap", NEW i \in DOMAIN pes', i < at'[1] PROVE FALSE
    <3>1. at'[1] = 1
      BY <2>2
    <3>2. i \in Nat /\ i >= 1
      <4>1. pes' \in Seq(EventRecord)
        BY <1>1, Zenon
      <4>. HIDE DEF EventRecord
      <4>2. DOMAIN pes' = 1 .. Len(pes') /\ Len(pes') \in Nat
        BY <4>1
      <4>. QED  BY <2>2, <4>2
    <3>. QED  BY <2>2, <3>1, <3>2
  <2>. QED  BY <2>1, <2>2, Zenon DEF MapInv, Mapping
<1>6. EnableInv'
  BY Zenon DEF EnableInv
<1>. QED  BY <1>2, <1>3, <1>4, <1>5, <1>6, Zenon

\* Mapping and unmapping leave the files alone.
LEMMA FilesKeep ==
  ASSUME SetupInv, DOMAIN pes' = DOMAIN pes, open' = open,
         \A i \in DOMAIN pes : pes'[i].sub_fds = pes[i].sub_fds /\ pes'[i].custom = pes[i].custom
  PROVE  FilesInv'
<1>1. SUFFICES ASSUME NEW f \in open PROVE f[1] \in DOMAIN pes' /\ f \in pevent_close_event(f[1])'
  BY Zenon DEF FilesInv
<1>2. f[1] \in DOMAIN pes /\ f \in pevent_close_event(f[1])
  BY Zenon DEF SetupInv, FilesInv
<1>. QED  BY <1>2, Zenon DEF pevent_close_event

\* Events that are unmapped keep everything but their addresses.
LEMMA UnmappedIs ==
  ASSUME SetupTypes
  PROVE  /\ Unmapped \in Seq(EventRecord) /\ DOMAIN Unmapped = DOMAIN pes
         /\ \A i \in DOMAIN pes : /\ Unmapped[i].base = NoBase /\ Unmapped[i].sub_fds = pes[i].sub_fds
                                  /\ Unmapped[i].custom = pes[i].custom
<1>1. /\ Len(pes) \in Nat /\ DOMAIN pes = 1 .. Len(pes) /\ \A i \in DOMAIN pes : pes[i] \in EventRecord
  BY PesType, Zenon
<1>2. ASSUME NEW e \in EventRecord
      PROVE  /\ [e EXCEPT !.base = NoBase] \in EventRecord
             /\ [e EXCEPT !.base = NoBase].base = NoBase
             /\ [e EXCEPT !.base = NoBase].sub_fds = e.sub_fds
             /\ [e EXCEPT !.base = NoBase].custom = e.custom
  BY Zenon DEF EventRecord
<1>3. \A i \in DOMAIN pes : Unmapped[i] = [pes[i] EXCEPT !.base = NoBase]
  BY Zenon DEF Unmapped
<1>4. DOMAIN Unmapped = DOMAIN pes
  BY Zenon DEF Unmapped
<1>5. Unmapped \in Seq(EventRecord)
  <2>. DEFINE u == Unmapped
  <2>1. u \in [1 .. Len(pes) -> EventRecord]
    BY <1>1, <1>2, Zenon DEF Unmapped
  <2>. HIDE DEF u, EventRecord
  <2>2. u \in Seq(EventRecord)
    BY <1>1, <2>1
  <2>. QED  BY <2>2, Zenon DEF u
<1>6. ASSUME NEW i \in DOMAIN pes
      PROVE  /\ Unmapped[i].base = NoBase /\ Unmapped[i].sub_fds = pes[i].sub_fds
             /\ Unmapped[i].custom = pes[i].custom
  <2>1. pes[i] \in EventRecord
    BY <1>1, Zenon
  <2>2. Unmapped[i] = [pes[i] EXCEPT !.base = NoBase]
    BY <1>3, Zenon
  <2>. QED  BY <2>1, <2>2, Zenon DEF EventRecord
<1>. QED  BY <1>4, <1>5, <1>6, Zenon

\* pevent_munmap leaves nothing of the profiler's mappings.
LEMMA MunmapIs ==
  ASSUME SetupInv, pevent_munmap
  PROVE  /\ space' \in [Addresses -> {Unused, Other} \cup {Event(i) : i \in Nat}]
         /\ stage \in Profiler => \A a \in Addresses : space'[a] = Unused
<1>. DEFINE as == {pes[i].base : i \in DOMAIN pes} \ {NoBase}
<1>1. space' = [a \in Addresses |-> IF a \in as THEN Unused ELSE space[a]]
  BY Zenon DEF pevent_munmap, perfdisown
<1>2. space \in [Addresses -> {Unused, Other} \cup {Event(i) : i \in Nat}]
  BY Zenon DEF SetupInv, SetupTypes
<1>3. ASSUME stage \in Profiler, NEW a \in Addresses, a \notin as PROVE space[a] = Unused
  BY <1>3, AddressesAssumption, Zenon DEF SetupInv, SpaceInv, Known, NoBase
<1>. QED  BY <1>1, <1>2, <1>3, Zenon

\* A mapping fails, and all are undone.
LEMMA FailKeeps ==
  ASSUME SetupInv, mmap_fails
  PROVE  SetupInv'
<1>. USE DEF SetupInv
<1>1. /\ pevent_munmap /\ pes' = Unmapped /\ open' = open /\ stage' \in {stage, "exit"}
      /\ stage \in {"mmap", "worker_mmap"} /\ enabled' = enabled
      /\ stage' # "exit" => at' = <<1, 0>> /\ stage' = stage
      /\ at' \in {at, <<1, 0>>}
  BY Zenon DEF mmap_fails, SetupFails, Mapping
<1>2. /\ pes' \in Seq(EventRecord) /\ DOMAIN pes' = DOMAIN pes
      /\ \A i \in DOMAIN pes : pes'[i].base = NoBase /\ pes'[i].sub_fds = pes[i].sub_fds /\ pes'[i].custom = pes[i].custom
  BY <1>1, UnmappedIs, Zenon
<1>3. /\ space' \in [Addresses -> {Unused, Other} \cup {Event(i) : i \in Nat}]
      /\ stage \in Profiler => \A a \in Addresses : space'[a] = Unused
  BY <1>1, MunmapIs, Zenon
<1>4. SetupTypes'
  <2>1. stage' \in Stages
    BY <1>1, Zenon DEF Stages
  <2>2. at' \in Nat \X Nat
    BY <1>1 DEF SetupTypes
  <2>. QED  BY <1>2, <1>3, <2>1, <2>2, Zenon DEF SetupTypes
<1>5. FilesInv'
  BY <1>1, <1>2, FilesKeep, Zenon
<1>6. SpaceInv'
  BY <1>1, <1>2, <1>3, Zenon DEF SpaceInv, Profiler
<1>7. MapInv'
  <2>1. ASSUME stage' # "exit", NEW i \in DOMAIN pes PROVE ~(i < at'[1])
    BY <1>1, <2>1, PesType
  <2>2. stage' \notin {"enable", "running", "loop"}
    BY <1>1, Zenon
  <2>. QED  BY <1>2, <2>1, <2>2, Zenon DEF MapInv, Mapping
<1>8. EnableInv'
  <2>1. stage' \in {"mmap", "worker_mmap", "exit"} /\ (stage' = "worker_mmap" => stage = "worker_mmap")
    BY <1>1, Zenon
  <2>2. \A f \in open : f[1] \in DOMAIN pes
    BY Zenon DEF FilesInv
  <2>. QED  BY <1>1, <1>2, <2>1, <2>2, Zenon DEF EnableInv, Counts
<1>. QED  BY <1>4, <1>5, <1>6, <1>7, <1>8, Zenon

\* An event is mapped at a free address, in the profiler or the worker.
LEMMA MmapKeeps ==
  ASSUME SetupInv, pevent_mmap_event
  PROVE  SetupInv'
<1>. USE DEF SetupInv
<1>1. PICK c \in DOMAIN pes, a \in Addresses :
        /\ c = at[1] /\ space[a] = Unused /\ pes' = [pes EXCEPT ![c].base = a]
        /\ space' = [space EXCEPT ![a] = Event(c)] /\ at' = <<c + 1, 0>>
        /\ UNCHANGED <<stage, open, enabled>> /\ stage \in {"mmap", "worker_mmap"}
  BY Zenon DEF pevent_mmap_event, perfown_sz, FreeAddresses, evt, Mapping
<1>2. /\ Len(pes) \in Nat /\ DOMAIN pes = 1 .. Len(pes) /\ (\A i \in DOMAIN pes : pes[i] \in EventRecord)
      /\ c \in Nat
  BY PesType, Zenon
<1>3. /\ DOMAIN pes' = DOMAIN pes /\ pes' \in [1 .. Len(pes) -> EventRecord]
      /\ \A i \in DOMAIN pes : i # c => pes'[i] = pes[i]
      /\ pes'[c].base = a /\ pes'[c].sub_fds = pes[c].sub_fds /\ pes'[c].custom = pes[c].custom
  <2>. DEFINE e == [pes[c] EXCEPT !.base = a]
  <2>1. e \in EventRecord /\ e.base = a /\ e.sub_fds = pes[c].sub_fds /\ e.custom = pes[c].custom
    BY <1>2, Zenon DEF EventRecord
  <2>2. pes' = [pes EXCEPT ![c] = e]
    BY <1>1, Zenon
  <2>3. pes \in [1 .. Len(pes) -> EventRecord]
    <3>1. pes \in Seq(EventRecord)
      BY Zenon DEF SetupTypes
    <3>. HIDE DEF EventRecord
    <3>. QED  BY <3>1
  <2>. HIDE DEF e
  <2>. QED  BY <1>2, <2>1, <2>2, <2>3, Zenon
<1>4. /\ space \in [Addresses -> {Unused, Other} \cup {Event(i) : i \in Nat}]
      /\ space' \in [Addresses -> {Unused, Other} \cup {Event(i) : i \in Nat}]
      /\ space'[a] = Event(c) /\ \A b \in Addresses : b # a => space'[b] = space[b]
  BY <1>1, <1>2, Zenon DEF SetupTypes
<1>5. SetupTypes'
  <2>1. pes' \in Seq(EventRecord)
    <3>. HIDE DEF EventRecord
    <3>. QED  BY <1>2, <1>3
  <2>2. at' \in Nat \X Nat
    BY <1>1, <1>2
  <2>. QED  BY <1>1, <1>4, <2>1, <2>2, Zenon DEF SetupTypes
<1>6. FilesInv'
  BY <1>1, <1>3, FilesKeep, Zenon
<1>7. \A i \in Nat : Event(i) # Unused
  BY DEF Event, Unused
<1>8. at'[1] = c + 1 /\ at[1] = c
  BY <1>1
<1>9. SpaceInv'
  <2>1. stage = "mmap" => pes[c].base = NoBase
    BY <1>1, <1>2, <1>8 DEF SpaceInv
  <2>2. ASSUME stage = "mmap", NEW b \in Addresses, space'[b] # Unused PROVE Known(b)'
    <3>1. CASE b = a
      BY <1>3, <3>1, Zenon DEF Known
    <3>2. CASE b # a
      <4>1. PICK i \in DOMAIN pes : pes[i].base = b
        BY <1>4, <2>2, <3>2, Zenon DEF SpaceInv, Known, Profiler
      <4>2. i # c
        BY <2>1, <2>2, <4>1, AddressesAssumption, Zenon DEF NoBase
      <4>. QED  BY <1>3, <4>1, <4>2, Zenon DEF Known
    <3>. QED  BY <3>1, <3>2, Zenon
  <2>3. ASSUME stage = "mmap", NEW i \in DOMAIN pes, i >= at'[1] PROVE pes'[i].base = NoBase
    <3>1. i # c /\ i >= at[1]
      BY <1>2, <1>8, <2>3
    <3>. QED  BY <1>3, <2>3, <3>1, Zenon DEF SpaceInv
  <2>. QED  BY <1>1, <1>3, <2>2, <2>3, Zenon DEF SpaceInv, Profiler
<1>10. MapInv'
  <2>1. ASSUME NEW i \in DOMAIN pes, i < at'[1] PROVE MappedTo(i)'
    <3>1. CASE i = c
      BY <1>3, <1>4, <3>1, Zenon DEF MappedTo
    <3>2. CASE i # c
      <4>1. i < at[1] /\ i \in Nat
        BY <1>2, <1>8, <2>1, <3>2
      <4>2. MappedTo(i)
        BY <1>1, <4>1, Zenon DEF MapInv, Mapping
      <4>3. pes[i].base # a
        BY <1>1, <1>7, <4>1, <4>2, Zenon DEF MappedTo
      <4>. QED  BY <1>3, <1>4, <3>2, <4>2, <4>3, Zenon DEF MappedTo
    <3>. QED  BY <3>1, <3>2, Zenon
  <2>. QED  BY <1>1, <1>3, <2>1, Zenon DEF MapInv, Mapping
<1>11. EnableInv'
  <2>1. \A i \in DOMAIN pes : pes'[i].custom = pes[i].custom
    BY <1>3, Zenon
  <2>2. \A f \in open : f[1] \in DOMAIN pes
    BY Zenon DEF FilesInv
  <2>. QED  BY <1>1, <2>1, <2>2, Zenon DEF EnableInv, Counts
<1>. QED  BY <1>5, <1>6, <1>9, <1>10, <1>11, Zenon

\* Steps that neither map nor open anything.
LEMMA SameKeeps ==
  ASSUME SetupInv, UNCHANGED <<pes, open, space>>, stage' \in Stages, at' \in Nat \X Nat,
         stage' \in Profiler => stage \in Profiler,
         stage' \in {"parse", "open"} => stage \in {"parse", "open"},
         stage' = "mmap" => stage = "mmap" /\ at' = at,
         MapInv', EnableInv'
  PROVE  SetupInv'
<1>. USE DEF SetupInv
<1>1. SetupTypes'
  BY Zenon DEF SetupTypes
<1>2. FilesInv'
  BY FilesKeep, Zenon
<1>3. SpaceInv'
  BY Zenon DEF SpaceInv, Known
<1>. QED  BY <1>1, <1>2, <1>3, Zenon

\* The profiler sets up one event at a time; any call may fail.
LEMMA ProfilerKeeps ==
  ASSUME SetupInv, parse_input \/ open_fails \/ override_fails \/ mapped \/ pevent_enable
  PROVE  SetupInv'
<1>. USE DEF SetupInv
<1>1. at \in Nat \X Nat /\ <<1, 0>> \in Nat \X Nat /\ stage \in Stages
  BY DEF SetupTypes
<1>2. \A f \in open : f[1] \in DOMAIN pes
  BY Zenon DEF FilesInv
<1>3. CASE parse_input
  <2>1. stage = "parse" /\ stage' \in {"open", "exit"} /\ UNCHANGED <<at, pes, open, space>>
    BY <1>3, Zenon DEF parse_input, SetupFails
  <2>2. MapInv' /\ EnableInv'
    BY <2>1, Zenon DEF MapInv, Mapping, EnableInv
  <2>3. stage' \in Stages /\ stage \in Profiler /\ stage' # "mmap"
    BY <2>1, Zenon DEF Stages, Profiler
  <2>. QED  BY <1>1, <2>1, <2>2, <2>3, SameKeeps, Zenon
<1>4. CASE open_fails
  <2>1. stage' = "exit" /\ UNCHANGED <<at, pes, open, space>>
    BY <1>4, Zenon DEF open_fails, SetupFails
  <2>2. MapInv' /\ EnableInv'
    BY <2>1, Zenon DEF MapInv, Mapping, EnableInv
  <2>3. stage' \in Stages /\ stage' \notin Profiler
    BY <2>1, Zenon DEF Stages, Profiler
  <2>. QED  BY <1>1, <2>1, <2>2, <2>3, SameKeeps, Zenon
<1>5. CASE override_fails
  <2>1. UNCHANGED <<stage, at, pes, open, enabled, space>>
    BY <1>5, Zenon DEF override_fails
  <2>2. MapInv' /\ EnableInv'
    BY <2>1, Zenon DEF MapInv, Mapping, MappedTo, EnableInv, Counts
  <2>. QED  BY <1>1, <2>1, <2>2, SameKeeps, Zenon
<1>6. CASE mapped
  <2>1. /\ stage \in {"mmap", "worker_mmap"} /\ at[1] > Len(pes) /\ at' = <<1, 0>>
        /\ (stage = "mmap" /\ stage' = "enable") \/ (stage = "worker_mmap" /\ stage' = "loop")
        /\ UNCHANGED <<pes, open, enabled, space>>
    BY <1>6, Zenon DEF mapped, Mapping, evt
  <2>2. \A i \in DOMAIN pes : i < at[1]
    BY <2>1, PesType
  <2>3. MapInv'
    BY <2>1, <2>2, Zenon DEF MapInv, Mapping, MappedTo
  <2>4. EnableInv'
    <3>1. \A f \in open : ~(f[1] < at'[1])
      BY <1>2, <2>1, PesType
    <3>. QED  BY <2>1, <3>1, Zenon DEF EnableInv, Counts
  <2>5. stage' \in Stages /\ stage' \notin {"parse", "open", "mmap"} /\ (stage' \in Profiler => stage \in Profiler)
    BY <2>1, Zenon DEF Stages, Profiler
  <2>. QED  BY <1>1, <2>1, <2>3, <2>4, <2>5, SameKeeps, Zenon
<1>7. CASE pevent_enable
  <2>1. stage = "enable" /\ stage' \in {"enable", "running", "exit"} /\ UNCHANGED <<pes, open, space>>
    BY <1>7, Zenon DEF pevent_enable, SetupFails
  <2>2. MapInv'
    BY <2>1, Zenon DEF MapInv, Mapping, MappedTo
  <2>3. EnableInv' /\ at' \in Nat \X Nat
    <3>1. CASE at[1] > Len(pes) /\ stage' = "running" /\ UNCHANGED <<at, enabled>>
      <4>1. \A f \in open : f[1] < at[1]
        BY <1>2, <3>1, PesType
      <4>. QED  BY <1>1, <2>1, <3>1, <4>1, Zenon DEF EnableInv, Counts
    <3>2. CASE stage' = "exit" /\ UNCHANGED at
      BY <1>1, <3>2, Zenon DEF EnableInv
    <3>3. CASE /\ at' = <<at[1] + 1, 0>> /\ stage' = stage
               /\ enabled' = IF pes[at[1]].custom THEN enabled ELSE enabled \cup {f \in open : f[1] = at[1]}
      <4>1. at'[1] = at[1] + 1 /\ at' \in Nat \X Nat
        BY <3>3, PesType
      <4>2. ASSUME NEW f \in open, f[1] < at'[1] PROVE Counts(f)'
        <5>1. CASE f[1] = at[1]
          BY <2>1, <3>3, <5>1, Zenon DEF Counts
        <5>2. CASE f[1] # at[1]
          <6>1. f[1] < at[1]
            BY <1>2, <4>1, <4>2, <5>2, PesType
          <6>. QED  BY <2>1, <3>3, <6>1, Zenon DEF EnableInv, Counts
        <5>. QED  BY <5>1, <5>2, Zenon
      <4>. QED  BY <2>1, <3>3, <4>1, <4>2, Zenon DEF EnableInv
    <3>. QED  BY <1>7, <3>1, <3>2, <3>3, Zenon DEF pevent_enable, SetupFails, evt
  <2>4. stage' \in Stages /\ stage' \notin {"parse", "open", "mmap"} /\ stage \in Profiler
    BY <2>1, Zenon DEF Stages, Profiler
  <2>. QED  BY <2>1, <2>2, <2>3, <2>4, SameKeeps, Zenon
<1>. QED  BY <1>3, <1>4, <1>5, <1>6, <1>7, Zenon

\* The worker starts with the addresses of the profiler and without its perf
\* mappings; other memory takes addresses that are free.
LEMMA WorkerKeeps ==
  ASSUME SetupInv, fork_worker \/ mmap_other \/ worker_free
  PROVE  SetupInv'
<1>. USE DEF SetupInv
<1>1. /\ at \in Nat \X Nat /\ <<1, 0>> \in Nat \X Nat /\ pes \in Seq(EventRecord)
      /\ space \in [Addresses -> {Unused, Other} \cup {Event(i) : i \in Nat}]
  BY DEF SetupTypes
<1>2. \A f \in open : f[1] \in DOMAIN pes
  BY Zenon DEF FilesInv
<1>3. CASE fork_worker
  <2>1. /\ stage = "running" /\ stage' = "worker_mmap" /\ at' = <<1, 0>>
        /\ UNCHANGED <<pes, open, enabled>>
        /\ space' \in [Addresses -> {Unused, Other} \cup {Event(i) : i \in Nat}]
    BY <1>1, <1>3, Zenon DEF fork_worker
  <2>2. SetupTypes'
    BY <1>1, <2>1, Zenon DEF SetupTypes, Stages
  <2>3. FilesInv' /\ SpaceInv' /\ EnableInv'
    BY <2>1, FilesKeep, Zenon DEF SpaceInv, Profiler, EnableInv, Counts
  <2>4. MapInv'
    <3>1. \A i \in DOMAIN pes : ~(i < at'[1])
      BY <2>1, PesType
    <3>. QED  BY <2>1, <3>1, Zenon DEF MapInv
  <2>. QED  BY <2>2, <2>3, <2>4, Zenon
<1>4. CASE mmap_other
  <2>1. PICK a \in Addresses : space[a] = Unused /\ space' = [space EXCEPT ![a] = Other]
    BY <1>4, Zenon DEF mmap_other, FreeAddresses
  <2>2. stage = "worker_mmap" /\ UNCHANGED <<stage, at, pes, open, enabled>>
    BY <1>4, Zenon DEF mmap_other
  <2>3. SetupTypes'
    BY <1>1, <2>1, <2>2, Zenon DEF SetupTypes
  <2>4. FilesInv' /\ SpaceInv' /\ EnableInv'
    BY <2>2, FilesKeep, Zenon DEF SpaceInv, Profiler, EnableInv, Counts
  <2>5. MapInv'
    <3>1. \A i \in Nat : Event(i) # Unused
      BY DEF Event, Unused
    <3>2. ASSUME NEW i \in DOMAIN pes, MappedTo(i) PROVE MappedTo(i)'
      <4>1. i \in Nat
        BY PesType, Zenon
      <4>2. pes[i].base # a
        BY <2>1, <3>1, <3>2, <4>1, Zenon DEF MappedTo
      <4>. QED  BY <1>1, <2>1, <2>2, <3>2, <4>2, Zenon DEF MappedTo
    <3>. QED  BY <2>2, <3>2, Zenon DEF MapInv, Mapping
  <2>. QED  BY <2>3, <2>4, <2>5, Zenon
<1>5. CASE worker_free
  <2>1. stage' = "worker_exit" /\ pevent_munmap /\ pes' = Unmapped /\ UNCHANGED <<at, open, enabled>>
    BY <1>5, Zenon DEF worker_free
  <2>2. /\ pes' \in Seq(EventRecord) /\ DOMAIN pes' = DOMAIN pes
        /\ \A i \in DOMAIN pes : pes'[i].sub_fds = pes[i].sub_fds /\ pes'[i].custom = pes[i].custom
    BY <2>1, UnmappedIs, Zenon
  <2>3. SetupTypes'
    BY <1>1, <2>1, <2>2, MunmapIs, Zenon DEF SetupTypes, Stages
  <2>4. FilesInv'
    BY <2>1, <2>2, FilesKeep, Zenon
  <2>5. SpaceInv' /\ MapInv' /\ EnableInv'
    BY <2>1, Zenon DEF SpaceInv, Profiler, MapInv, Mapping, EnableInv
  <2>. QED  BY <2>3, <2>4, <2>5, Zenon
<1>. QED  BY <1>3, <1>4, <1>5, Zenon

\* ddprof_teardown closes the files of every event and unmaps what has an address.
LEMMA CleanupKeeps ==
  ASSUME SetupInv, pevent_cleanup
  PROVE  SetupInv' /\ open' = {}
<1>. USE DEF SetupInv
<1>1. /\ stage = "running" /\ stage' = "torn_down" /\ pevent_munmap /\ pes' = <<>> /\ at' = at
      /\ open' = open \ UNION {pevent_close_event(i) : i \in DOMAIN pes}
  BY Zenon DEF pevent_cleanup
<1>2. open' = {}
  BY <1>1, Zenon DEF FilesInv
<1>3. \A a \in Addresses : space'[a] = Unused
  BY <1>1, MunmapIs, Zenon DEF Profiler
<1>4. pes' \in Seq(EventRecord)
  BY <1>1
<1>5. SetupTypes'
  BY <1>1, <1>4, MunmapIs, Zenon DEF SetupTypes, Stages
<1>6. FilesInv' /\ SpaceInv' /\ MapInv' /\ EnableInv'
  BY <1>1, <1>2, <1>3, Zenon DEF FilesInv, SpaceInv, MapInv, Mapping, EnableInv
<1>. QED  BY <1>2, <1>5, <1>6, Zenon

\* An event is opened on a cpu, or a custom one is created.
LEMMA CreateKeeps ==
  ASSUME SetupInv, open_cpu \/ ring_buffer_create
  PROVE  SetupInv'
<1>1. at[1] \in Nat /\ at[2] \in Nat
  BY PesType, Zenon DEF SetupInv
<1>2. \A n \in Nat : <<n, 0>> \in Nat \X Nat /\ <<at[1], at[2] + 1>> \in Nat \X Nat /\ at[1] + 1 \in Nat
  BY <1>1
<1>3. at \in Nat \X Nat /\ 1 \in Nat
  BY Zenon DEF SetupInv, SetupTypes
<1>4. ASSUME FirstMapping, stage = "open"
      PROVE  stage' \in {"open", "mmap", "segv"} /\ (stage' = "mmap" => at' = <<1, 0>>) /\ at' \in Nat \X Nat
  BY <1>2, <1>4, Zenon DEF FirstMapping
<1>5. CASE open_cpu
  <2>1. PICK sub_fds \in SUBSET Tids, exclude_kernel \in BOOLEAN :
          /\ pes' = Append(pes, [NewEvent(FALSE) EXCEPT !.sub_fds = sub_fds,
                                                       !.exclude_kernel = exclude_kernel])
          /\ open' = open \cup {<<Len(pes'), f>> : f \in {"main"} \cup sub_fds}
    BY <1>5, Zenon DEF open_cpu, ExcludeKernel
  <2>. DEFINE e == [NewEvent(FALSE) EXCEPT !.sub_fds = sub_fds, !.exclude_kernel = exclude_kernel]
              fs == {"main"} \cup sub_fds
  <2>2. e \in EventRecord /\ e.base = NoBase /\ e.sub_fds = sub_fds
    BY <1>1, Zenon DEF NewEvent, EventRecord
  <2>3. stage = "open" /\ UNCHANGED <<space, enabled>>
    BY <1>5, Zenon DEF open_cpu, Opening
  <2>4. stage' \in {"open", "mmap", "segv"} /\ (stage' = "mmap" => at' = <<1, 0>>) /\ at' \in Nat \X Nat
    BY <1>2, <1>3, <1>4, <1>5, <2>3, Zenon DEF open_cpu
  <2>5. \A f \in fs : f = "main" \/ f \in e.sub_fds \/ (f = "map" /\ e.custom)
    BY <2>2, Zenon
  <2>6. pes' = Append(pes, e) /\ open' = open \cup {<<Len(pes'), f>> : f \in fs}
    BY <2>1, Zenon
  <2>. HIDE DEF e, fs
  <2>. QED  BY <2>2, <2>3, <2>4, <2>5, <2>6, OpenKeeps, Zenon
<1>6. CASE ring_buffer_create
  <2>. DEFINE e == NewEvent(TRUE)
              fs == {"main", "map"}
  <2>1. pes' = Append(pes, e) /\ open' = open \cup {<<Len(pes'), f>> : f \in fs}
    BY <1>6, Zenon DEF ring_buffer_create
  <2>2. e \in EventRecord /\ e.base = NoBase /\ e.custom
    BY <1>1, Zenon DEF NewEvent, EventRecord
  <2>3. stage = "open" /\ UNCHANGED <<space, enabled>>
    BY <1>6, Zenon DEF ring_buffer_create, Opening
  <2>4. stage' \in {"open", "mmap", "segv"} /\ (stage' = "mmap" => at' = <<1, 0>>) /\ at' \in Nat \X Nat
    BY <1>3, <1>4, <1>6, <2>3, Zenon DEF ring_buffer_create
  <2>5. \A f \in fs : f = "main" \/ f \in e.sub_fds \/ (f = "map" /\ e.custom)
    BY <2>2, Zenon
  <2>. HIDE DEF e, fs
  <2>. QED  BY <2>1, <2>2, <2>3, <2>4, <2>5, OpenKeeps, Zenon
<1>. QED  BY <1>5, <1>6, Zenon

-----------------------------------------------------------------------------
(* Results *)

\* The profiler starts with no event, file or mapping.
LEMMA SetupInitInv == SetupInit => SetupInv
<1>. SUFFICES ASSUME SetupInit PROVE SetupInv
  BY Zenon
<1>1. pes = <<>> /\ open = {} /\ stage = "parse" /\ at = <<1, 0>> /\ DOMAIN pes = {}
  BY DEF SetupInit
<1>2. SetupTypes
  <2>1. pes \in Seq(EventRecord) /\ at \in Nat \X Nat
    BY <1>1
  <2>. QED  BY <1>1, <2>1, Zenon DEF SetupInit, SetupTypes, Stages
<1>3. FilesInv /\ SpaceInv /\ MapInv /\ EnableInv
  BY <1>1, Zenon DEF SetupInit, FilesInv, SpaceInv, MapInv, Mapping, EnableInv
<1>. QED  BY <1>2, <1>3, Zenon DEF SetupInv

\* Every step of the profiler, and of a worker in its place, keeps the invariant.
LEMMA SetupStep == SetupInv /\ [SetupNext]_setupVars => SetupInv'
<1>. SUFFICES ASSUME SetupInv, [SetupNext]_setupVars PROVE SetupInv'
  BY Zenon
<1>1. CASE UNCHANGED setupVars
  <2>1. UNCHANGED <<stage, at, pes, open, enabled, space>>
    BY <1>1, Zenon DEF setupVars
  <2>2. MapInv' /\ EnableInv'
    BY <2>1, Zenon DEF SetupInv, MapInv, Mapping, MappedTo, EnableInv, Counts
  <2>3. stage \in Stages /\ at \in Nat \X Nat
    BY Zenon DEF SetupInv, SetupTypes
  <2>. QED  BY <2>1, <2>2, <2>3, SameKeeps, Zenon
<1>. QED  BY <1>1, CreateKeeps, ProfilerKeeps, MmapKeeps, FailKeeps, WorkerKeeps, CleanupKeeps, Zenon DEF SetupNext

\* The invariant holds in every state of the set-up, of a worker and of the teardown.
THEOREM SetupInvariant == SetupSpec => []SetupInv
BY SetupInitInv, SetupStep, PTL DEF SetupSpec

\* A worker that has got to its loop reads ring buffers mapped in its own address
\* space, whatever pevent_mmap met on the way, and all but the custom events count.
THEOREM BuffersAreMapped == SetupSpec => []WorkerReadsItsBuffers
<1>1. SetupInv => WorkerReadsItsBuffers
  BY AddressesAssumption, Zenon DEF SetupInv, MapInv, MappedTo, EnableInv, Counts, WorkerReadsItsBuffers, NoBase
<1>. QED  BY <1>1, SetupInvariant, PTL

\* After ddprof_teardown no file is open and nothing is mapped.
THEOREM TeardownComplete == SetupSpec => []NothingLeft
<1>. DEFINE TornDown == stage = "torn_down" => open = {} /\ pes = <<>>
<1>1. SetupInit => TornDown
  BY Zenon DEF SetupInit
<1>2. SetupInv /\ TornDown /\ [SetupNext]_setupVars => TornDown'
  <2>1. SUFFICES ASSUME SetupInv, TornDown, [SetupNext]_setupVars, stage' = "torn_down"
                 PROVE  open' = {} /\ pes' = <<>>
    BY Zenon
  <2>2. CASE pevent_cleanup
    BY <2>1, <2>2, CleanupKeeps, Zenon DEF pevent_cleanup
  <2>3. CASE UNCHANGED setupVars
    BY <2>1, <2>3, Zenon DEF setupVars
  <2>4. CASE SetupNext /\ ~pevent_cleanup
    BY <2>1, <2>4, Zenon DEF SetupNext, parse_input, open_cpu, ring_buffer_create, open_fails, pevent_mmap_event,
         mmap_fails, override_fails, mapped, pevent_enable, fork_worker, mmap_other, worker_free,
         SetupFails, Opening, Mapping, FirstMapping
  <2>. QED  BY <2>1, <2>2, <2>3, <2>4, Zenon
<1>3. SetupInv /\ TornDown => NothingLeft
  <2>1. SUFFICES ASSUME SetupInv, stage = "torn_down", open = {}, pes = <<>>
                 PROVE  FreeAddresses = Addresses
    BY Zenon DEF NothingLeft
  <2>2. DOMAIN pes = {}
    BY <2>1
  <2>. QED  BY <2>1, <2>2, Zenon DEF SetupInv, SpaceInv, Known, Profiler, FreeAddresses
<1>. QED  BY <1>1, <1>2, <1>3, SetupInvariant, PTL DEF SetupSpec
=============================================================================
