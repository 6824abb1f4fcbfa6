-------------------------- MODULE MCMPSCRingBuffer --------------------------
(***************************************************************************)
(* Small instances of MPSCRingBuffer for TLC: the worker that reorders     *)
(* events, whose writers live on, and the worker that does not, with a     *)
(* writer that may be killed.  Which one it is, is chosen at the start.    *)
(***************************************************************************)
EXTENDS MPSCRingBuffer

CONSTANTS w1, MaxUnorderedPushes

VARIABLE reorder_events

Unordered == INSTANCE MPSCRingBuffer
  WITH Reorder <- FALSE, Mortal <- {w1}, MaxPushes <- MaxUnorderedPushes, MaxTime <- 0

\* Records of three and of four words, of which two fill the data area: the third
\* straddles its end and overwrites the first.
MixedRequests == {[n |-> 12, hp |-> FALSE], [n |-> 24, hp |-> TRUE]}

MCInit == Init /\ reorder_events \in BOOLEAN

MCNext ==
  \/ reorder_events /\ Next /\ UNCHANGED reorder_events
  \/ ~reorder_events /\ Unordered!Next /\ UNCHANGED reorder_events

MCWriterStep(w) ==
  \/ reorder_events /\ WriterStep(w) /\ UNCHANGED reorder_events
  \/ ~reorder_events /\ Unordered!WriterStep(w) /\ UNCHANGED reorder_events

MCWorkerStep ==
  \/ reorder_events /\ WorkerStep /\ UNCHANGED reorder_events
  \/ ~reorder_events /\ Unordered!WorkerStep /\ UNCHANGED reorder_events

MCTick == reorder_events /\ Tick /\ UNCHANGED reorder_events

\* The fairness of FairSpec.
MCSpec ==
  /\ MCInit /\ [][MCNext]_<<vars, reorder_events>>
  /\ \A w \in Writers : WF_<<vars, reorder_events>>(MCWriterStep(w))
  /\ WF_<<vars, reorder_events>>(MCWorkerStep)
  /\ WF_<<vars, reorder_events>>(MCTick)

\* NoLostWakeup, which is about the worker that does not reorder events: commit
\* need not notify one that has events queued.
UnorderedWoken == ~reorder_events => NoLostWakeup

=============================================================================
