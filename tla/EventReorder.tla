---------------------------- MODULE EventReorder ----------------------------
(***************************************************************************)
(* How the worker consumes the ring buffers of all its events (pes):       *)
(* worker_process_ring_buffers_ordered merges them by timestamp in a       *)
(* priority queue that points into the ring buffers, and                   *)
(* worker_process_ring_buffers takes them one after the other.             *)
(*                                                                         *)
(* A ring buffer is the sequence of the timestamps written to it, in the   *)
(* order in which the reader meets them, and its cursors count events.     *)
(* Perf ring buffers are written by the kernel in timestamp order; those   *)
(* of the MPSC kind by threads that race between reserving a slot and      *)
(* reading the clock (MPSCRingBuffer has the details).                     *)
(***************************************************************************)
EXTENDS Integers, Sequences, FiniteSets

CONSTANTS
  Setups,         \* the configurations of the profiler to consider
  Latency,        \* kMaxSampleLatency: an event is in its ring buffer by then
  MayStop,        \* the target may exit and the worker be told to terminate
  MaxEvents,      \* bound on the events of a ring buffer
  MaxTime         \* bound on the clock

ASSUME SetupsAssumption ==
  \A s \in Setups :
    /\ s.kind \in Seq({"perf", "mpsc"}) /\ s.kind # <<>>
    /\ {s.reorder, s.untimed} \subseteq BOOLEAN

ASSUME FlagsAssumption == MayStop \in BOOLEAN

ASSUME TimeAssumption == {Latency, MaxEvents, MaxTime} \subseteq Nat

VARIABLES
  setup,          \* the configuration, which does not change
  clock,
  ring,           \* ring[i]: timestamps of the events written so far
  read,           \* intermediate_reader_pos of each ring buffer
  released,       \* reader_pos of each ring buffer
  discarded,      \* MPSC events marked discarded and not yet released
  rpc,
  i,              \* the ring buffer the worker is at
  queue,          \* event_queue
  top,            \* evt, a reference to event_queue.top(): an event or <<>>
  max_timestamp,
  events,         \* new_events, or events in unordered mode
  stop,           \* POLLHUP
  term,           \* g_termination_requested
  processed,      \* history: events processed, in order
  hup             \* history: events in the ring buffers when POLLHUP was seen

rings == <<setup, clock, ring>>
cursors == <<read, released, discarded>>
round == <<i, queue, top, max_timestamp, events>>
reorderVars == <<rings, cursors, rpc, round, stop, term, processed, hup>>

\* RingBufferType of each ring buffer, in the order of pes.
Kind == setup.kind

\* params.reorder_events
Reorder == setup.reorder

\* The kernel writes records that hdr_time does not know.
Untimed == setup.untimed

Rings == DOMAIN Kind

Event == {<<r, k>> : r \in Rings, k \in 1 .. MaxEvents}

\* hdr_time of an event; 0 for the record types it does not know.
TimeOf(e) == ring[e[1]][e[2]]

ReorderInit ==
  /\ setup \in Setups
  /\ clock = Latency
  /\ ring = [r \in Rings |-> <<>>]
  /\ read = [r \in Rings |-> 0]
  /\ released = [r \in Rings |-> 0]
  /\ discarded = {}
  /\ rpc = "poll"
  /\ i = 1
  /\ queue = {}
  /\ top = <<>>
  /\ max_timestamp = 0
  /\ events = FALSE
  /\ stop = FALSE
  /\ term = FALSE
  /\ processed = <<>>
  /\ hup = [r \in Rings |-> 0]

-----------------------------------------------------------------------------
(* The writers and the clock *)

\* An event appears in a ring buffer at most Latency after its timestamp (and
\* early enough for the worker to process it before the clock reaches MaxTime).
\* "Events in each perf ring buffer are already ordered by timestamp."
Write(r, t) ==
  /\ Len(ring[r]) < MaxEvents
  /\ t \in clock - Latency .. clock
  /\ t \in 1 .. MaxTime - Latency
  /\ Kind[r] = "perf" => \A k \in DOMAIN ring[r] : ring[r][k] <= t
  /\ ring' = [ring EXCEPT ![r] = Append(@, t)]
  /\ UNCHANGED <<setup, clock, cursors, rpc, round, stop, term, processed, hup>>

\* A record of a type that is not in hdr_time's switch (PERF_RECORD_THROTTLE
\* and PERF_RECORD_UNTHROTTLE are written without being asked for).
WriteUntimed(r) ==
  /\ Untimed
  /\ Kind[r] = "perf"
  /\ Len(ring[r]) < MaxEvents
  /\ ring' = [ring EXCEPT ![r] = Append(@, 0)]
  /\ UNCHANGED <<setup, clock, cursors, rpc, round, stop, term, processed, hup>>

Tick ==
  /\ clock < MaxTime
  /\ clock' = clock + 1
  /\ UNCHANGED <<setup, ring, cursors, rpc, round, stop, term, processed, hup>>

Terminate ==
  /\ MayStop
  /\ term' = TRUE
  /\ UNCHANGED <<rings, cursors, rpc, round, stop, processed, hup>>

-----------------------------------------------------------------------------
(* The loop of the worker *)

\* Mutant of MaxTimestamp: a drain leaves recent events alone as well.
MaxTimestampNoDrain(drain) == clock - Latency

\* The most recent timestamp a round may process.
MaxTimestamp(drain) == IF drain THEN MaxTime ELSE clock - Latency

\* Mutant of Poll: without k_poll_timeout, only a new event ends poll.
PollNoTimeout ==
  /\ rpc = "poll"
  /\ ~term
  /\ \E r \in Rings : Len(ring[r]) > read[r]
  /\ stop' = FALSE
  /\ max_timestamp' = IF Reorder THEN MaxTimestamp(FALSE) ELSE 0
  /\ rpc' = IF Reorder THEN "dequeue" ELSE "open"
  /\ i' = 1
  /\ events' = FALSE
  /\ UNCHANGED <<rings, cursors, queue, top, term, processed, hup>>

\* poll returns, on an event, its timeout or a hangup, and the ring buffers
\* are processed, from the first one on.
Poll ==
  /\ rpc = "poll"
  /\ ~term
  /\ stop' \in {FALSE, MayStop}
  /\ hup' = IF stop' THEN [r \in Rings |-> Len(ring[r])] ELSE hup
  /\ max_timestamp' = IF Reorder THEN MaxTimestamp(stop') ELSE 0
  /\ rpc' = IF Reorder THEN "dequeue" ELSE "open"
  /\ i' = 1
  /\ events' = FALSE
  /\ UNCHANGED <<rings, cursors, queue, top, term, processed>>

\* After the ring buffers: the worker polls again, leaves its loop, or exits
\* and is replaced by one that maps the ring buffers again.
Return ==
  /\ rpc = "return"
  /\ max_timestamp' = 0
  /\ events' = FALSE
  /\ i' = 1
  /\ \/ /\ rpc' = IF stop \/ term THEN "exit" ELSE "poll"
        /\ UNCHANGED <<read, queue>>
     \/ /\ ~stop
        /\ rpc' = "poll"
        /\ read' = released
        /\ queue' = {}
  /\ UNCHANGED <<rings, released, discarded, top, stop, term, processed, hup>>

\* The loop condition of worker_loop.
ExitOnTermination ==
  /\ rpc = "poll"
  /\ term
  /\ rpc' = "exit"
  /\ UNCHANGED <<rings, cursors, round, stop, term, processed, hup>>

-----------------------------------------------------------------------------
(* worker_process_ring_buffers_ordered *)

\* The next event of ring buffer r, if its writer has published one: a perf
\* ring buffer gives its next record, an MPSC one skips discarded records.
Readable(r) ==
  {k \in read[r] + 1 .. Len(ring[r]) :
     /\ <<r, k>> \notin discarded
     /\ \A j \in read[r] + 1 .. k - 1 : <<r, j>> \in discarded}

\* The loop over pes goes to the next ring buffer, or ends.
NextRing ==
  /\ i' = IF i < Len(Kind) THEN i + 1 ELSE 1
  /\ rpc' = IF i < Len(Kind) THEN "dequeue" ELSE "process"

\* A perf ring buffer is read unless the queue has an event of it already.
DequeuePerf ==
  /\ rpc = "dequeue" /\ Kind[i] = "perf"
  /\ \/ \E k \in Readable(i) :
          /\ read[i] = released[i]
          /\ read' = [read EXCEPT ![i] = k]
          /\ queue' = queue \cup {<<i, k>>}
          /\ events' = TRUE
     \/ /\ read[i] # released[i] \/ Readable(i) = {}
        /\ UNCHANGED <<read, queue, events>>
  /\ NextRing
  /\ UNCHANGED <<rings, released, discarded, top, max_timestamp, stop, term,
                 processed, hup>>

\* An MPSC ring buffer is read until an event is too recent, or to its end,
\* over the discarded events there.
DequeueMPSC ==
  /\ rpc = "dequeue" /\ Kind[i] = "mpsc"
  /\ \/ \E k \in Readable(i) :
          /\ read' = [read EXCEPT ![i] = k]
          /\ queue' = queue \cup {<<i, k>>}
          /\ events' = TRUE
          /\ IF TimeOf(<<i, k>>) > max_timestamp
               THEN NextRing
               ELSE UNCHANGED <<i, rpc>>
     \/ /\ Readable(i) = {}
        /\ read' = [read EXCEPT ![i] = Len(ring[i])]
        /\ UNCHANGED <<queue, events>>
        /\ NextRing
  /\ UNCHANGED <<rings, released, discarded, top, max_timestamp, stop, term,
                 processed, hup>>

IsTop(e) == e \in queue /\ \A f \in queue : TimeOf(e) <= TimeOf(f)

\* ddprof_worker_process_event on event_queue.top().
Process(e) ==
  /\ rpc = "process"
  /\ IsTop(e)
  /\ TimeOf(e) <= max_timestamp
  /\ processed' = Append(processed, e)
  /\ top' = e
  /\ rpc' = "advance"
  /\ UNCHANGED <<rings, cursors, i, queue, max_timestamp, events, stop, term,
                 hup>>

\* The end of the run of discarded events at the head of an MPSC ring buffer.
ReleaseUpTo(r, done) ==
  CHOOSE n \in released[r] .. Len(ring[r]) :
    /\ \A k \in released[r] + 1 .. n : <<r, k>> \in done
    /\ n < Len(ring[r]) => <<r, n + 1>> \notin done

\* Mutant of Advance: releases everything read, in MPSC ring buffers too.
AdvanceAll ==
  /\ rpc = "advance"
  /\ released' = [released EXCEPT ![top[1]] = read[top[1]]]
  /\ IF Kind[top[1]] = "perf"
       THEN rpc' = "refill" /\ UNCHANGED <<queue, top>>
       ELSE rpc' = "process" /\ queue' = queue \ {top} /\ top' = <<>>
  /\ UNCHANGED <<rings, read, discarded, i, max_timestamp, events, stop, term,
                 processed, hup>>

\* perf_rb_advance releases everything read; mpsc_rb_advance_if_possible the
\* discarded events up to the first that is not, after which the event is
\* popped.
Advance ==
  /\ rpc = "advance"
  /\ IF Kind[top[1]] = "perf"
       THEN /\ released' = [released EXCEPT ![top[1]] = read[top[1]]]
            /\ rpc' = "refill"
            /\ UNCHANGED <<discarded, queue, top>>
       ELSE LET r == top[1]
                n == ReleaseUpTo(r, discarded \cup {top})
            IN  /\ released' = [released EXCEPT ![r] = n]
                /\ discarded' = {e \in discarded \cup {top} :
                                   e[1] = r => e[2] > n}
                /\ queue' = queue \ {top}
                /\ top' = <<>>
                /\ rpc' = "process"
  /\ UNCHANGED <<rings, read, i, max_timestamp, events, stop, term, processed,
                 hup>>

\* Mutant of Refill: the event after the one processed is left for the next
\* round, in which other ring buffers may be ahead of it.
RefillNever ==
  /\ rpc = "refill"
  /\ queue' = queue \ {top}
  /\ top' = <<>>
  /\ rpc' = "process"
  /\ UNCHANGED <<rings, cursors, i, max_timestamp, events, stop, term,
                 processed, hup>>

\* The next event of the same perf ring buffer is pushed, then the top of the
\* queue is popped: the event just processed, unless the one pushed has a
\* lesser timestamp and took its place.
Refill ==
  /\ rpc = "refill"
  /\ LET r == top[1] IN
       \/ \E k \in Readable(r) :
            /\ read' = [read EXCEPT ![r] = k]
            /\ queue' = IF TimeOf(<<r, k>>) < TimeOf(top)
                          THEN queue
                          ELSE (queue \ {top}) \cup {<<r, k>>}
       \/ /\ Readable(r) = {}
          /\ queue' = queue \ {top}
          /\ UNCHANGED read
  /\ top' = <<>>
  /\ rpc' = "process"
  /\ UNCHANGED <<rings, released, discarded, i, max_timestamp, events, stop,
                 term, processed, hup>>

\* The next event is too recent, or the queue is empty and nothing was read,
\* termination is requested or the deadline has passed (never, in a drain).
EndRound ==
  /\ rpc = "process"
  /\ \A e \in queue : TimeOf(e) > max_timestamp
  /\ queue # {} \/ ~events \/ term \/ ~stop
  /\ rpc' = "return"
  /\ UNCHANGED <<rings, cursors, round, stop, term, processed, hup>>

\* The queue is empty, something was read and there is time for another round.
NextRound ==
  /\ rpc = "process"
  /\ queue = {}
  /\ events
  /\ ~term
  /\ max_timestamp' = MaxTimestamp(stop)
  /\ events' = FALSE
  /\ i' = 1
  /\ rpc' = "dequeue"
  /\ UNCHANGED <<rings, cursors, queue, top, stop, term, processed, hup>>

-----------------------------------------------------------------------------
(* worker_process_ring_buffers *)

\* A PerfRingBufferReader returns all that is available at once, and moves
\* intermediate_reader_pos over it; an MPSCRingBufferReader goes event by
\* event, up to the same position.
OpenReader ==
  /\ rpc = "open"
  /\ read' = [read EXCEPT ![i] = Len(ring[i])]
  /\ events' = (events \/ Len(ring[i]) > read[i])
  /\ rpc' = "use"
  /\ UNCHANGED <<rings, released, discarded, i, queue, top, max_timestamp,
                 stop, term, processed, hup>>

\* ddprof_worker_process_event, then reader.advance.
UseNext ==
  /\ rpc = "use"
  /\ read[i] > released[i]
  /\ processed' = Append(processed, <<i, released[i] + 1>>)
  /\ released' = [released EXCEPT ![i] = @ + 1]
  /\ UNCHANGED <<rings, read, discarded, rpc, round, stop, term, hup>>

\* The reader is destroyed and the next ring buffer is opened; after the last
\* one the pass is repeated if there were events, and k_sample_default_wakeup
\* has not passed.
CloseReader ==
  /\ rpc = "use"
  /\ read[i] = released[i]
  /\ IF i < Len(Kind)
       THEN /\ i' = i + 1
            /\ rpc' = "open"
            /\ UNCHANGED events
       ELSE /\ i' = 1
            /\ rpc' \in {"return"} \cup (IF events THEN {"open"} ELSE {})
            /\ events' = FALSE
  /\ UNCHANGED <<rings, cursors, queue, top, max_timestamp, stop, term,
                 processed, hup>>

\* ddprof_worker_process_event fails, which ends the worker for good.  In
\* unordered mode the destructor of the reader releases what it has read, that
\* is, for a perf ring buffer, the rest of the batch.
ProcessFails ==
  /\ MayStop
  /\ \/ /\ rpc = "process"
        /\ \E e \in queue : TimeOf(e) <= max_timestamp
        /\ UNCHANGED released
     \/ /\ rpc = "use"
        /\ read[i] > released[i]
        /\ released' = [released EXCEPT ![i] =
                          IF Kind[i] = "perf" THEN read[i] ELSE @ + 1]
  /\ rpc' = "failed"
  /\ UNCHANGED <<rings, read, discarded, round, stop, term, processed, hup>>

LoopStep ==
  \/ Poll \/ Return \/ ExitOnTermination
  \/ DequeuePerf \/ DequeueMPSC
  \/ (\E e \in queue : Process(e))
  \/ Advance \/ Refill \/ EndRound \/ NextRound
  \/ OpenReader \/ UseNext \/ CloseReader

ReorderNext ==
  \/ \E r \in Rings, t \in 1 .. MaxTime : Write(r, t)
  \/ \E r \in Rings : WriteUntimed(r)
  \/ Tick
  \/ Terminate
  \/ ProcessFails
  \/ LoopStep

ReorderSpec == ReorderInit /\ [][ReorderNext]_reorderVars

\* The worker is scheduled and time passes.
FairReorder == ReorderSpec /\ WF_reorderVars(LoopStep) /\ WF_reorderVars(Tick)

-----------------------------------------------------------------------------
(* Properties *)

\* "Reorder events from ring buffers before processing them": when all ring
\* buffers are perf ring buffers and no event is more than kMaxSampleLatency
\* late, none is processed after one with a greater timestamp, across rounds and
\* worker restarts (STATS_EVENT_OUT_OF_ORDER stays 0).  Only the drain after a
\* hangup does not wait for late ones.
InOrder ==
  Reorder /\ (\A r \in Rings : Kind[r] = "perf") /\ ~stop =>
    \A m, n \in DOMAIN processed :
      m < n => TimeOf(processed[m]) <= TimeOf(processed[n])

\* EventWrapper "points on ring buffer memory, and must remain valid during the
\* lifetime of EventWrapper.  Consequently, care must be taken to advance reader
\* cursor position in ring buffer only after processing the event": what the
\* queue points to has been read and is not released.
EventWrapperValid ==
  rpc \in {"dequeue", "process"} =>
    \A e \in queue : released[e[1]] < e[2] /\ e[2] <= read[e[1]]

\* Every event is processed at most once, and none is released unprocessed,
\* even when a worker is replaced and its queue is lost (but a failure may lose
\* events, and there is no worker after it).
ExactlyOnce ==
  /\ \A m, n \in DOMAIN processed : processed[m] = processed[n] => m = n
  /\ rpc # "failed" => \A r \in Rings : \A k \in 1 .. released[r] :
       \E m \in DOMAIN processed : processed[m] = <<r, k>>

\* When the target is gone everything it had written is processed before the
\* worker exits, unless termination was requested meanwhile: in ordered mode
\* because the rounds go on until they find no event, however recent.
DrainComplete ==
  rpc = "exit" /\ stop /\ ~term =>
    \A r \in Rings : \A k \in 1 .. hup[r] :
      \E m \in DOMAIN processed : processed[m] = <<r, k>>

\* An event is processed once the clock is Latency past its timestamp, unless
\* the worker exits.
EventuallyProcessed ==
  \A r \in UNION {DOMAIN s.kind : s \in Setups}, k \in 1 .. MaxEvents :
    (r \in Rings /\ k <= Len(ring[r]))
    ~> (rpc \in {"exit", "failed"} \/ \E m \in DOMAIN processed : processed[m] = <<r, k>>)

=============================================================================
