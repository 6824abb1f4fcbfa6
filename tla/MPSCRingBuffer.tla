--------------------------- MODULE MPSCRingBuffer ---------------------------
(***************************************************************************)
(* The multi-producer single-consumer ring buffer through which the        *)
(* profiled processes send allocation events to the profiler's worker.     *)
(*                                                                         *)
(* Writers are threads of the profiled processes: MPSCRingBufferWriter     *)
(* takes a spinlock that lives in the shared mapping, writes a busy        *)
(* header, publishes writer_pos, unlocks, fills the payload and commits.   *)
(* The reader is the profiler's worker, in either of its two modes:        *)
(* worker_process_ring_buffers_ordered (Reorder = TRUE) keeps events in a  *)
(* priority queue and frees them out of order by marking their header      *)
(* discarded; worker_process_ring_buffers frees each event after use.      *)
(*                                                                         *)
(* Positions are free-running and counted in words of                      *)
(* kRingBufferAlignment bytes: every position the code computes is a       *)
(* multiple of it.  Sizes in headers are in bytes, as in the code.         *)
(***************************************************************************)
EXTENDS Integers, FiniteSets

CONSTANTS
  Writers,        \* threads that push events
  Mortal,         \* the writers that may be killed in the middle of a push
  Size,           \* words in the data area (mask + 1, a power of two)
  HighPriorityArea, \* words that only high priority events may use
  Requests,       \* events to push: [n |-> payload bytes, hp |-> high priority]
  MaxPushes,      \* bound on the number of pushes
  MaxTime,        \* bound on timestamps and on the clock
  Reorder,        \* params.reorder_events
  MayStop,        \* the worker may fail, be told to terminate or lose its target
  None            \* the spinlock is free

ASSUME SizeAssumption == Size \in Nat \ {0}

ASSUME AreaAssumption == HighPriorityArea \in Nat

ASSUME RequestsAssumption ==
  Requests # {} /\ Requests \subseteq [n : Nat, hp : BOOLEAN]

ASSUME BoundsAssumption == MaxPushes \in Nat /\ MaxTime \in Nat

ASSUME WritersAssumption == None \notin Writers /\ Mortal \subseteq Writers

ASSUME ReaderAssumption == Reorder \in BOOLEAN /\ MayStop \in BOOLEAN

VARIABLES
  \* the shared mapping
  lock,           \* MPSCRingBufferMetaDataPage::spinlock
  writer_pos,
  reader_pos,
  hdr,            \* the MPSCRingBufferHeader stored at each word
  time,           \* the timestamp in the event whose header is at each word
  owner,          \* history: start of the record that last wrote each word
  eventfd,        \* the eventfd has been written since the last read
  \* each writer
  pc, tail, at,
  pushes,
  \* the worker
  rpc,
  intermediate_reader_pos,
  head,           \* writer_pos when MPSCRingBufferReader was created
  inflight,       \* events read and not yet processed (event_queue)
  max_timestamp,  \* the most recent timestamp this round may process
  now,            \* PerfClock, less kMaxSampleLatency
  new_tail,       \* local of mpsc_rb_advance_if_possible
  new_events,
  stop,           \* POLLHUP: drain the ring buffer and exit
  \* history
  recs,           \* start positions of all published records
  delivered       \* start positions of the processed events

ring == <<lock, writer_pos, reader_pos, hdr, time, owner, eventfd>>
writer == <<pc, tail, at, pushes>>
worker == <<rpc, intermediate_reader_pos, head, inflight, max_timestamp,
            now, new_tail, new_events, stop>>
history == <<recs, delivered>>
vars == <<ring, writer, worker, history>>

kRingBufferAlignment == 8

align_up(x, pow2) == ((x + pow2 - 1) \div pow2) * pow2

\* Words of a record with an n byte payload, header (8 bytes) included.
RecLen(n) == align_up(n + 8, kRingBufferAlignment) \div kRingBufferAlignment

\* Offset of a position in the data area: pos & mask.
Linear(pos) == pos % Size

Offsets == 0 .. Size - 1

\* k_busy_bit and k_discard_bit are never both set: a header is born busy
\* and only a committed one is ever marked discarded.
HeaderState == {"busy", "committed", "discarded"}

Header(pos) == hdr[Linear(pos)]

End(pos) == pos + RecLen(Header(pos).size)

\* The words of the record at pos.
Words(pos) == {Linear(p) : p \in pos .. End(pos) - 1}

Init ==
  /\ lock = None
  /\ writer_pos = 0
  /\ reader_pos = 0
  /\ hdr = [o \in Offsets |-> [size |-> 0, state |-> "committed"]]
  /\ time = [o \in Offsets |-> 0]
  /\ owner = [o \in Offsets |-> -1]
  /\ eventfd = FALSE
  /\ pc = [w \in Writers |-> "idle"]
  /\ tail = [w \in Writers |-> 0]
  /\ at = [w \in Writers |-> 0]
  /\ pushes = 0
  /\ rpc = "poll"
  /\ intermediate_reader_pos = 0
  /\ head = 0
  /\ inflight = {}
  /\ max_timestamp = 0
  /\ now = 0
  /\ new_tail = 0
  /\ new_events = FALSE
  /\ stop = FALSE
  /\ recs = {}
  /\ delivered = {}

-----------------------------------------------------------------------------
(* Writers *)

\* MPSCRingBufferWriter's constructor, which caches reader_pos, and the
\* start of reserve: wait for the spinlock.
NewWriter(w) ==
  /\ pc[w] = "idle"
  /\ pushes < MaxPushes
  /\ pushes' = pushes + 1
  /\ pc' = [pc EXCEPT ![w] = "lock"]
  /\ tail' = [tail EXCEPT ![w] = reader_pos]
  /\ UNCHANGED <<ring, at, worker, history>>

\* SpinLock::try_lock_for takes the lock.
Lock(w) ==
  /\ pc[w] = "lock"
  /\ lock = None
  /\ lock' = w
  /\ pc' = [pc EXCEPT ![w] = "reserve"]
  /\ UNCHANGED <<writer_pos, reader_pos, hdr, time, owner, eventfd,
                 tail, at, pushes, worker, history>>

\* The MPSCRingBufferWriter of w is destroyed.
Return(w) ==
  /\ pc' = [pc EXCEPT ![w] = "idle"]
  /\ tail' = [tail EXCEPT ![w] = 0]
  /\ at' = [at EXCEPT ![w] = 0]

\* Mutant of LockTimeout: lock() instead of try_lock_for(k_lock_timeout).
LockForever(w) ==
  /\ pc[w] = "lock"
  /\ lock # None
  /\ UNCHANGED vars

\* try_lock_for gives up after k_lock_timeout: the event is lost.
LockTimeout(w) ==
  /\ pc[w] = "lock"
  /\ lock # None
  /\ Return(w)
  /\ UNCHANGED <<ring, pushes, worker, history>>

\* "Check that there is enough free space": mask < adjusted - _tail in
\* bytes is Size <= adjusted - tail in words.
Full(w, r) ==
  Size <= writer_pos + RecLen(r.n)
          + (IF r.hp THEN 0 ELSE HighPriorityArea) - tail[w]

\* Not enough space: reserve returns an empty buffer, the unique_lock is
\* released and the event is lost.
ReserveFull(w, r) ==
  /\ pc[w] = "reserve"
  /\ Full(w, r)
  /\ lock' = None
  /\ Return(w)
  /\ UNCHANGED <<writer_pos, reader_pos, hdr, time, owner, eventfd,
                 pushes, worker, history>>

\* Mark the sample as busy.
WriteHeader(w, r) ==
  /\ pc[w] = "reserve"
  /\ ~Full(w, r)
  /\ at' = [at EXCEPT ![w] = writer_pos]
  /\ hdr' = [hdr EXCEPT ![Linear(writer_pos)] =
               [size |-> r.n, state |-> "busy"]]
  /\ owner' = [owner EXCEPT ![Linear(writer_pos)] = writer_pos]
  /\ pc' = [pc EXCEPT ![w] = "publish"]
  /\ UNCHANGED <<lock, writer_pos, reader_pos, time, eventfd,
                 tail, pushes, worker, history>>

\* Release-store of the new writer_pos.
PublishPos(w) ==
  /\ pc[w] = "publish"
  /\ writer_pos' = End(at[w])
  /\ recs' = recs \cup {at[w]}
  /\ pc' = [pc EXCEPT ![w] = "unlock"]
  /\ UNCHANGED <<lock, reader_pos, hdr, time, owner, eventfd,
                 tail, at, pushes, worker, delivered>>

\* The unique_lock of reserve goes out of scope.
Unlock(w) ==
  /\ pc[w] = "unlock"
  /\ lock' = None
  /\ pc' = [pc EXCEPT ![w] = "fill"]
  /\ UNCHANGED <<writer_pos, reader_pos, hdr, time, owner, eventfd,
                 tail, at, pushes, worker, history>>

\* The caller writes its event, timestamp included, into the buffer.
Fill(w, t) ==
  /\ pc[w] = "fill"
  /\ time' = [time EXCEPT ![Linear(at[w])] = t]
  /\ owner' = [o \in Offsets |->
                 IF o \in Words(at[w]) THEN at[w] ELSE owner[o]]
  /\ pc' = [pc EXCEPT ![w] = "commit"]
  /\ UNCHANGED <<lock, writer_pos, reader_pos, hdr, eventfd,
                 tail, at, pushes, worker, history>>

\* commit_internal clears the busy bit with a release-store.
Commit(w) ==
  /\ pc[w] = "commit"
  /\ hdr' = [hdr EXCEPT ![Linear(at[w])] =
               [size |-> @.size, state |-> "committed"]]
  /\ pc' = [pc EXCEPT ![w] = "notify"]
  /\ UNCHANGED <<lock, writer_pos, reader_pos, time, owner, eventfd,
                 tail, at, pushes, worker, history>>

\* commit_internal compares reader_pos with the position of the event, and
\* its caller writes the eventfd when they are equal.
Notify(w) ==
  /\ pc[w] = "notify"
  /\ eventfd' = (eventfd \/ Linear(reader_pos) = Linear(at[w]))
  /\ Return(w)
  /\ UNCHANGED <<lock, writer_pos, reader_pos, hdr, time, owner,
                 pushes, worker, history>>

\* The process of the writer is killed: whatever it holds in the shared
\* mapping, the spinlock or a busy record, stays as it is.
Kill(w) ==
  /\ w \in Mortal
  /\ pc[w] \notin {"idle", "dead"}
  /\ pc' = [pc EXCEPT ![w] = "dead"]
  /\ UNCHANGED <<ring, tail, at, pushes, worker, history>>

WriterStep(w) ==
  \/ Lock(w) \/ LockTimeout(w)
  \/ (\E r \in Requests : ReserveFull(w, r) \/ WriteHeader(w, r))
  \/ PublishPos(w) \/ Unlock(w) \/ (\E t \in 0 .. MaxTime : Fill(w, t))
  \/ Commit(w) \/ Notify(w)

-----------------------------------------------------------------------------
(* The worker *)

\* Mutant of Wake: poll without a timeout, woken by the eventfd alone.
WakeByEventfd ==
  /\ rpc \in {"init", "poll"}
  /\ ~stop
  /\ eventfd
  /\ stop' \in {FALSE, MayStop}
  /\ rpc' = IF Reorder THEN "read" ELSE "open"
  /\ eventfd' = FALSE
  /\ max_timestamp' = IF stop' THEN MaxTime ELSE now
  /\ new_events' = FALSE
  /\ UNCHANGED <<lock, writer_pos, reader_pos, hdr, time, owner, writer,
                 intermediate_reader_pos, head, inflight, now, new_tail,
                 history>>

\* poll returns: either the eventfd is readable, and is read to flush it, or
\* k_poll_timeout expired, or the profiled process hung up.  A round of event
\* processing begins; after a hangup no event is too recent for it.
Wake ==
  /\ rpc \in {"init", "poll"}
  /\ ~stop
  /\ stop' \in {FALSE, MayStop}
  /\ rpc' = IF Reorder THEN "read" ELSE "open"
  /\ eventfd' = FALSE
  /\ max_timestamp' = IF stop' THEN MaxTime ELSE now
  /\ new_events' = FALSE
  /\ UNCHANGED <<lock, writer_pos, reader_pos, hdr, time, owner, writer,
                 intermediate_reader_pos, head, inflight, now, new_tail,
                 history>>

\* Unordered mode: the constructor of MPSCRingBufferReader takes a snapshot of
\* writer_pos, beyond which this pass does not read.
OpenReader ==
  /\ rpc = "open"
  /\ rpc' = "read"
  /\ head' = writer_pos
  /\ UNCHANGED <<ring, writer, intermediate_reader_pos, inflight,
                 max_timestamp, now, new_tail, new_events, stop, history>>

\* In ordered mode mpsc_rb_read_event loads writer_pos for every event.
Limit == IF Reorder THEN writer_pos ELSE head

\* Mutant of AtBusyOrEnd: the reader ignores the busy bit.
AtEnd == intermediate_reader_pos = Limit

AtBusyOrEnd ==
  \/ intermediate_reader_pos = Limit
  \/ Header(intermediate_reader_pos).state = "busy"

\* Mutant of ReadStop: a single pass over the ring buffer before polling.
ReadStopOnePass ==
  /\ rpc = "read"
  /\ AtBusyOrEnd
  /\ rpc' = "poll"
  /\ reader_pos' = intermediate_reader_pos
  /\ head' = 0
  /\ UNCHANGED <<lock, writer_pos, hdr, time, owner, eventfd, writer,
                 intermediate_reader_pos, inflight, max_timestamp, now,
                 new_tail, new_events, stop, history>>

\* mpsc_rb_read_sample finds nothing more to read.  In unordered mode the
\* MPSCRingBufferReader is destroyed, which releases what it has read; a pass
\* that found events is followed by another one, at once or, after
\* k_sample_default_wakeup, in the next iteration of worker_loop, which then
\* skips poll.
ReadStop ==
  /\ rpc = "read"
  /\ AtBusyOrEnd
  /\ IF Reorder
       THEN /\ rpc' = "process"
            /\ UNCHANGED <<reader_pos, new_events>>
       ELSE /\ rpc' \in IF new_events THEN {"open", "skip"} ELSE {"poll"}
            /\ reader_pos' = intermediate_reader_pos
            /\ new_events' = FALSE
  /\ head' = 0
  /\ UNCHANGED <<lock, writer_pos, hdr, time, owner, eventfd, writer,
                 intermediate_reader_pos, inflight, max_timestamp, now,
                 new_tail, stop, history>>

\* skip_poll: the next iteration neither polls nor reads the eventfd.
SkipPoll ==
  /\ rpc = "skip"
  /\ ~stop
  /\ rpc' = "open"
  /\ UNCHANGED <<ring, writer, intermediate_reader_pos, head, inflight,
                 max_timestamp, now, new_tail, new_events, stop, history>>

\* mpsc_rb_read_sample skips a discarded record.
ReadSkip ==
  /\ rpc = "read"
  /\ ~AtBusyOrEnd
  /\ Header(intermediate_reader_pos).state = "discarded"
  /\ intermediate_reader_pos' = End(intermediate_reader_pos)
  /\ UNCHANGED <<ring, writer, rpc, head, inflight, max_timestamp, now,
                 new_tail, new_events, stop, history>>

\* mpsc_rb_read_sample returns an event.  In ordered mode it is pushed in
\* event_queue, and reading stops at the first one that is too recent to be
\* processed in this round.
ReadEvent ==
  /\ rpc = "read"
  /\ ~AtBusyOrEnd
  /\ Header(intermediate_reader_pos).state # "discarded"
  /\ intermediate_reader_pos' = End(intermediate_reader_pos)
  /\ inflight' = inflight \cup {intermediate_reader_pos}
  /\ new_events' = TRUE
  /\ rpc' = IF ~Reorder THEN "use"
            ELSE IF time[Linear(intermediate_reader_pos)] > max_timestamp
                 THEN "process" ELSE "read"
  /\ UNCHANGED <<ring, writer, head, max_timestamp, now, new_tail, stop,
                 history>>

\* Unordered mode: ddprof_worker_process_event, then reader.advance().
UseEvent ==
  /\ rpc = "use"
  /\ delivered' = delivered \cup inflight
  /\ inflight' = {}
  /\ reader_pos' = intermediate_reader_pos
  /\ rpc' = "read"
  /\ UNCHANGED <<lock, writer_pos, hdr, time, owner, eventfd, writer,
                 intermediate_reader_pos, head, max_timestamp, now,
                 new_tail, new_events, stop, recs>>

TimeOf(pos) == time[Linear(pos)]

\* event_queue.top(): an event with the least timestamp.
IsTop(pos) ==
  pos \in inflight /\ \A q \in inflight : TimeOf(pos) <= TimeOf(q)

\* Ordered mode: ddprof_worker_process_event on event_queue.top(), then
\* mpsc_rb_advance_if_possible marks its header discarded.
ProcessTop(pos) ==
  /\ rpc = "process"
  /\ IsTop(pos)
  /\ TimeOf(pos) <= max_timestamp
  /\ delivered' = delivered \cup {pos}
  /\ inflight' = inflight \ {pos}
  /\ hdr' = [hdr EXCEPT ![Linear(pos)] =
               [size |-> @.size, state |-> "discarded"]]
  /\ new_tail' = reader_pos
  /\ rpc' = "advance"
  /\ UNCHANGED <<lock, writer_pos, reader_pos, time, owner, eventfd, writer,
                 intermediate_reader_pos, head, max_timestamp, now,
                 new_events, stop, recs>>

\* Mutant of CanAdvance: moves over every record that is not busy.
CanAdvanceOverCommitted ==
  new_tail < writer_pos /\ Header(new_tail).state # "busy"

CanAdvance ==
  new_tail < writer_pos /\ Header(new_tail).state = "discarded"

\* The loop of mpsc_rb_advance_if_possible over discarded records ...
AdvanceOver ==
  /\ rpc = "advance"
  /\ CanAdvance
  /\ new_tail' = End(new_tail)
  /\ UNCHANGED <<ring, writer, rpc, intermediate_reader_pos, head,
                 inflight, max_timestamp, now, new_events, stop, history>>

\* Mutant of AdvanceStore: everything read is released, as perf_rb_advance does.
AdvanceStoreAll ==
  /\ rpc = "advance"
  /\ ~CanAdvance
  /\ reader_pos' = intermediate_reader_pos
  /\ new_tail' = 0
  /\ rpc' = "process"
  /\ UNCHANGED <<lock, writer_pos, hdr, time, owner, eventfd, writer,
                 intermediate_reader_pos, head, inflight, max_timestamp,
                 now, new_events, stop, history>>

\* ... and its final store of reader_pos.
AdvanceStore ==
  /\ rpc = "advance"
  /\ ~CanAdvance
  /\ reader_pos' = new_tail
  /\ new_tail' = 0
  /\ rpc' = "process"
  /\ UNCHANGED <<lock, writer_pos, hdr, time, owner, eventfd, writer,
                 intermediate_reader_pos, head, inflight, max_timestamp,
                 now, new_events, stop, history>>

\* The top of the queue is too recent, or the queue is empty and either no event
\* was read or the deadline is reached: back to poll.
EndRound ==
  /\ rpc = "process"
  /\ \A q \in inflight : TimeOf(q) > max_timestamp
  /\ rpc' = "poll"
  /\ max_timestamp' = 0
  /\ new_events' = FALSE
  /\ UNCHANGED <<ring, writer, intermediate_reader_pos, head, inflight,
                 now, new_tail, stop, history>>

\* The queue was emptied, events were read and the deadline is not reached:
\* another round with a new value of now, without polling.
NextRound ==
  /\ rpc = "process"
  /\ inflight = {}
  /\ new_events
  /\ rpc' = "read"
  /\ max_timestamp' = IF stop THEN MaxTime ELSE now
  /\ new_events' = FALSE
  /\ UNCHANGED <<ring, writer, intermediate_reader_pos, head, inflight,
                 now, new_tail, stop, history>>

\* The worker exits after an export and its successor maps the ring buffer:
\* rb_init starts reading again from reader_pos.
RestartWorker ==
  /\ rpc \in {"poll", "skip"}
  /\ rpc' = "init"
  /\ intermediate_reader_pos' = reader_pos
  /\ inflight' = {}
  /\ stop' = FALSE
  /\ UNCHANGED <<ring, writer, head, max_timestamp, now, new_tail, new_events,
                 history>>

\* The worker process exits: what it kept outside of the mapping is gone.
Exit ==
  /\ rpc' = "stopped"
  /\ head' = 0
  /\ inflight' = {}
  /\ max_timestamp' = 0
  /\ new_tail' = 0
  /\ new_events' = FALSE
  /\ stop' = FALSE

\* ddprof_worker_process_event fails: the error ends the worker for good.
\* In unordered mode the reader's destructor still releases the event.
WorkerFails ==
  /\ MayStop
  /\ \/ /\ rpc = "use"
        /\ reader_pos' = intermediate_reader_pos
        /\ UNCHANGED intermediate_reader_pos
     \/ /\ rpc = "process"
        /\ \E q \in inflight : TimeOf(q) <= max_timestamp
        /\ intermediate_reader_pos' = reader_pos
        /\ UNCHANGED reader_pos
  /\ Exit
  /\ UNCHANGED <<lock, writer_pos, hdr, time, owner, eventfd, writer, now,
                 history>>

\* The worker leaves its loop: the profiled process hung up and the ring
\* buffer is drained, g_termination_requested is set, or an error occurred
\* outside of event processing.
WorkerTerminates ==
  /\ MayStop
  /\ rpc \in {"init", "poll", "skip"}
  /\ intermediate_reader_pos' = reader_pos
  /\ Exit
  /\ UNCHANGED <<ring, writer, now, history>>

\* PerfClock advances.
Tick ==
  /\ now < MaxTime
  /\ now' = now + 1
  /\ UNCHANGED <<ring, writer, rpc, intermediate_reader_pos, head,
                 inflight, max_timestamp, new_tail, new_events, stop, history>>

WorkerStep ==
  \/ Wake \/ OpenReader \/ SkipPoll \/ ReadStop \/ ReadSkip \/ ReadEvent \/ UseEvent
  \/ (\E pos \in inflight : ProcessTop(pos))
  \/ AdvanceOver \/ AdvanceStore \/ EndRound \/ NextRound

Next ==
  \/ \E w \in Writers : NewWriter(w)
  \/ \E w \in Writers : WriterStep(w)
  \/ \E w \in Writers : Kill(w)
  \/ WorkerStep
  \/ RestartWorker
  \/ WorkerFails
  \/ WorkerTerminates
  \/ Tick

Spec == Init /\ [][Next]_vars

\* Threads and the worker are scheduled and the clock runs; nothing forces a
\* new push, a kill or a restart.
FairSpec ==
  /\ Spec
  /\ \A w \in Writers : WF_vars(WriterStep(w))
  /\ WF_vars(WorkerStep)
  /\ WF_vars(Tick)

-----------------------------------------------------------------------------
(* Properties *)

WriterPc == {"idle", "lock", "reserve", "publish", "unlock", "fill",
             "commit", "notify", "dead"}

WorkerPc == {"init", "poll", "open", "read", "use", "skip",
             "process", "advance", "stopped"}

\* Types of the variables of the ring buffer, its writers and its reader.
TypeOK ==
  /\ lock \in Writers \cup {None}
  /\ writer_pos \in Nat /\ reader_pos \in Nat
  /\ hdr \in [Offsets -> [size : Nat, state : HeaderState]]
  /\ time \in [Offsets -> 0 .. MaxTime]
  /\ owner \in [Offsets -> Nat \cup {-1}]
  /\ eventfd \in BOOLEAN
  /\ pc \in [Writers -> WriterPc]
  /\ tail \in [Writers -> Nat] /\ at \in [Writers -> Nat]
  /\ pushes \in 0 .. MaxPushes
  /\ rpc \in WorkerPc
  /\ intermediate_reader_pos \in Nat /\ head \in Nat /\ new_tail \in Nat
  /\ max_timestamp \in 0 .. MaxTime /\ now \in 0 .. MaxTime
  /\ new_events \in BOOLEAN /\ stop \in BOOLEAN
  /\ inflight \subseteq Nat /\ recs \subseteq Nat /\ delivered \subseteq Nat

\* The three cursors of struct RingBuffer never cross ("intermediate_reader_pos
\* > reader_pos, part read by reader but not yet reflected to the writer"),
\* and the writers never lap the reader, even though each one checks for free
\* space against a reader_pos it cached before it waited for the lock.  The
\* code relies on the reader side of this: reader_pos is moved over headers
\* marked discarded without looking at intermediate_reader_pos.
CursorsOrdered ==
  /\ reader_pos <= intermediate_reader_pos
  /\ intermediate_reader_pos <= writer_pos
  /\ writer_pos - reader_pos < Size

\* Both read cursors stand on a record boundary, where the header found is the
\* one that the record published there wrote: the reader never takes payload
\* bytes, or what is left of an older lap, for a header.
HeadersFresh ==
  \A p \in {reader_pos, intermediate_reader_pos} :
    p < writer_pos => p \in recs /\ owner[Linear(p)] = p

\* An event the worker holds a pointer to (in event_queue, or being processed)
\* is complete and stays untouched in the ring buffer until it is released.
EventsIntact ==
  \A p \in inflight :
    /\ Header(p).state = "committed"
    /\ \A o \in Words(p) : owner[o] = p

\* No event is processed twice or skipped, even when a worker restart drops
\* its priority queue and reads again from reader_pos: what lies before
\* reader_pos has been processed, and nothing in flight has.
ExactlyOnce ==
  /\ \A p \in recs : p < reader_pos /\ rpc # "stopped" => p \in delivered
  /\ inflight \cap delivered = {}

\* In unordered mode a worker about to sleep in poll has read every committed
\* event, or the eventfd is or will be written: commit_internal's comparison
\* of reader_pos with the event's position never loses a wakeup, because a
\* pass that found events is always followed by another one.  (A worker that
\* has just been restarted instead of making that other pass is in "init" and
\* may have to wait for k_poll_timeout.)
NoLostWakeup ==
  /\ rpc = "poll"
  /\ intermediate_reader_pos # writer_pos
  /\ Header(intermediate_reader_pos).state # "busy"
  => \/ eventfd
     \/ \E w \in Writers : /\ pc[w] \in {"notify", "dead"}
                           /\ at[w] = intermediate_reader_pos

\* The events an EventChannel has accepted: those whose commit is visible.
sent == {p \in recs : p < reader_pos \/ Header(p).state # "busy"}

Channel == INSTANCE EventChannel WITH sent <- sent, delivered <- delivered

\* What the ring buffer promises, whatever the interleaving: commits send, each
\* event sent is processed at most once, and none is taken back.
ImplementsChannel == Channel!Spec

\* Published records that no unfinished record precedes: one whose writer was
\* killed before its commit blocks those behind it for good.
Deliverable ==
  {p \in recs : \A q \in recs \ delivered : q <= p => Header(q).state # "busy"}

\* The writers make at most MaxPushes pushes; from some point on, everything
\* they published has been processed, unless it lies behind the unfinished
\* record of a killed writer or the worker has stopped or seen the hangup that
\* makes it stop.  The timeout of poll makes up for the notifications that commit
\* does not send.
EventuallyDrained ==
  <>[](rpc = "stopped" \/ stop \/ Deliverable \subseteq delivered)

\* No push blocks its thread forever, even if another writer was killed while
\* it held the spinlock and the worker has stopped.
WritersReturn ==
  \A w \in Writers : pc[w] # "idle" ~> pc[w] \in {"idle", "dead"}

=============================================================================
