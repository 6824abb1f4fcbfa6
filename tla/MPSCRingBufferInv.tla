-------------------------- MODULE MPSCRingBufferInv --------------------------
(***************************************************************************)
(* The inductive invariant of MPSCRingBuffer, on which the proofs rest.    *)
(***************************************************************************)
EXTENDS MPSCRingBuffer

InCriticalSection == {"reserve", "publish", "unlock"}

\* Writers between reserve's release-store and the end of commit.
HasReserved == {"unlock", "fill", "commit"}

\* The spinlock protects reserve.
LockInv == \A w \in Writers : pc[w] \in InCriticalSection => lock = w

\* A cached reader_pos is never ahead of the real one.
TailInv == \A w \in Writers : tail[w] <= reader_pos

\* The header of the record being reserved lies outside of what the reader
\* looks at, and the record fits in the free space.
PublishInv ==
  \A w \in Writers : pc[w] = "publish" =>
    /\ at[w] = writer_pos
    /\ Header(at[w]).state = "busy"
    /\ owner[Linear(at[w])] = at[w]
    /\ End(at[w]) - reader_pos < Size

\* A reserved record stays ahead of reader_pos, and busy, until it is committed.
ReservedInv ==
  \A w \in Writers : pc[w] \in HasReserved =>
    /\ at[w] \in recs
    /\ reader_pos <= at[w]
    /\ Header(at[w]).state = "busy"

\* No two writers fill the same record.
DistinctInv ==
  \A v, w \in Writers :
    v # w /\ pc[v] \in HasReserved /\ pc[w] \in HasReserved => at[v] # at[w]

Boundary(p) == p \in recs \/ p = writer_pos

BoundaryInv ==
  /\ Boundary(reader_pos)
  /\ Boundary(intermediate_reader_pos)
  /\ \A p \in recs : p < writer_pos

\* The records from reader_pos to writer_pos are contiguous and have their own
\* headers.
RecordInv ==
  \A p \in recs : reader_pos <= p =>
    /\ owner[Linear(p)] = p
    /\ Boundary(End(p))
    /\ \A q \in recs : p < q => End(p) <= q

Owned(p) == \A i \in p .. End(p) - 1 : owner[Linear(i)] = p

\* The payload of a record that is filled is in place.
PayloadInv ==
  /\ \A p \in recs :
       reader_pos <= p /\ Header(p).state = "committed" => Owned(p)
  /\ \A w \in Writers : pc[w] = "commit" => Owned(at[w])

\* The records between the two read cursors are those in flight and those
\* already discarded.
InflightInv ==
  /\ \A p \in inflight :
       /\ p \in recs
       /\ reader_pos <= p
       /\ p < intermediate_reader_pos
       /\ Header(p).state = "committed"
  /\ \A p \in recs :
       reader_pos <= p /\ p < intermediate_reader_pos =>
         p \in inflight \/ Header(p).state = "discarded"

AdvanceInv ==
  rpc = "advance" =>
    /\ Boundary(new_tail)
    /\ reader_pos <= new_tail
    /\ new_tail <= intermediate_reader_pos
    /\ \A p \in recs : reader_pos <= p /\ p < new_tail =>
         Header(p).state = "discarded"

\* Why reader_pos cannot run past intermediate_reader_pos: either the record
\* there is not discarded, or the last event read is too recent to be
\* processed, hence discarded, in this round.
BarrierInv ==
  rpc \in {"process", "advance"} =>
    \/ intermediate_reader_pos = writer_pos
    \/ Header(intermediate_reader_pos).state # "discarded"
    \/ \E r \in inflight : /\ TimeOf(r) > max_timestamp
                           /\ End(r) = intermediate_reader_pos

DeliveryInv ==
  /\ delivered \subseteq recs
  /\ rpc # "stopped" => \A p \in recs : p < reader_pos => p \in delivered
  /\ \A p \in recs : reader_pos <= p =>
       (p \in delivered <=> Header(p).state = "discarded")

\* The part of the ring buffer that a pass of the unordered mode reads.
HeadInv ==
  rpc \in {"read", "use"} /\ ~Reorder =>
    /\ Boundary(head)
    /\ intermediate_reader_pos <= head
    /\ head <= writer_pos

ModeInv ==
  /\ rpc \in {"process", "advance"} => Reorder
  /\ rpc \in {"open", "use", "skip"} => ~Reorder
  /\ rpc # "use" /\ ~Reorder => inflight = {}
  /\ rpc = "use" => \E p \in recs : inflight = {p}

IInv ==
  /\ TypeOK /\ CursorsOrdered
  /\ LockInv /\ TailInv /\ PublishInv /\ ReservedInv /\ DistinctInv
  /\ BoundaryInv /\ HeadInv /\ RecordInv /\ PayloadInv
  /\ InflightInv /\ AdvanceInv /\ BarrierInv /\ DeliveryInv /\ ModeInv

\* The first event that is not read yet is complete, and the eventfd is or will be
\* written because of it, unless its writer is killed first.
Pending == intermediate_reader_pos # writer_pos /\ Header(intermediate_reader_pos).state # "busy"

Woken ==
  eventfd \/ \E w \in Writers : pc[w] \in {"notify", "dead"} /\ at[w] = intermediate_reader_pos

\* The unordered mode: both read cursors agree whenever a writer may compare its
\* position with reader_pos, and an event that came after the pass has begun, at the
\* place where it has to begin, wakes the worker up.
WakeInv ==
  /\ \A o \in Offsets : hdr[o].state # "discarded"
  /\ rpc # "use" => reader_pos = intermediate_reader_pos
  /\ rpc = "use" => new_events
  /\ rpc = "poll" \/ (rpc = "read" /\ ~new_events /\ intermediate_reader_pos = head) =>
       (Pending => Woken)

=============================================================================
