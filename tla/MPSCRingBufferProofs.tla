------------------------ MODULE MPSCRingBufferProofs ------------------------
(***************************************************************************)
(* Proofs about MPSCRingBuffer, for any number of writers, any buffer size *)
(* and any record sizes: the cursors never cross, headers and events are   *)
(* never overwritten while the reader may look at them, and every event is *)
(* processed exactly once, so that the ring buffer implements              *)
(* EventChannel.  First come the arithmetic of positions and offsets, type *)
(* correctness, and the steps of the writers, one lemma per action; then   *)
(* those of the worker, and the theorems.                                  *)
(***************************************************************************)
EXTENDS MPSCRingBufferInv, TLAPS

\* Every record takes at least one word.
LEMMA RecLenPositive ==
  ASSUME NEW n \in Nat
  PROVE  RecLen(n) \in Nat /\ RecLen(n) >= 1
BY DEF RecLen, align_up, kRingBufferAlignment

\* pos & mask is an offset in the data area.
LEMMA LinearInRange ==
  ASSUME NEW a \in Nat
  PROVE  Linear(a) \in Offsets
BY SizeAssumption DEF Linear, Offsets

\* A multiple of s is s or more, or not positive: there is none in between.
LEMMA ProductBounds ==
  ASSUME NEW s \in Nat, NEW k \in Int
  PROVE  /\ k >= 1 => s * k >= s
         /\ k <= 0 => s * k <= 0
<1>1. ASSUME k >= 1 PROVE s * k >= s
  <2> DEFINE j == k - 1
  <2>1. j \in Nat /\ k = j + 1
    BY <1>1
  <2> HIDE DEF j
  <2>2. s * k = s * j + s
    BY <2>1
  <2>3. s * j \in Nat
    BY <2>1
  <2> QED
    BY <2>2, <2>3
<1>2. ASSUME k <= 0 PROVE s * k <= 0
  <2> DEFINE j == -k
  <2>1. j \in Nat /\ k = -j
    BY <1>2
  <2> HIDE DEF j
  <2>2. s * k = -(s * j)
    BY <2>1
  <2>3. s * j \in Nat
    BY <2>1
  <2> QED
    BY <2>2, <2>3
<1> QED
  BY <1>1, <1>2, Zenon

\* Two positions less than a lap apart never share an offset.
LEMMA LinearInjective ==
  ASSUME NEW a \in Nat, NEW b \in Nat, a < b, b - a < Size
  PROVE  Linear(a) # Linear(b)
<1> DEFINE q == a \div Size
           r == b \div Size
<1>1. q \in Int /\ a = Size * q + (a % Size)
  BY SizeAssumption
<1>2. r \in Int /\ b = Size * r + (b % Size)
  BY SizeAssumption
<1> HIDE DEF q, r
<1>3. SUFFICES ASSUME a % Size = b % Size PROVE FALSE
  BY Zenon DEF Linear
<1>4. b - a = Size * (r - q)
  BY <1>1, <1>2, <1>3, SizeAssumption
<1>5. /\ r - q >= 1 => Size * (r - q) >= Size
      /\ r - q <= 0 => Size * (r - q) <= 0
  BY <1>1, <1>2, ProductBounds, SizeAssumption
<1> QED
  BY <1>1, <1>2, <1>4, <1>5, SizeAssumption

\* A header found in the data area leads to a later position.
LEMMA EndType ==
  ASSUME TypeOK, NEW p \in Nat
  PROVE  /\ Linear(p) \in Offsets
         /\ Header(p) \in [size : Nat, state : HeaderState]
         /\ End(p) \in Nat
         /\ End(p) > p
<1>1. Linear(p) \in Offsets
  BY LinearInRange, Zenon
<1>2. Header(p) \in [size : Nat, state : HeaderState]
  BY <1>1, Zenon DEF TypeOK, Header
<1>3. RecLen(Header(p).size) \in Nat /\ RecLen(Header(p).size) >= 1
  BY <1>2, RecLenPositive, Zenon
<1> QED
  BY <1>1, <1>2, <1>3 DEF End

-----------------------------------------------------------------------------
(* Types *)

\* An empty ring buffer has the types.
LEMMA TypeInit == Init => TypeOK
<1> SUFFICES ASSUME Init PROVE TypeOK
  BY Zenon
<1> USE BoundsAssumption DEF Init
<1>1. hdr \in [Offsets -> [size : Nat, state : HeaderState]]
  BY Zenon DEF HeaderState
<1>2. time \in [Offsets -> 0 .. MaxTime]
  OBVIOUS
<1>3. owner \in [Offsets -> Nat \cup {-1}]
  BY Zenon
<1>4. pc \in [Writers -> WriterPc]
  BY Zenon DEF WriterPc
<1>5. tail \in [Writers -> Nat] /\ at \in [Writers -> Nat]
  BY Zenon
<1>6. eventfd \in BOOLEAN /\ new_events \in BOOLEAN /\ stop \in BOOLEAN
  BY Zenon
<1>7. inflight \subseteq Nat /\ recs \subseteq Nat /\ delivered \subseteq Nat
  BY Zenon
<1>8. pushes \in 0 .. MaxPushes /\ max_timestamp \in 0 .. MaxTime
      /\ now \in 0 .. MaxTime
  OBVIOUS
<1>9. writer_pos \in Nat /\ reader_pos \in Nat /\ new_tail \in Nat
      /\ intermediate_reader_pos \in Nat /\ lock \in Writers \cup {None}
  BY Zenon
<1>10. rpc \in WorkerPc
  BY Zenon DEF WorkerPc
<1> QED
  BY <1>1, <1>2, <1>3, <1>4, <1>5, <1>6, <1>7, <1>8, <1>9, <1>10, Zenon
     DEF TypeOK

\* Every step of a writer or of the reader keeps the types.
LEMMA TypeNext == TypeOK /\ [Next]_vars => TypeOK'
<1> SUFFICES ASSUME TypeOK, [Next]_vars PROVE TypeOK'
  BY Zenon
<1> USE DEF TypeOK, ring, writer, worker, history
<1>1. ASSUME NEW w \in Writers, NewWriter(w) PROVE TypeOK'
  BY <1>1, BoundsAssumption DEF NewWriter, WriterPc
<1>2. ASSUME NEW w \in Writers, Lock(w) PROVE TypeOK'
  BY <1>2, Zenon DEF Lock, WriterPc
<1>3. ASSUME NEW w \in Writers, LockTimeout(w) PROVE TypeOK'
  BY <1>3, Zenon DEF LockTimeout, Return, WriterPc
<1>4. ASSUME NEW w \in Writers, NEW r \in Requests, ReserveFull(w, r)
      PROVE  TypeOK'
  BY <1>4, Zenon DEF ReserveFull, Return, WriterPc
<1>5. ASSUME NEW w \in Writers, NEW r \in Requests, WriteHeader(w, r)
      PROVE  TypeOK'
  <2>1. Linear(writer_pos) \in Offsets
    BY LinearInRange, Zenon
  <2>2. r.n \in Nat
    BY RequestsAssumption, Zenon
  <2> QED
    BY <1>5, <2>1, <2>2, Zenon DEF WriteHeader, WriterPc, HeaderState
<1>6. ASSUME NEW w \in Writers, PublishPos(w) PROVE TypeOK'
  <2>1. at[w] \in Nat /\ End(at[w]) \in Nat
    BY EndType, Zenon
  <2> QED
    BY <1>6, <2>1, Zenon DEF PublishPos, WriterPc
<1>7. ASSUME NEW w \in Writers, Unlock(w) PROVE TypeOK'
  BY <1>7, Zenon DEF Unlock, WriterPc
<1>8. ASSUME NEW w \in Writers, NEW t \in 0 .. MaxTime, Fill(w, t)
      PROVE  TypeOK'
  BY <1>8, Zenon DEF Fill, WriterPc
<1>9. ASSUME NEW w \in Writers, Commit(w) PROVE TypeOK'
  <2>1. Linear(at[w]) \in Offsets
    BY LinearInRange, Zenon
  <2> QED
    BY <1>9, <2>1, Zenon DEF Commit, WriterPc, HeaderState
<1>10. ASSUME NEW w \in Writers, Notify(w) PROVE TypeOK'
  BY <1>10, Zenon DEF Notify, Return, WriterPc
<1>11. ASSUME NEW w \in Writers, Kill(w) PROVE TypeOK'
  BY <1>11, Zenon DEF Kill, WriterPc
<1>12. CASE Wake
  <2>1. max_timestamp' \in 0 .. MaxTime
    BY <1>12, BoundsAssumption DEF Wake
  <2>2. stop' \in BOOLEAN
    BY <1>12, ReaderAssumption, Zenon DEF Wake
  <2> QED
    BY <1>12, <2>1, <2>2, Zenon DEF Wake, WorkerPc
<1>13. CASE ReadStop
  <2>1. rpc' \in WorkerPc
    BY <1>13, Zenon DEF ReadStop, WorkerPc
  <2> QED
    BY <1>13, <2>1, Zenon DEF ReadStop
<1>14. CASE ReadSkip
  BY <1>14, EndType, Zenon DEF ReadSkip
<1>15. CASE ReadEvent
  <2>1. End(intermediate_reader_pos) \in Nat
    BY EndType, Zenon
  <2> QED
    BY <1>15, <2>1, Zenon DEF ReadEvent, WorkerPc
<1>16. CASE UseEvent
  BY <1>16, Zenon DEF UseEvent, WorkerPc
<1>17. ASSUME NEW pos \in inflight, ProcessTop(pos) PROVE TypeOK'
  <2>1. Linear(pos) \in Offsets
    BY LinearInRange, Zenon
  <2> QED
    BY <1>17, <2>1, Zenon DEF ProcessTop, WorkerPc, HeaderState
<1>18. CASE AdvanceOver
  BY <1>18, EndType, Zenon DEF AdvanceOver
<1>19. CASE AdvanceStore
  BY <1>19, Zenon DEF AdvanceStore, WorkerPc
<1>20. CASE EndRound
  <2>1. max_timestamp' \in 0 .. MaxTime
    BY <1>20, BoundsAssumption DEF EndRound
  <2> QED
    BY <1>20, <2>1, Zenon DEF EndRound, WorkerPc
<1>21. CASE NextRound
  <2>1. max_timestamp' \in 0 .. MaxTime
    BY <1>21, BoundsAssumption DEF NextRound
  <2> QED
    BY <1>21, <2>1, Zenon DEF NextRound, WorkerPc
<1>22. CASE RestartWorker
  BY <1>22, Zenon DEF RestartWorker, WorkerPc
<1>23. CASE WorkerFails
  <2>1. max_timestamp' \in 0 .. MaxTime /\ new_tail' \in Nat
    BY <1>23, BoundsAssumption DEF WorkerFails, Exit
  <2> QED
    BY <1>23, <2>1, Zenon DEF WorkerFails, Exit, WorkerPc
<1>24. CASE WorkerTerminates
  <2>1. max_timestamp' \in 0 .. MaxTime /\ new_tail' \in Nat
    BY <1>24, BoundsAssumption DEF WorkerTerminates, Exit
  <2> QED
    BY <1>24, <2>1, Zenon DEF WorkerTerminates, Exit, WorkerPc
<1>25. CASE Tick
  BY <1>25, BoundsAssumption DEF Tick
<1>26. CASE UNCHANGED vars
  BY <1>26, Zenon DEF vars
<1>27. CASE OpenReader
  BY <1>27, Zenon DEF OpenReader, WorkerPc
<1>28. CASE SkipPoll
  BY <1>28, Zenon DEF SkipPoll, WorkerPc
<1> QED
  BY <1>1, <1>2, <1>3, <1>4, <1>5, <1>6, <1>7, <1>8, <1>9, <1>10, <1>11,
     <1>12, <1>13, <1>14, <1>15, <1>16, <1>17, <1>18, <1>19, <1>20, <1>21,
     <1>22, <1>23, <1>24, <1>25, <1>26, <1>27, <1>28, Zenon
     DEF Next, WriterStep, WorkerStep

\* Every variable of the ring buffer, its writers and its reader keeps its type.
THEOREM TypeCorrect == Spec => []TypeOK
BY TypeInit, TypeNext, PTL DEF Spec

-----------------------------------------------------------------------------
(* The live part of the data area *)

\* Offsets are distinct from reader_pos up to and including writer_pos.
LEMMA WindowInjective ==
  ASSUME TypeOK, CursorsOrdered,
         NEW i \in reader_pos .. writer_pos, NEW j \in reader_pos .. writer_pos,
         Linear(i) = Linear(j)
  PROVE  i = j
<1>1. i \in Nat /\ j \in Nat /\ reader_pos \in Nat /\ writer_pos \in Nat
  BY DEF TypeOK
<1>2. i - j < Size /\ j - i < Size
  BY <1>1, SizeAssumption DEF CursorsOrdered
<1> QED
  BY <1>1, <1>2, LinearInjective

\* A record the reader has not released ends in the published area.
LEMMA RecordEnd ==
  ASSUME TypeOK, BoundaryInv, RecordInv, NEW p \in recs, reader_pos <= p
  PROVE  p \in Nat /\ End(p) \in Nat /\ p < End(p) /\ End(p) <= writer_pos
<1>1. p \in Nat /\ writer_pos \in Nat
  BY Zenon DEF TypeOK
<1>2. End(p) \in Nat /\ End(p) > p
  BY <1>1, EndType, Zenon
<1>3. End(p) = writer_pos \/ End(p) \in recs
  BY Zenon DEF RecordInv, Boundary
<1> QED
  BY <1>1, <1>2, <1>3 DEF BoundaryInv

\* From a boundary in the published area there is a record to read.
LEMMA BoundaryStep ==
  ASSUME TypeOK, BoundaryInv, RecordInv,
         NEW p \in Nat, Boundary(p), reader_pos <= p, p < writer_pos
  PROVE  /\ p \in recs
         /\ Boundary(End(p))
         /\ End(p) <= writer_pos
         /\ End(p) \in Nat
         /\ p < End(p)
         /\ \A q \in recs : p < q => End(p) <= q
<1>1. p \in recs
  BY DEF Boundary, TypeOK
<1>2. End(p) \in Nat /\ p < End(p) /\ End(p) <= writer_pos
  BY <1>1, RecordEnd, Zenon
<1> QED
  BY <1>1, <1>2, Zenon DEF RecordInv

\* The header written by reserve overwrites nothing that is live.
LEMMA WriteHeaderRecords ==
  ASSUME IInv, TypeOK', NEW w \in Writers, NEW r \in Requests,
         WriteHeader(w, r)
  PROVE  /\ PublishInv' /\ RecordInv' /\ PayloadInv' /\ InflightInv'
         /\ AdvanceInv' /\ BarrierInv' /\ DeliveryInv'
         /\ \A p \in recs : reader_pos <= p => Header(p)' = Header(p)
<1> USE DEF IInv
<1>1. /\ writer_pos \in Nat /\ reader_pos \in Nat /\ recs \subseteq Nat
      /\ reader_pos <= writer_pos
  BY DEF TypeOK, CursorsOrdered
<1>2. \A i \in reader_pos .. writer_pos - 1 : Linear(i) # Linear(writer_pos)
  <2> SUFFICES ASSUME NEW i \in reader_pos .. writer_pos - 1,
                      Linear(i) = Linear(writer_pos)
               PROVE  FALSE
    BY Zenon
  <2>1. /\ i \in reader_pos .. writer_pos
        /\ writer_pos \in reader_pos .. writer_pos
        /\ i # writer_pos
    BY <1>1
  <2> QED
    BY <2>1, WindowInjective, Zenon
<1>3. \A p \in recs : reader_pos <= p =>
        Linear(p) # Linear(writer_pos) /\ Linear(p) \in Offsets
  BY <1>1, <1>2, LinearInRange DEF BoundaryInv
<1>4. /\ hdr' = [hdr EXCEPT ![Linear(writer_pos)] =
                  [size |-> r.n, state |-> "busy"]]
      /\ owner' = [owner EXCEPT ![Linear(writer_pos)] = writer_pos]
      /\ Linear(writer_pos) \in Offsets
      /\ UNCHANGED <<writer_pos, reader_pos, time, recs, delivered, worker>>
  BY <1>1, LinearInRange, Zenon DEF WriteHeader, history
<1>5. \A p \in recs : reader_pos <= p =>
        /\ Header(p)' = Header(p)
        /\ End(p)' = End(p)
        /\ owner'[Linear(p)] = owner[Linear(p)]
  BY <1>3, <1>4, Zenon DEF Header, End, TypeOK
<1>6. PublishInv'
  <2>1. \A v \in Writers : pc'[v] = "publish" => v = w
    BY Zenon DEF WriteHeader, LockInv, InCriticalSection, TypeOK
  <2>2. /\ at'[w] = writer_pos
        /\ Header(writer_pos)' = [size |-> r.n, state |-> "busy"]
        /\ owner'[Linear(writer_pos)] = writer_pos
    BY <1>4, Zenon DEF WriteHeader, TypeOK, Header
  <2>3. RecLen(r.n) \in Nat /\ End(writer_pos)' = writer_pos + RecLen(r.n)
    BY <2>2, <1>4, RequestsAssumption, RecLenPositive DEF End
  <2>4. writer_pos + RecLen(r.n) - tail[w] < Size
    BY <1>1, <2>3, SizeAssumption, AreaAssumption DEF WriteHeader, Full, TypeOK
  <2>5. writer_pos + RecLen(r.n) - reader_pos < Size
    BY <1>1, <2>3, <2>4, SizeAssumption DEF TailInv, TypeOK
  <2>6. /\ Header(at[w])'.state = "busy"
        /\ owner'[Linear(at'[w])] = at'[w]
        /\ End(at[w])' - reader_pos' < Size
        /\ at'[w] = writer_pos'
    BY <1>1, <2>2, <2>3, <2>5, <1>4 DEF Header, End
  <2> QED
    BY <2>1, <2>6, Zenon DEF PublishInv
<1>7. RecordInv'
  BY <1>4, <1>5, Zenon DEF RecordInv, Boundary
<1>8. PayloadInv'
  <2>1. ASSUME NEW p \in recs, reader_pos <= p, Owned(p) PROVE Owned(p)'
    <3>1. End(p) <= writer_pos /\ p \in Nat /\ End(p) \in Nat
      BY <2>1, RecordEnd, Zenon
    <3>2. ASSUME NEW i \in p .. End(p) - 1 PROVE owner'[Linear(i)] = p
      <4>1. i \in reader_pos .. writer_pos - 1 /\ i \in Nat
        BY <3>1, <2>1, <1>1
      <4>2. Linear(i) # Linear(writer_pos) /\ Linear(i) \in Offsets
        BY <4>1, <1>2, LinearInRange, Zenon
      <4> QED
        BY <4>2, <1>4, <2>1, Zenon DEF Owned, TypeOK
    <3> QED
      BY <3>2, <1>5, <2>1, Zenon DEF Owned
  <2>2. \A v \in Writers : pc'[v] = "commit" => pc[v] = "commit" /\ at'[v] = at[v]
    BY Zenon DEF WriteHeader, TypeOK
  <2> QED
    BY <2>1, <2>2, <1>4, <1>5, Zenon DEF PayloadInv, ReservedInv, HasReserved
<1>9. InflightInv'
  BY <1>4, <1>5, Zenon DEF InflightInv, worker
<1>60. AdvanceInv'
  BY <1>4, <1>5, Zenon DEF AdvanceInv, worker, Boundary
<1>61. BarrierInv'
  <2>1. intermediate_reader_pos # writer_pos => intermediate_reader_pos \in recs
    BY Zenon DEF BoundaryInv, Boundary
  <2> QED
    BY <1>4, <1>5, <2>1, Zenon
       DEF BarrierInv, worker, InflightInv, TimeOf, CursorsOrdered
<1>62. DeliveryInv'
  BY <1>4, <1>5, Zenon DEF DeliveryInv, worker
<1> QED
  BY <1>5, <1>6, <1>7, <1>8, <1>9, <1>60, <1>61, <1>62, Zenon

\* Publishing a record keeps it within a lap of the reader.
LEMMA PublishCursors ==
  ASSUME IInv, TypeOK', NEW w \in Writers, PublishPos(w)
  PROVE  CursorsOrdered' /\ BoundaryInv' /\ HeadInv'
<1> USE DEF IInv
<1>1. /\ at[w] = writer_pos /\ writer_pos' = End(writer_pos)
      /\ recs' = recs \cup {writer_pos}
      /\ UNCHANGED <<reader_pos, intermediate_reader_pos>>
      /\ End(writer_pos) - reader_pos < Size
  BY Zenon DEF PublishPos, PublishInv, worker
<1>2. /\ writer_pos \in Nat
      /\ End(writer_pos) \in Nat /\ End(writer_pos) > writer_pos
  <2>1. TypeOK /\ writer_pos \in Nat
    BY Zenon DEF TypeOK
  <2> QED
    BY <2>1, EndType, Zenon
<1>3. CursorsOrdered'
  BY <1>1, <1>2 DEF CursorsOrdered, TypeOK
<1>4. BoundaryInv'
  BY <1>1, <1>2 DEF BoundaryInv, Boundary, TypeOK
<1>5. HeadInv'
  <2>1. UNCHANGED <<rpc, head>> /\ head \in Nat
    BY Zenon DEF PublishPos, worker, TypeOK
  <2> QED
    BY <1>1, <1>2, <2>1 DEF HeadInv, Boundary
<1> QED
  BY <1>3, <1>4, <1>5, Zenon

\* The payload written by a writer stays within its own record.
LEMMA FillRecords ==
  ASSUME IInv, TypeOK', NEW w \in Writers, NEW t \in 0 .. MaxTime, Fill(w, t)
  PROVE  PublishInv' /\ RecordInv' /\ PayloadInv'
<1> USE DEF IInv
<1>1. at[w] \in recs /\ reader_pos <= at[w] /\ pc[w] = "fill"
  BY Zenon DEF ReservedInv, HasReserved, Fill
<1>2. /\ at[w] \in Nat /\ End(at[w]) \in Nat
      /\ at[w] < End(at[w]) /\ End(at[w]) <= writer_pos
      /\ reader_pos \in Nat /\ writer_pos \in Nat
  BY <1>1, RecordEnd, Zenon DEF TypeOK
<1>3. /\ UNCHANGED <<writer_pos, reader_pos, hdr, recs, at>>
      /\ owner' = [o \in Offsets |->
                    IF o \in Words(at[w]) THEN at[w] ELSE owner[o]]
      /\ pc' = [pc EXCEPT ![w] = "commit"]
  BY Zenon DEF Fill, history
<1>4. \A i \in reader_pos .. writer_pos :
        owner'[Linear(i)] = IF i \in at[w] .. End(at[w]) - 1
                            THEN at[w] ELSE owner[Linear(i)]
  <2> TAKE i \in reader_pos .. writer_pos
  <2>1. Linear(i) \in Offsets
    BY <1>2, LinearInRange
  <2>2. Linear(i) \in Words(at[w]) <=> i \in at[w] .. End(at[w]) - 1
    <3>1. ASSUME NEW j \in at[w] .. End(at[w]) - 1, Linear(i) = Linear(j)
          PROVE  i = j
      <4>1. j \in reader_pos .. writer_pos
        BY <1>1, <1>2
      <4> QED
        BY <3>1, <4>1, WindowInjective, Zenon
    <3> QED
      BY <3>1, Zenon DEF Words
  <2> QED
    BY <1>3, <2>1, <2>2, Zenon
<1>5. PublishInv'
  <2> SUFFICES ASSUME NEW v \in Writers, pc'[v] = "publish"
               PROVE  owner'[Linear(at[v])] = at[v] /\ pc[v] = "publish"
    BY <1>3, Zenon DEF PublishInv, Header, End
  <2>1. /\ pc[v] = "publish" /\ at[v] = writer_pos
        /\ owner[Linear(at[v])] = at[v]
    BY <1>3, Zenon DEF PublishInv, TypeOK
  <2>2. /\ writer_pos \in reader_pos .. writer_pos
        /\ writer_pos \notin at[w] .. End(at[w]) - 1
    BY <1>2 DEF CursorsOrdered, TypeOK
  <2> QED
    BY <2>1, <2>2, <1>4, Zenon
<1>6. RecordInv'
  <2>1. ASSUME NEW p \in recs, reader_pos <= p PROVE owner'[Linear(p)] = p
    <3>1. p \in reader_pos .. writer_pos /\ owner[Linear(p)] = p /\ p \in Nat
      BY <2>1, <1>2 DEF BoundaryInv, RecordInv, TypeOK
    <3>2. p \in at[w] .. End(at[w]) - 1 => p = at[w]
      BY <1>1, <1>2, <3>1 DEF RecordInv
    <3> QED
      BY <3>1, <3>2, <1>4, Zenon
  <2> QED
    BY <2>1, <1>3, Zenon DEF RecordInv, Header, End, Boundary
<1>7. PayloadInv'
  <2>1. ASSUME NEW p \in recs, reader_pos <= p, p # at[w], Owned(p)
        PROVE  Owned(p)'
    <3>1. p \in Nat /\ End(p) \in Nat /\ End(p) <= writer_pos
      BY <2>1, RecordEnd, Zenon
    <3>2. ASSUME NEW i \in p .. End(p) - 1 PROVE owner'[Linear(i)] = p
      <4>1. i \in reader_pos .. writer_pos
        BY <3>1, <2>1, <1>2
      <4>2. ~ i \in at[w] .. End(at[w]) - 1
        BY <2>1, <3>1, <1>1, <1>2 DEF RecordInv
      <4> QED
        BY <4>1, <4>2, <1>4, <2>1, Zenon DEF Owned
    <3> QED
      BY <3>2, <1>3, Zenon DEF Owned, End, Header
  <2>2. Owned(at[w])'
    <3>1. ASSUME NEW i \in at[w] .. End(at[w]) - 1
          PROVE  owner'[Linear(i)] = at[w]
      <4>1. i \in reader_pos .. writer_pos
        BY <1>1, <1>2
      <4> QED
        BY <4>1, <1>4, Zenon
    <3> QED
      BY <3>1, <1>3, Zenon DEF Owned, End, Header
  <2>3. \A p \in recs :
          reader_pos <= p /\ Header(p)'.state = "committed" => Owned(p)'
    BY <2>1, <2>2, <1>3, Zenon DEF PayloadInv, Header
  <2>4. ASSUME NEW v \in Writers, pc'[v] = "commit" PROVE Owned(at[v])'
    <3>1. CASE v = w
      BY <3>1, <2>2, Zenon
    <3>2. CASE v # w
      <4>1. pc[v] = "commit"
        BY <3>2, <2>4, <1>3, Zenon DEF TypeOK
      <4>2. /\ at[v] \in recs /\ reader_pos <= at[v]
            /\ at[v] # at[w] /\ Owned(at[v])
        BY <4>1, <3>2, <1>1, Zenon
           DEF ReservedInv, DistinctInv, PayloadInv, HasReserved
      <4> QED
        BY <4>2, <2>1, <1>3, Zenon DEF Owned, End, Header
    <3> QED
      BY <3>1, <3>2, Zenon
  <2> QED
    BY <2>3, <2>4, <1>3, Zenon DEF PayloadInv, Header
<1> QED
  BY <1>5, <1>6, <1>7, Zenon

\* A change of state in the header of a live record leaves every other live
\* header, and the one being reserved, as they are.
LEMMA OwnHeaderOnly ==
  ASSUME IInv, NEW x \in recs, reader_pos <= x, NEW s \in HeaderState,
         hdr' = [hdr EXCEPT ![Linear(x)] = [size |-> @.size, state |-> s]]
  PROVE  /\ \A p \in Nat : hdr'[Linear(p)].size = hdr[Linear(p)].size
         /\ \A p \in recs : reader_pos <= p /\ p # x =>
              hdr'[Linear(p)] = hdr[Linear(p)]
         /\ \A w \in Writers : pc[w] = "publish" =>
              hdr'[Linear(at[w])] = hdr[Linear(at[w])]
         /\ hdr'[Linear(x)].state = s
<1> USE DEF IInv
<1>1. \A p \in Nat : Linear(p) \in Offsets
  BY LinearInRange, Zenon
<1>2. x \in Nat /\ recs \subseteq Nat /\ at \in [Writers -> Nat]
  BY Zenon DEF TypeOK
<1>3. hdr \in [Offsets -> [size : Nat, state : HeaderState]]
  BY Zenon DEF TypeOK
<1>4. owner[Linear(x)] = x
  BY Zenon DEF RecordInv
<1>5. \A p \in recs : reader_pos <= p /\ p # x => Linear(p) # Linear(x)
  BY <1>4, Zenon DEF RecordInv
<1>6. \A w \in Writers : pc[w] = "publish" => Linear(at[w]) # Linear(x)
  BY <1>2, <1>4 DEF PublishInv, BoundaryInv
<1>7. \A p \in Nat : hdr'[Linear(p)].size = hdr[Linear(p)].size
  BY <1>1, <1>2, <1>3, Zenon
<1>8. \A p \in recs : reader_pos <= p /\ p # x =>
        hdr'[Linear(p)] = hdr[Linear(p)]
  BY <1>1, <1>2, <1>3, <1>5, Zenon
<1>9. \A w \in Writers : pc[w] = "publish" =>
        hdr'[Linear(at[w])] = hdr[Linear(at[w])]
  BY <1>1, <1>2, <1>3, <1>6, Zenon
<1> QED
  BY <1>1, <1>2, <1>3, <1>7, <1>8, <1>9, Zenon

-----------------------------------------------------------------------------
(* The steps of a writer *)

\* The part of type correctness that the steps below need.
LEMMA PositionTypes ==
  IInv => /\ recs \subseteq Nat /\ inflight \subseteq Nat
          /\ at \in [Writers -> Nat] /\ tail \in [Writers -> Nat] /\ pc \in [Writers -> WriterPc]
          /\ reader_pos \in Nat /\ writer_pos \in Nat
          /\ intermediate_reader_pos \in Nat /\ new_tail \in Nat
BY Zenon DEF IInv, TypeOK

\* A new writer caches the current reader_pos.
LEMMA NewWriterPreserves ==
  ASSUME IInv, TypeOK', NEW w \in Writers, NewWriter(w)
  PROVE  IInv'
<1>1. /\ CursorsOrdered' /\ BoundaryInv' /\ HeadInv' /\ RecordInv'
      /\ InflightInv' /\ AdvanceInv' /\ BarrierInv' /\ DeliveryInv'
      /\ ModeInv'
  BY Zenon DEF IInv, NewWriter, CursorsOrdered, BoundaryInv, HeadInv, RecordInv,
     InflightInv, AdvanceInv, BarrierInv, DeliveryInv, ModeInv, Boundary,
     Header, End, TimeOf, ring, writer, worker, history
<1>2. LockInv'
  BY Zenon DEF IInv, TypeOK, NewWriter, LockInv, InCriticalSection, ring, writer,
     worker, history
<1>3. TailInv'
  BY PositionTypes DEF IInv, NewWriter, TailInv, ring
<1>4. PublishInv'
  BY Zenon DEF IInv, TypeOK, NewWriter, PublishInv, Header, End, ring, writer,
     worker, history
<1>5. ReservedInv'
  BY Zenon DEF IInv, TypeOK, NewWriter, ReservedInv, Header, HasReserved, ring,
     writer, worker, history
<1>6. DistinctInv'
  BY Zenon DEF IInv, TypeOK, NewWriter, DistinctInv, HasReserved, ring, writer,
     worker, history
<1>7. PayloadInv'
  BY Zenon DEF IInv, TypeOK, NewWriter, PayloadInv, Header, End, Owned, ring,
     writer, worker, history
<1> QED
  BY <1>1, <1>2, <1>3, <1>4, <1>5, <1>6, <1>7, Zenon DEF IInv

\* Only one writer at a time enters reserve.
LEMMA LockPreserves ==
  ASSUME IInv, TypeOK', NEW w \in Writers, Lock(w)
  PROVE  IInv'
<1>1. /\ CursorsOrdered' /\ TailInv' /\ BoundaryInv' /\ HeadInv'
      /\ RecordInv' /\ InflightInv' /\ AdvanceInv' /\ BarrierInv'
      /\ DeliveryInv' /\ ModeInv'
  BY Zenon DEF IInv, Lock, CursorsOrdered, TailInv, BoundaryInv, HeadInv, RecordInv,
     InflightInv, AdvanceInv, BarrierInv, DeliveryInv, ModeInv, Boundary,
     Header, End, TimeOf, ring, writer, worker, history
<1>2. LockInv'
  BY WritersAssumption, Zenon DEF IInv, TypeOK, Lock, LockInv, InCriticalSection,
     ring, writer, worker, history
<1>3. PublishInv'
  BY Zenon DEF IInv, TypeOK, Lock, PublishInv, Header, End, ring, writer, worker,
     history
<1>4. ReservedInv'
  BY Zenon DEF IInv, TypeOK, Lock, ReservedInv, Header, HasReserved, ring, writer,
     worker, history
<1>5. DistinctInv'
  BY Zenon DEF IInv, TypeOK, Lock, DistinctInv, HasReserved, ring, writer, worker,
     history
<1>6. PayloadInv'
  BY Zenon DEF IInv, TypeOK, Lock, PayloadInv, Header, End, Owned, ring, writer,
     worker, history
<1> QED
  BY <1>1, <1>2, <1>3, <1>4, <1>5, <1>6, Zenon DEF IInv

\* Giving up on the lock changes nothing shared.
LEMMA LockTimeoutPreserves ==
  ASSUME IInv, TypeOK', NEW w \in Writers, LockTimeout(w)
  PROVE  IInv'
<1>1. /\ CursorsOrdered' /\ BoundaryInv' /\ HeadInv' /\ RecordInv'
      /\ InflightInv' /\ AdvanceInv' /\ BarrierInv' /\ DeliveryInv'
      /\ ModeInv'
  BY Zenon DEF IInv, LockTimeout, Return, CursorsOrdered, BoundaryInv, HeadInv,
     RecordInv, InflightInv, AdvanceInv, BarrierInv, DeliveryInv, ModeInv,
     Boundary, Header, End, TimeOf, ring, writer, worker, history
<1>2. LockInv'
  BY Zenon DEF IInv, TypeOK, LockTimeout, Return, LockInv, InCriticalSection, ring,
     writer, worker, history
<1>3. TailInv'
  BY PositionTypes DEF IInv, LockTimeout, Return, TailInv, ring
<1>4. PublishInv'
  BY Zenon DEF IInv, TypeOK, LockTimeout, Return, PublishInv, Header, End, ring,
     writer, worker, history
<1>5. ReservedInv'
  BY Zenon DEF IInv, TypeOK, LockTimeout, Return, ReservedInv, Header, HasReserved,
     ring, writer, worker, history
<1>6. DistinctInv'
  BY Zenon DEF IInv, TypeOK, LockTimeout, Return, DistinctInv, HasReserved, ring,
     writer, worker, history
<1>7. PayloadInv'
  BY Zenon DEF IInv, TypeOK, LockTimeout, Return, PayloadInv, Header, End, Owned,
     ring, writer, worker, history
<1> QED
  BY <1>1, <1>2, <1>3, <1>4, <1>5, <1>6, <1>7 DEF IInv

\* Giving up for lack of space only releases the lock.
LEMMA ReserveFullPreserves ==
  ASSUME IInv, TypeOK', NEW w \in Writers, NEW r \in Requests, ReserveFull(w,
           r)
  PROVE  IInv'
<1>1. /\ CursorsOrdered' /\ BoundaryInv' /\ HeadInv' /\ RecordInv'
      /\ InflightInv' /\ AdvanceInv' /\ BarrierInv' /\ DeliveryInv'
      /\ ModeInv'
  BY Zenon DEF IInv, ReserveFull, Return, CursorsOrdered, BoundaryInv, HeadInv,
     RecordInv, InflightInv, AdvanceInv, BarrierInv, DeliveryInv, ModeInv,
     Boundary, Header, End, TimeOf, ring, writer, worker, history
<1>2. LockInv'
  BY Zenon DEF IInv, TypeOK, ReserveFull, Return, LockInv, InCriticalSection, ring,
     writer, worker, history
<1>3. TailInv'
  BY PositionTypes DEF IInv, ReserveFull, Return, TailInv, ring
<1>4. PublishInv'
  BY Zenon DEF IInv, TypeOK, ReserveFull, Return, PublishInv, Header, End, ring,
     writer, worker, history
<1>5. ReservedInv'
  BY Zenon DEF IInv, TypeOK, ReserveFull, Return, ReservedInv, Header, HasReserved,
     ring, writer, worker, history
<1>6. DistinctInv'
  BY Zenon DEF IInv, TypeOK, ReserveFull, Return, DistinctInv, HasReserved, ring,
     writer, worker, history
<1>7. PayloadInv'
  BY Zenon DEF IInv, TypeOK, ReserveFull, Return, PayloadInv, Header, End, Owned,
     ring, writer, worker, history
<1> QED
  BY <1>1, <1>2, <1>3, <1>4, <1>5, <1>6, <1>7, Zenon DEF IInv

\* The busy header is written at writer_pos, outside of the live records; the
\* space check, even against a stale reader_pos, leaves room for the record.
LEMMA WriteHeaderPreserves ==
  ASSUME IInv, TypeOK', NEW w \in Writers, NEW r \in Requests, WriteHeader(w,
           r)
  PROVE  IInv'
<1>1. /\ PublishInv' /\ RecordInv' /\ PayloadInv' /\ InflightInv'
      /\ AdvanceInv' /\ BarrierInv' /\ DeliveryInv'
  BY WriteHeaderRecords, Zenon
<1>2. /\ CursorsOrdered' /\ TailInv' /\ BoundaryInv' /\ HeadInv'
      /\ ModeInv'
  BY Zenon DEF IInv, WriteHeader, CursorsOrdered, TailInv, BoundaryInv, HeadInv,
     ModeInv, Boundary, ring, writer, worker, history
<1>3. LockInv'
  BY Zenon DEF IInv, TypeOK, WriteHeader, LockInv, InCriticalSection, ring, writer,
     worker, history
<1>4. ReservedInv'
  <2>1. /\ pc' = [pc EXCEPT ![w] = "publish"] /\ at' = [at EXCEPT ![w] = writer_pos]
        /\ UNCHANGED <<reader_pos, recs>>
    BY Zenon DEF WriteHeader, history
  <2>2. \A o \in Offsets : hdr[o].state = "busy" => hdr'[o].state = "busy"
    BY LinearInRange, Zenon DEF IInv, TypeOK, WriteHeader
  <2>3. \A v \in Writers : at[v] \in Nat /\ Linear(at[v]) \in Offsets
    BY PositionTypes, LinearInRange, Zenon
  <2> QED
    BY <2>1, <2>2, <2>3, PositionTypes, Zenon DEF IInv, ReservedInv, Header, HasReserved
<1>5. DistinctInv'
  BY Zenon DEF IInv, TypeOK, WriteHeader, DistinctInv, HasReserved, ring, writer,
     worker, history
<1> QED
  BY <1>1, <1>2, <1>3, <1>4, <1>5, Zenon DEF IInv

\* Publishing appends one busy record.
LEMMA PublishPosPreserves ==
  ASSUME IInv, TypeOK', NEW w \in Writers, PublishPos(w)
  PROVE  IInv'
<1>1. /\ CursorsOrdered' /\ BoundaryInv' /\ HeadInv'
  BY PublishCursors, Zenon
<1>2. /\ TailInv' /\ ModeInv'
  BY Zenon DEF IInv, PublishPos, TailInv, ModeInv, ring, writer, worker, history
<1>3. LockInv'
  BY Zenon DEF IInv, TypeOK, PublishPos, LockInv, InCriticalSection, ring, writer,
     worker, history
<1>4. PublishInv'
  BY Zenon DEF IInv, TypeOK, PublishPos, PublishInv, Header, End, LockInv,
     InCriticalSection, ring, writer, worker, history
<1>5. /\ pc[w] = "publish" /\ pc' = [pc EXCEPT ![w] = "unlock"]
      /\ writer_pos' = End(writer_pos) /\ recs' = recs \cup {writer_pos}
      /\ at[w] = writer_pos /\ Header(writer_pos).state = "busy" /\ owner[Linear(writer_pos)] = writer_pos
      /\ End(writer_pos) \in Nat /\ writer_pos < End(writer_pos)
  BY PositionTypes, EndType, Zenon DEF IInv, PublishPos, PublishInv
<1>6. /\ UNCHANGED <<reader_pos, owner, at, inflight, delivered, rpc, new_tail,
                     intermediate_reader_pos, max_timestamp>>
      /\ \A p : Header(p)' = Header(p) /\ End(p)' = End(p) /\ TimeOf(p)' = TimeOf(p)
  BY Zenon DEF PublishPos, worker, Header, End, TimeOf
<1>7. /\ reader_pos <= intermediate_reader_pos /\ intermediate_reader_pos <= writer_pos
      /\ \A p \in recs : p < writer_pos
      /\ \A p : Boundary(p) => Boundary(p)' \/ p = writer_pos
  BY <1>5, Zenon DEF IInv, CursorsOrdered, BoundaryInv, Boundary
<1>8. ReservedInv'
  BY <1>5, <1>6, <1>7, PositionTypes DEF IInv, ReservedInv, HasReserved
<1>9. DistinctInv'
  BY <1>5, <1>6, <1>7, PositionTypes DEF IInv, DistinctInv, ReservedInv, HasReserved
<1>10. RecordInv'
  <2>1. \A p \in recs : reader_pos <= p => End(p) <= writer_pos
    BY <1>7, PositionTypes DEF IInv, RecordInv, Boundary
  <2> QED
    BY <1>5, <1>6, <1>7, <2>1, PositionTypes DEF IInv, RecordInv, Boundary
<1>11. PayloadInv'
  BY Zenon DEF IInv, TypeOK, PublishPos, PayloadInv, Header, End, Owned,
     PublishInv, ring, writer, worker, history
<1>12. InflightInv'
  BY <1>5, <1>6, <1>7, PositionTypes DEF IInv, InflightInv
<1>13. AdvanceInv'
  BY <1>5, <1>6, <1>7, PositionTypes DEF IInv, AdvanceInv, Boundary
<1>14. BarrierInv'
  BY <1>5, <1>6, <1>7, Zenon DEF IInv, BarrierInv
<1>15. DeliveryInv'
  BY <1>5, <1>6, <1>7, PositionTypes DEF IInv, DeliveryInv
<1> QED
  BY <1>1, <1>2, <1>3, <1>4, <1>8, <1>9, <1>10, <1>11, <1>12, <1>13, <1>14,
     <1>15, Zenon DEF IInv

\* Releasing the spinlock leaves the reserved record alone.
LEMMA UnlockPreserves ==
  ASSUME IInv, TypeOK', NEW w \in Writers, Unlock(w)
  PROVE  IInv'
<1>1. /\ CursorsOrdered' /\ TailInv' /\ BoundaryInv' /\ HeadInv'
      /\ RecordInv' /\ InflightInv' /\ AdvanceInv' /\ BarrierInv'
      /\ DeliveryInv' /\ ModeInv'
  BY Zenon DEF IInv, Unlock, CursorsOrdered, TailInv, BoundaryInv, HeadInv,
     RecordInv, InflightInv, AdvanceInv, BarrierInv, DeliveryInv, ModeInv,
     Boundary, Header, End, TimeOf, ring, writer, worker, history
<1>2. LockInv'
  BY Zenon DEF IInv, TypeOK, Unlock, LockInv, InCriticalSection, ring, writer,
     worker, history
<1>3. PublishInv'
  BY Zenon DEF IInv, TypeOK, Unlock, PublishInv, Header, End, ring, writer, worker,
     history
<1>4. ReservedInv'
  BY Zenon DEF IInv, TypeOK, Unlock, ReservedInv, Header, HasReserved, ring,
     writer, worker, history
<1>5. DistinctInv'
  BY Zenon DEF IInv, TypeOK, Unlock, DistinctInv, HasReserved, ring, writer,
     worker, history
<1>6. PayloadInv'
  BY Zenon DEF IInv, TypeOK, Unlock, PayloadInv, Header, End, Owned, ring, writer,
     worker, history
<1> QED
  BY <1>1, <1>2, <1>3, <1>4, <1>5, <1>6 DEF IInv

\* Filling a reserved record touches no other live record.
LEMMA FillPreserves ==
  ASSUME IInv, TypeOK', NEW w \in Writers, NEW t \in 0 .. MaxTime, Fill(w, t)
  PROVE  IInv'
<1>1. /\ PublishInv' /\ RecordInv' /\ PayloadInv'
  BY FillRecords, Zenon
<1>2. /\ CursorsOrdered' /\ TailInv' /\ BoundaryInv' /\ HeadInv'
      /\ InflightInv' /\ AdvanceInv' /\ DeliveryInv' /\ ModeInv'
  BY Zenon DEF IInv, Fill, CursorsOrdered, TailInv, BoundaryInv, HeadInv,
     InflightInv, AdvanceInv, DeliveryInv, ModeInv, Boundary, Header, ring,
     writer, worker, history
<1>3. LockInv'
  BY Zenon DEF IInv, TypeOK, Fill, LockInv, InCriticalSection, ring, writer,
     worker, history
<1>4. ReservedInv'
  BY Zenon DEF IInv, TypeOK, Fill, ReservedInv, Header, HasReserved, ring, writer,
     worker, history
<1>5. DistinctInv'
  BY Zenon DEF IInv, TypeOK, Fill, DistinctInv, HasReserved, ring, writer, worker,
     history
<1>6. BarrierInv'
  <2>1. /\ UNCHANGED <<writer_pos, intermediate_reader_pos, inflight, rpc, max_timestamp>>
        /\ \A p : Header(p)' = Header(p) /\ End(p)' = End(p)
    BY Zenon DEF Fill, worker, Header, End
  <2>2. \A r \in inflight : TimeOf(r)' = TimeOf(r)
    <3>1. ReservedInv /\ InflightInv /\ RecordInv
      BY Zenon DEF IInv
    <3>2. at[w] \in recs /\ reader_pos <= at[w] /\ Header(at[w]).state = "busy"
      BY <3>1, Zenon DEF Fill, ReservedInv, HasReserved
    <3>3. \A r \in inflight : r \in recs /\ reader_pos <= r /\ Header(r).state = "committed"
      BY <3>1, Zenon DEF InflightInv
    <3>4. \A r \in inflight : Linear(r) # Linear(at[w])
      BY <3>1, <3>2, <3>3 DEF RecordInv
    <3>5. \A r \in inflight : Linear(r) \in Offsets
      BY PositionTypes, LinearInRange, Zenon
    <3>6. time' = [time EXCEPT ![Linear(at[w])] = t] /\ time \in [Offsets -> 0 .. MaxTime]
      BY Zenon DEF Fill, IInv, TypeOK
    <3> QED
      BY <3>4, <3>5, <3>6, Zenon DEF TimeOf
  <2> QED
    BY <2>1, <2>2, Zenon DEF IInv, BarrierInv
<1> QED
  BY <1>1, <1>2, <1>3, <1>4, <1>5, <1>6, Zenon DEF IInv

\* Committing changes the state of the writer's own record only.
LEMMA CommitPreserves ==
  ASSUME IInv, TypeOK', NEW w \in Writers, Commit(w)
  PROVE  IInv'
<1>1. at[w] \in recs /\ reader_pos <= at[w] /\ Header(at[w]).state = "busy"
  BY Zenon DEF IInv, Commit, ReservedInv, HasReserved
<1>2. /\ \A p \in Nat : hdr'[Linear(p)].size = hdr[Linear(p)].size
      /\ \A p \in recs : reader_pos <= p /\ p # at[w] =>
           hdr'[Linear(p)] = hdr[Linear(p)]
      /\ \A v \in Writers : pc[v] = "publish" =>
           hdr'[Linear(at[v])] = hdr[Linear(at[v])]
      /\ hdr'[Linear(at[w])].state = "committed"
  BY <1>1, OwnHeaderOnly, Zenon DEF Commit, HeaderState
<1>3. /\ pc[w] = "commit" /\ pc' = [pc EXCEPT ![w] = "notify"]
      /\ UNCHANGED <<lock, reader_pos, writer_pos, intermediate_reader_pos, owner, at, tail, recs,
                     inflight, delivered, rpc, head, new_tail, max_timestamp>>
      /\ \A p : TimeOf(p)' = TimeOf(p) /\ Boundary(p)' = Boundary(p)
  BY Zenon DEF Commit, worker, history, TimeOf, Boundary
<1>4. /\ \A p \in Nat : End(p)' = End(p) /\ Owned(p)' = Owned(p)
      /\ \A p \in recs : reader_pos <= p /\ p # at[w] => Header(p)' = Header(p)
      /\ \A v \in Writers : pc[v] = "publish" => Header(at[v])' = Header(at[v])
      /\ Header(at[w])'.state = "committed"
  BY <1>2, <1>3, Zenon DEF End, Header, Owned
<1>5. PublishInv'
  BY <1>3, <1>4, PositionTypes, Zenon DEF IInv, PublishInv
<1>6. ReservedInv'
  BY <1>3, <1>4, PositionTypes, Zenon DEF IInv, ReservedInv, DistinctInv, HasReserved
<1>7. RecordInv'
  BY <1>3, <1>4, PositionTypes, Zenon DEF IInv, RecordInv
<1>8. PayloadInv'
  BY <1>1, <1>3, <1>4, PositionTypes, Zenon DEF IInv, PayloadInv
<1>9. InflightInv'
  BY <1>1, <1>3, <1>4, Zenon DEF IInv, InflightInv
<1>10. AdvanceInv'
  BY <1>1, <1>3, <1>4, Zenon DEF IInv, AdvanceInv
<1>11. BarrierInv'
  <2>1. Boundary(intermediate_reader_pos) /\ reader_pos <= intermediate_reader_pos
    BY Zenon DEF IInv, BoundaryInv, CursorsOrdered
  <2> QED
    BY <1>1, <1>3, <1>4, <2>1, PositionTypes, Zenon DEF IInv, BarrierInv, Boundary
<1>12. DeliveryInv'
  BY <1>1, <1>3, <1>4, Zenon DEF IInv, DeliveryInv
<1>13. /\ CursorsOrdered' /\ TailInv' /\ BoundaryInv' /\ HeadInv'
       /\ ModeInv'
  BY <1>3, Zenon DEF IInv, CursorsOrdered, TailInv, BoundaryInv, HeadInv, ModeInv
<1>14. LockInv' /\ DistinctInv'
  BY <1>3, PositionTypes, Zenon DEF IInv, LockInv, InCriticalSection, DistinctInv, HasReserved
<1> QED
  BY <1>5, <1>6, <1>7, <1>8, <1>9, <1>10, <1>11, <1>12, <1>13, <1>14, Zenon DEF IInv

\* Notification changes no position.
LEMMA NotifyPreserves ==
  ASSUME IInv, TypeOK', NEW w \in Writers, Notify(w)
  PROVE  IInv'
<1>1. /\ CursorsOrdered' /\ BoundaryInv' /\ HeadInv' /\ RecordInv'
      /\ InflightInv' /\ AdvanceInv' /\ BarrierInv' /\ DeliveryInv'
      /\ ModeInv'
  BY Zenon DEF IInv, Notify, Return, CursorsOrdered, BoundaryInv, HeadInv, RecordInv,
     InflightInv, AdvanceInv, BarrierInv, DeliveryInv, ModeInv, Boundary,
     Header, End, TimeOf, ring, writer, worker, history
<1>2. LockInv'
  BY Zenon DEF IInv, TypeOK, Notify, Return, LockInv, InCriticalSection, ring,
     writer, worker, history
<1>3. TailInv'
  BY PositionTypes DEF IInv, Notify, Return, TailInv, ring
<1>4. PublishInv'
  BY Zenon DEF IInv, TypeOK, Notify, Return, PublishInv, Header, End, ring, writer,
     worker, history
<1>5. ReservedInv'
  BY Zenon DEF IInv, TypeOK, Notify, Return, ReservedInv, Header, HasReserved,
     ring, writer, worker, history
<1>6. DistinctInv'
  BY Zenon DEF IInv, TypeOK, Notify, Return, DistinctInv, HasReserved, ring,
     writer, worker, history
<1>7. PayloadInv'
  BY Zenon DEF IInv, TypeOK, Notify, Return, PayloadInv, Header, End, Owned, ring,
     writer, worker, history
<1> QED
  BY <1>1, <1>2, <1>3, <1>4, <1>5, <1>6, <1>7 DEF IInv

\* A killed writer leaves the shared mapping consistent.
LEMMA KillPreserves ==
  ASSUME IInv, TypeOK', NEW w \in Writers, Kill(w)
  PROVE  IInv'
<1>1. /\ CursorsOrdered' /\ TailInv' /\ BoundaryInv' /\ HeadInv'
      /\ RecordInv' /\ InflightInv' /\ AdvanceInv' /\ BarrierInv'
      /\ DeliveryInv' /\ ModeInv'
  BY Zenon DEF IInv, Kill, CursorsOrdered, TailInv, BoundaryInv, HeadInv, RecordInv,
     InflightInv, AdvanceInv, BarrierInv, DeliveryInv, ModeInv, Boundary,
     Header, End, TimeOf, ring, writer, worker, history
<1>2. LockInv'
  BY Zenon DEF IInv, TypeOK, Kill, LockInv, InCriticalSection, ring, writer,
     worker, history
<1>3. PublishInv'
  BY Zenon DEF IInv, TypeOK, Kill, PublishInv, Header, End, ring, writer, worker,
     history
<1>4. ReservedInv'
  BY Zenon DEF IInv, TypeOK, Kill, ReservedInv, Header, HasReserved, ring, writer,
     worker, history
<1>5. DistinctInv'
  BY Zenon DEF IInv, TypeOK, Kill, DistinctInv, HasReserved, ring, writer, worker,
     history
<1>6. PayloadInv'
  BY Zenon DEF IInv, TypeOK, Kill, PayloadInv, Header, End, Owned, ring, writer,
     worker, history
<1> QED
  BY <1>1, <1>2, <1>3, <1>4, <1>5, <1>6 DEF IInv

-----------------------------------------------------------------------------
(* What reading and releasing do to the live records *)

\* The read cursor moves from one record to the next.
LEMMA ReadCursors ==
  ASSUME IInv, TypeOK', ReadSkip \/ ReadEvent
  PROVE  /\ CursorsOrdered' /\ BoundaryInv' /\ HeadInv' /\ InflightInv'
         /\ intermediate_reader_pos \in recs
<1> USE DEF IInv
<1> DEFINE ip == intermediate_reader_pos
<1>0. /\ intermediate_reader_pos \in Nat /\ writer_pos \in Nat
      /\ head \in Nat /\ intermediate_reader_pos <= writer_pos
      /\ ~Reorder => ip <= head /\ head <= writer_pos /\ Boundary(head)
  BY Zenon DEF ReadSkip, ReadEvent, TypeOK, CursorsOrdered, HeadInv
<1>1. /\ intermediate_reader_pos' = End(ip)
      /\ UNCHANGED <<writer_pos, reader_pos, hdr, recs, head>>
      /\ ip # writer_pos /\ (~Reorder => ip # head)
      /\ Header(ip).state # "busy"
      /\ \/ Header(ip).state = "discarded" /\ inflight' = inflight
         \/ Header(ip).state # "discarded" /\ inflight' = inflight \cup {ip}
  BY <1>0 DEF ReadSkip, ReadEvent, AtBusyOrEnd, Limit, ring, history
<1>2. /\ ip \in Nat /\ reader_pos \in Nat /\ writer_pos \in Nat
      /\ reader_pos <= ip /\ ip < writer_pos /\ Boundary(ip)
  BY <1>1 DEF TypeOK, CursorsOrdered, BoundaryInv
<1>3. /\ ip \in recs /\ Boundary(End(ip)) /\ End(ip) \in Nat
      /\ ip < End(ip) /\ End(ip) <= writer_pos
      /\ \A q \in recs : ip < q => End(ip) <= q
  BY <1>2, BoundaryStep, Zenon
<1>4. CursorsOrdered'
  BY <1>1, <1>2, <1>3 DEF CursorsOrdered
<1>5. BoundaryInv'
  BY <1>1, <1>2, <1>3, Zenon DEF BoundaryInv, Boundary
<1>6. InflightInv'
  <2>1. Header(ip).state \in {"busy", "committed", "discarded"}
    BY <1>2, EndType, Zenon DEF HeaderState
  <2>2. \A p \in recs : p < End(ip) => p <= ip
    BY <1>3, <1>2 DEF TypeOK
  <2>3. \A p \in Nat : Header(p)' = Header(p)
    BY <1>1, Zenon DEF Header
  <2>4. ASSUME NEW p \in inflight'
        PROVE  /\ p \in recs /\ reader_pos <= p /\ p < End(ip)
               /\ Header(p).state = "committed"
    <3>1. CASE p = ip
      BY <3>1, <1>1, <1>2, <1>3, <2>1, Zenon DEF InflightInv, TypeOK
    <3>2. CASE p # ip
      <4>1. p \in inflight
        BY <3>2, <2>4, <1>1, Zenon
      <4> QED
        BY <4>1, <1>2, <1>3 DEF InflightInv, TypeOK
    <3> QED
      BY <3>1, <3>2, Zenon
  <2>5. ASSUME NEW p \in recs, reader_pos <= p, p < End(ip)
        PROVE  p \in inflight' \/ Header(p).state = "discarded"
    <3>1. CASE p = ip
      BY <3>1, <1>1, Zenon
    <3>2. CASE p # ip
      <4>1. p < ip
        BY <3>2, <2>2, <2>5, <1>2 DEF TypeOK
      <4> QED
        BY <4>1, <1>1, <2>5, Zenon DEF InflightInv
    <3> QED
      BY <3>1, <3>2, Zenon
  <2> QED
    BY <1>1, <2>3, <2>4, <2>5, Zenon DEF InflightInv, Header
<1>7. HeadInv'
  <2>1. ASSUME ~Reorder PROVE End(ip) <= head
    BY <2>1, <1>0, <1>1, <1>3 DEF Boundary
  <2> QED
    BY <2>1, <1>0, <1>1, Zenon DEF HeadInv, Boundary
<1> QED
  BY <1>3, <1>4, <1>5, <1>6, <1>7, Zenon

\* Moving reader_pos to a boundary, over records that are not busy, frees
\* space without disturbing what the writers have reserved.
LEMMA ReleaseRecords ==
  ASSUME IInv, TypeOK',
         UNCHANGED <<writer_pos, hdr, owner, recs, pc, at,
                     intermediate_reader_pos>>,
         NEW rp \in Nat, reader_pos' = rp,
         reader_pos <= rp, rp <= intermediate_reader_pos, Boundary(rp),
         \A p \in recs : reader_pos <= p /\ p < rp => Header(p).state # "busy"
  PROVE  /\ CursorsOrdered' /\ PublishInv' /\ ReservedInv'
         /\ BoundaryInv' /\ RecordInv' /\ PayloadInv'
<1> USE DEF IInv
<1>0. /\ writer_pos \in Nat /\ reader_pos \in Nat
      /\ intermediate_reader_pos \in Nat /\ Size \in Nat
      /\ at \in [Writers -> Nat] /\ recs \subseteq Nat
  BY SizeAssumption, Zenon DEF TypeOK
<1>1. CursorsOrdered'
  BY <1>0 DEF CursorsOrdered
<1>2. PublishInv'
  <2> SUFFICES ASSUME NEW w \in Writers, pc[w] = "publish"
               PROVE  End(at[w]) - rp < Size
    BY Zenon DEF PublishInv, Header, End
  <2>1. End(at[w]) - reader_pos < Size /\ End(at[w]) \in Nat
    BY <1>0, EndType, Zenon DEF PublishInv
  <2> QED
    BY <2>1, <1>0
<1>3. ReservedInv'
  BY <1>0 DEF ReservedInv, Header
<1>4. BoundaryInv'
  BY Zenon DEF BoundaryInv, Boundary
<1>5. RecordInv'
  <2> SUFFICES ASSUME NEW p \in recs, rp <= p PROVE reader_pos <= p
    BY Zenon DEF RecordInv, Boundary, End, Header
  <2> QED
    BY <1>0
<1>6. PayloadInv'
  <2>1. \A p \in recs : rp <= p => reader_pos <= p
    BY <1>0
  <2> QED
    BY <2>1, Zenon DEF PayloadInv, Owned, End, Header
<1> QED
  BY <1>1, <1>2, <1>3, <1>4, <1>5, <1>6, Zenon

\* The walk over discarded records cannot pass intermediate_reader_pos.
LEMMA WalkStopsInTime ==
  ASSUME IInv, TypeOK', AdvanceOver
  PROVE  AdvanceInv'
<1> USE DEF IInv
<1>0. /\ writer_pos \in Nat /\ reader_pos \in Nat
      /\ new_tail \in Nat /\ intermediate_reader_pos \in Nat
  BY Zenon DEF TypeOK
<1>1. /\ rpc = "advance" /\ new_tail < writer_pos
      /\ Header(new_tail).state = "discarded"
      /\ new_tail' = End(new_tail)
      /\ UNCHANGED <<rpc, recs, intermediate_reader_pos, writer_pos,
                     reader_pos, hdr>>
  BY Zenon DEF AdvanceOver, CanAdvance, history, ring
<1>2. /\ Boundary(new_tail) /\ reader_pos <= new_tail
      /\ new_tail <= intermediate_reader_pos
      /\ \A p \in recs : reader_pos <= p /\ p < new_tail =>
           Header(p).state = "discarded"
  BY <1>1, Zenon DEF AdvanceInv
<1>3. /\ new_tail \in recs
      /\ Boundary(End(new_tail)) /\ End(new_tail) <= writer_pos
      /\ End(new_tail) \in Nat /\ new_tail < End(new_tail)
      /\ \A q \in recs : new_tail < q => End(new_tail) <= q
  BY <1>0, <1>1, <1>2, BoundaryStep, Zenon
<1>4. new_tail # intermediate_reader_pos
  <2> SUFFICES ASSUME new_tail = intermediate_reader_pos PROVE FALSE
    BY Zenon
  <2>1. PICK r \in inflight : End(r) = intermediate_reader_pos
    BY <1>0, <1>1 DEF BarrierInv
  <2>2. /\ r \in recs /\ reader_pos <= r /\ r < new_tail
        /\ Header(r).state = "committed"
    BY Zenon DEF InflightInv
  <2> QED
    BY <2>2, <1>2, Zenon
<1>5. End(new_tail) <= intermediate_reader_pos
  BY <1>0, <1>2, <1>3, <1>4 DEF BoundaryInv, Boundary
<1>6. \A p \in recs : reader_pos <= p /\ p < End(new_tail) =>
        Header(p).state = "discarded"
  <2> SUFFICES ASSUME NEW p \in recs, reader_pos <= p, p < End(new_tail)
               PROVE  Header(p).state = "discarded"
    BY Zenon
  <2>1. p \in Nat /\ ~ new_tail < p
    BY <1>0, <1>3 DEF TypeOK
  <2>2. p < new_tail \/ p = new_tail
    BY <2>1, <1>0
  <2> QED
    BY <2>2, <1>1, <1>2, Zenon
<1> QED
  BY <1>0, <1>1, <1>2, <1>3, <1>5, <1>6 DEF AdvanceInv, Header, Boundary

\* The same when reader_pos stays or takes up everything read.
LEMMA ReleaseRead ==
  ASSUME IInv, TypeOK',
         UNCHANGED <<writer_pos, hdr, owner, recs, pc, at,
                     intermediate_reader_pos>>,
         reader_pos' = reader_pos \/ reader_pos' = intermediate_reader_pos
  PROVE  /\ CursorsOrdered' /\ PublishInv' /\ ReservedInv'
         /\ BoundaryInv' /\ RecordInv' /\ PayloadInv'
<1>1. /\ reader_pos \in Nat /\ intermediate_reader_pos \in Nat
      /\ reader_pos <= intermediate_reader_pos
      /\ Boundary(reader_pos) /\ Boundary(intermediate_reader_pos)
  BY Zenon DEF IInv, TypeOK, CursorsOrdered, BoundaryInv
<1>2. \A p \in recs : reader_pos <= p /\ p < intermediate_reader_pos =>
        Header(p).state # "busy"
  BY Zenon DEF IInv, InflightInv
<1>3. CASE reader_pos' = reader_pos
  <2>1. \A p \in recs : ~(reader_pos <= p /\ p < reader_pos)
    BY DEF IInv, TypeOK
  <2> QED
    BY <1>1, <1>3, <2>1, ReleaseRecords
<1>4. CASE reader_pos' = intermediate_reader_pos
  BY <1>1, <1>2, <1>4, ReleaseRecords
<1> QED
  BY <1>3, <1>4, Zenon

-----------------------------------------------------------------------------
(* The steps of the worker *)

\* A wakeup starts a round; it moves no cursor.
LEMMA WakePreserves ==
  ASSUME IInv, TypeOK', Wake
  PROVE  IInv'
<1>1. /\ CursorsOrdered' /\ LockInv' /\ TailInv' /\ PublishInv'
      /\ ReservedInv' /\ DistinctInv' /\ BoundaryInv' /\ HeadInv'
      /\ RecordInv' /\ PayloadInv' /\ InflightInv'
  BY DEF IInv, Wake, CursorsOrdered, LockInv, TailInv, PublishInv, ReservedInv,
     DistinctInv, BoundaryInv, HeadInv, RecordInv, PayloadInv, InflightInv,
     InCriticalSection, Header, End, HasReserved, Boundary, Owned, ring,
     writer, worker, history
<1>2. AdvanceInv'
  BY Zenon DEF IInv, TypeOK, Wake, AdvanceInv, Header, Boundary, ring, writer,
     worker, history
<1>3. BarrierInv'
  BY Zenon DEF IInv, TypeOK, Wake, BarrierInv, Header, End, TimeOf, ring, writer,
     worker, history
<1>4. DeliveryInv'
  BY Zenon DEF IInv, TypeOK, Wake, DeliveryInv, Header, ring, writer, worker,
     history
<1>5. ModeInv'
  BY Zenon DEF IInv, TypeOK, Wake, ModeInv, ring, writer, worker, history
<1> QED
  BY <1>1, <1>2, <1>3, <1>4, <1>5, Zenon DEF IInv

\* A pass of the unordered mode may read up to the current writer_pos.
LEMMA OpenReaderPreserves ==
  ASSUME IInv, TypeOK', OpenReader
  PROVE  IInv'
<1>1. /\ CursorsOrdered' /\ LockInv' /\ TailInv' /\ PublishInv'
      /\ ReservedInv' /\ DistinctInv' /\ BoundaryInv' /\ RecordInv'
      /\ PayloadInv' /\ InflightInv'
  <2>1. /\ UNCHANGED <<lock, writer_pos, reader_pos, intermediate_reader_pos, owner, pc, tail, at, recs, inflight>>
        /\ \A p : /\ Header(p)' = Header(p) /\ End(p)' = End(p)
                 /\ Owned(p)' = Owned(p) /\ Boundary(p)' = Boundary(p)
    BY Zenon DEF OpenReader, ring, writer, history, Header, End, Owned, Boundary
  <2> QED
    BY <2>1, Zenon DEF IInv, CursorsOrdered, LockInv, TailInv, PublishInv, ReservedInv, DistinctInv,
       BoundaryInv, RecordInv, PayloadInv, InflightInv
<1>2. HeadInv' /\ AdvanceInv' /\ BarrierInv' /\ ModeInv'
  BY DEF IInv, TypeOK, OpenReader, CursorsOrdered, HeadInv, AdvanceInv,
     BarrierInv, ModeInv, Boundary, ring, history
<1>3. DeliveryInv'
  BY Zenon DEF IInv, OpenReader, DeliveryInv, Header, ring, history
<1> QED
  BY <1>1, <1>2, <1>3, Zenon DEF IInv

\* Skipping poll touches neither the ring buffer nor the eventfd.
LEMMA SkipPollPreserves ==
  ASSUME IInv, TypeOK', SkipPoll
  PROVE  IInv'
<1>1. /\ CursorsOrdered' /\ LockInv' /\ TailInv' /\ PublishInv'
      /\ ReservedInv' /\ DistinctInv' /\ BoundaryInv' /\ RecordInv'
      /\ PayloadInv' /\ InflightInv'
  <2>1. /\ UNCHANGED <<lock, writer_pos, reader_pos, intermediate_reader_pos, owner, pc, tail, at, recs, inflight>>
        /\ \A p : /\ Header(p)' = Header(p) /\ End(p)' = End(p)
                 /\ Owned(p)' = Owned(p) /\ Boundary(p)' = Boundary(p)
    BY Zenon DEF SkipPoll, ring, writer, history, Header, End, Owned, Boundary
  <2> QED
    BY <2>1 DEF IInv, CursorsOrdered, LockInv, TailInv, PublishInv, ReservedInv, DistinctInv,
       BoundaryInv, RecordInv, PayloadInv, InflightInv
<1>2. HeadInv' /\ AdvanceInv' /\ BarrierInv' /\ ModeInv'
  BY Zenon DEF IInv, TypeOK, SkipPoll, CursorsOrdered, HeadInv, AdvanceInv,
     BarrierInv, ModeInv, Boundary, ring, history
<1>3. DeliveryInv'
  BY Zenon DEF IInv, SkipPoll, DeliveryInv, Header, ring, history
<1> QED
  BY <1>1, <1>2, <1>3 DEF IInv

\* Reading stops at a busy record or at writer_pos; in unordered mode
\* everything before has been processed and is released.
LEMMA ReadStopPreserves ==
  ASSUME IInv, TypeOK', ReadStop
  PROVE  IInv'
<1>1. /\ UNCHANGED <<writer_pos, hdr, owner, recs, pc, at,
                     intermediate_reader_pos>>
      /\ reader_pos' = reader_pos \/ reader_pos' = intermediate_reader_pos
  BY Zenon DEF ReadStop, ring, writer, worker, history
<1>2. /\ CursorsOrdered' /\ PublishInv' /\ ReservedInv' /\ BoundaryInv'
      /\ RecordInv' /\ PayloadInv'
  BY <1>1, ReleaseRead, Zenon
<1>3. /\ LockInv' /\ DistinctInv'
  BY Zenon DEF IInv, ReadStop, LockInv, DistinctInv, InCriticalSection,
     HasReserved, ring, writer, worker, history
<1>4. TailInv'
  BY DEF IInv, TypeOK, ReadStop, TailInv, CursorsOrdered, ring, writer,
     worker, history
<1>5. InflightInv'
  BY DEF IInv, TypeOK, ReadStop, InflightInv, Header, ModeInv, ring, writer,
     worker, history
<1>6. AdvanceInv'
  BY Zenon DEF IInv, TypeOK, ReadStop, AdvanceInv, Header, Boundary, ring, writer,
     worker, history
<1>7. BarrierInv'
  BY Zenon DEF IInv, TypeOK, ReadStop, BarrierInv, Header, End, TimeOf,
     AtBusyOrEnd, Limit, ring, writer, worker, history
<1>8. DeliveryInv'
  BY DEF IInv, TypeOK, ReadStop, DeliveryInv, Header, InflightInv, ModeInv,
     CursorsOrdered, ring, writer, worker, history
<1>9. ModeInv'
  BY Zenon DEF IInv, TypeOK, ReadStop, ModeInv, ring, writer, worker, history
<1>10. HeadInv'
  BY <1>1, Zenon DEF IInv, ReadStop, HeadInv, ModeInv, Boundary
<1> QED
  BY <1>2, <1>3, <1>4, <1>5, <1>6, <1>7, <1>8, <1>9, <1>10, Zenon DEF IInv

\* Skipping a discarded record moves to the next boundary.
LEMMA ReadSkipPreserves ==
  ASSUME IInv, TypeOK', ReadSkip
  PROVE  IInv'
<1>1. /\ CursorsOrdered' /\ BoundaryInv' /\ HeadInv' /\ InflightInv'
  BY ReadCursors, Zenon
<1>2. /\ LockInv' /\ TailInv' /\ PublishInv' /\ ReservedInv' /\ DistinctInv'
      /\ RecordInv' /\ PayloadInv' /\ DeliveryInv' /\ ModeInv'
  <2>1. /\ UNCHANGED <<lock, writer_pos, reader_pos, owner, pc, tail, at, recs, inflight, delivered, rpc>>
        /\ \A p : /\ Header(p)' = Header(p) /\ End(p)' = End(p)
                 /\ Owned(p)' = Owned(p) /\ Boundary(p)' = Boundary(p)
    BY Zenon DEF ReadSkip, ring, writer, history, Header, End, Owned, Boundary
  <2> QED
    BY <2>1, Zenon DEF IInv, LockInv, TailInv, PublishInv, ReservedInv, DistinctInv, RecordInv,
       PayloadInv, DeliveryInv, ModeInv
<1>3. AdvanceInv'
  BY Zenon DEF IInv, TypeOK, ReadSkip, AdvanceInv, Header, Boundary, ring, writer,
     worker, history
<1>4. BarrierInv'
  BY Zenon DEF IInv, TypeOK, ReadSkip, BarrierInv, Header, End, TimeOf, ring,
     writer, worker, history
<1> QED
  BY <1>1, <1>2, <1>3, <1>4, Zenon DEF IInv

\* Reading an event puts it in flight and moves to the next boundary.
LEMMA ReadEventPreserves ==
  ASSUME IInv, TypeOK', ReadEvent
  PROVE  IInv'
<1>1. /\ CursorsOrdered' /\ BoundaryInv' /\ HeadInv' /\ InflightInv'
      /\ intermediate_reader_pos \in recs
  BY ReadCursors, Zenon
<1>2. /\ LockInv' /\ TailInv' /\ PublishInv' /\ ReservedInv' /\ DistinctInv'
      /\ RecordInv' /\ PayloadInv'
  BY DEF IInv, ReadEvent, LockInv, TailInv, PublishInv, ReservedInv,
     DistinctInv, RecordInv, PayloadInv, InCriticalSection, Header, End,
     HasReserved, Boundary, Owned, ring, writer, worker, history
<1>3. AdvanceInv'
  BY Zenon DEF IInv, TypeOK, ReadEvent, AdvanceInv, Header, Boundary, ring, writer,
     worker, history
<1>4. BarrierInv'
  BY Zenon DEF IInv, TypeOK, ReadEvent, BarrierInv, Header, End, TimeOf, ring,
     writer, worker, history
<1>5. DeliveryInv'
  BY Zenon DEF IInv, TypeOK, ReadEvent, DeliveryInv, Header, ring, writer, worker,
     history
<1>6. ModeInv'
  <2>1. /\ rpc = "read" /\ recs' = recs
        /\ inflight' = inflight \cup {intermediate_reader_pos}
        /\ Reorder => rpc' \in {"process", "read"}
        /\ ~Reorder => rpc' = "use"
    BY Zenon DEF ReadEvent, history
  <2>2. ~Reorder => inflight' = {intermediate_reader_pos}
    BY <2>1, Zenon DEF IInv, ModeInv
  <2> QED
    BY <1>1, <2>1, <2>2, Zenon DEF ModeInv
<1> QED
  BY <1>1, <1>2, <1>3, <1>4, <1>5, <1>6, Zenon DEF IInv

\* Unordered mode releases the one event in flight.
LEMMA UseEventPreserves ==
  ASSUME IInv, TypeOK', UseEvent
  PROVE  IInv'
<1>1. /\ UNCHANGED <<writer_pos, hdr, owner, recs, pc, at,
                     intermediate_reader_pos>>
      /\ reader_pos' = reader_pos \/ reader_pos' = intermediate_reader_pos
  BY Zenon DEF UseEvent, ring, writer, worker, history
<1>2. /\ CursorsOrdered' /\ PublishInv' /\ ReservedInv' /\ BoundaryInv'
      /\ RecordInv' /\ PayloadInv'
  BY <1>1, ReleaseRead
<1>3. /\ LockInv' /\ DistinctInv'
  BY Zenon DEF IInv, UseEvent, LockInv, DistinctInv, InCriticalSection,
     HasReserved, ring, writer, worker, history
<1>4. TailInv'
  BY DEF IInv, TypeOK, UseEvent, TailInv, CursorsOrdered, ring, writer,
     worker, history
<1>5. InflightInv'
  BY DEF IInv, TypeOK, UseEvent, InflightInv, Header, ring, writer, worker,
     history
<1>6. AdvanceInv'
  BY Zenon DEF IInv, TypeOK, UseEvent, AdvanceInv, Header, Boundary, ring, writer,
     worker, history
<1>7. BarrierInv'
  BY Zenon DEF IInv, TypeOK, UseEvent, BarrierInv, Header, End, TimeOf, ring,
     writer, worker, history
<1>8. DeliveryInv'
  BY DEF IInv, TypeOK, UseEvent, DeliveryInv, Header, InflightInv,
     CursorsOrdered, ring, writer, worker, history
<1>9. ModeInv'
  BY Zenon DEF IInv, TypeOK, UseEvent, ModeInv, ring, writer, worker, history
<1>10. HeadInv'
  BY <1>1, Zenon DEF IInv, UseEvent, HeadInv, ModeInv, Boundary
<1> QED
  BY <1>2, <1>3, <1>4, <1>5, <1>6, <1>7, <1>8, <1>9, <1>10 DEF IInv

\* Marking an event discarded changes its own header only.
LEMMA ProcessTopPreserves ==
  ASSUME IInv, TypeOK', NEW pos \in inflight, ProcessTop(pos)
  PROVE  IInv'
<1>1. /\ pos \in recs /\ reader_pos <= pos /\ pos < intermediate_reader_pos
      /\ Header(pos).state = "committed"
  BY Zenon DEF IInv, InflightInv
<1>2. /\ \A p \in Nat : hdr'[Linear(p)].size = hdr[Linear(p)].size
      /\ \A p \in recs : reader_pos <= p /\ p # pos =>
           hdr'[Linear(p)] = hdr[Linear(p)]
      /\ \A v \in Writers : pc[v] = "publish" =>
           hdr'[Linear(at[v])] = hdr[Linear(at[v])]
      /\ hdr'[Linear(pos)].state = "discarded"
  BY <1>1, OwnHeaderOnly, Zenon DEF ProcessTop, HeaderState
<1>3. /\ UNCHANGED <<reader_pos, writer_pos, intermediate_reader_pos, owner, pc, at, recs>>
      /\ inflight' = inflight \ {pos} /\ new_tail' = reader_pos
      /\ \A p : Boundary(p)' = Boundary(p)
  BY Zenon DEF ProcessTop, writer, Boundary
<1>4. /\ \A p \in Nat : End(p)' = End(p) /\ Owned(p)' = Owned(p)
      /\ \A p \in recs : reader_pos <= p /\ p # pos => Header(p)' = Header(p)
      /\ \A v \in Writers : pc[v] = "publish" => Header(at[v])' = Header(at[v])
      /\ Header(pos)'.state = "discarded"
  BY <1>2, <1>3, Zenon DEF End, Header, Owned
<1>5. PublishInv' /\ ReservedInv'
  <2>1. PublishInv'
    BY <1>3, <1>4, PositionTypes, Zenon DEF IInv, PublishInv
  <2>2. ReservedInv'
    BY <1>1, <1>3, <1>4, PositionTypes, Zenon DEF IInv, ReservedInv
  <2> QED
    BY <2>1, <2>2, Zenon
<1>6. RecordInv' /\ PayloadInv'
  <2>1. RecordInv'
    BY <1>3, <1>4, PositionTypes, Zenon DEF IInv, RecordInv
  <2>2. PayloadInv'
    BY <1>1, <1>3, <1>4, PositionTypes, Zenon DEF IInv, PayloadInv
  <2> QED
    BY <2>1, <2>2
<1>7. InflightInv'
  BY <1>1, <1>3, <1>4, Zenon DEF IInv, InflightInv
<1>8. AdvanceInv'
  <2>1. Boundary(reader_pos) /\ reader_pos <= intermediate_reader_pos
    BY Zenon DEF IInv, BoundaryInv, CursorsOrdered
  <2> QED
    BY <1>3, <2>1, PositionTypes DEF AdvanceInv
<1>9. BarrierInv'
  <2>1. /\ UNCHANGED <<writer_pos, intermediate_reader_pos, max_timestamp, time>>
        /\ inflight' = inflight \ {pos}
        /\ TimeOf(pos) <= max_timestamp
        /\ rpc = "process"
    BY Zenon DEF ProcessTop
  <2>2. intermediate_reader_pos \in Nat /\ inflight \subseteq Nat
        /\ max_timestamp \in Nat /\ TimeOf(pos) \in Nat
    BY LinearInRange, BoundsAssumption DEF IInv, TypeOK, TimeOf
  <2>3. CASE intermediate_reader_pos = writer_pos
    BY <2>1, <2>3, Zenon DEF BarrierInv
  <2>4. CASE /\ intermediate_reader_pos # writer_pos
             /\ Header(intermediate_reader_pos).state # "discarded"
    <3>1. /\ intermediate_reader_pos \in recs
          /\ reader_pos <= intermediate_reader_pos
          /\ intermediate_reader_pos # pos
      BY <1>1, <2>2, <2>4 DEF IInv, BoundaryInv, Boundary, CursorsOrdered
    <3> QED
      BY <1>2, <2>1, <2>4, <3>1, Zenon DEF BarrierInv, Header
  <2>5. CASE \E r \in inflight : /\ TimeOf(r) > max_timestamp
                                 /\ End(r) = intermediate_reader_pos
    <3>1. PICK r \in inflight : /\ TimeOf(r) > max_timestamp
                                /\ End(r) = intermediate_reader_pos
      BY <2>5, Zenon
    <3>2. r # pos
      BY <2>1, <2>2, <3>1
    <3>3. TimeOf(r)' = TimeOf(r) /\ End(r)' = End(r)
      BY <1>2, <2>1, <2>2, Zenon DEF TimeOf, End, Header
    <3> QED
      BY <2>1, <3>1, <3>2, <3>3, Zenon DEF BarrierInv
  <2> QED
    BY <2>1, <2>3, <2>4, <2>5, Zenon DEF IInv, BarrierInv
<1>10. DeliveryInv'
  BY <1>1, <1>2 DEF IInv, TypeOK, ProcessTop, DeliveryInv, Header, ring,
     writer, worker, history
<1>11. /\ CursorsOrdered' /\ LockInv' /\ TailInv' /\ DistinctInv'
       /\ BoundaryInv' /\ HeadInv'
  BY Zenon DEF IInv, ProcessTop, CursorsOrdered, LockInv, TailInv, DistinctInv,
     BoundaryInv, HeadInv, InCriticalSection, HasReserved, Boundary, ring,
     writer, worker, history
<1>12. ModeInv'
  BY Zenon DEF IInv, TypeOK, ProcessTop, ModeInv, ring, writer, worker, history
<1> QED
  BY <1>5, <1>6, <1>7, <1>8, <1>9, <1>10, <1>11, <1>12, Zenon DEF IInv

\* The walk over discarded records stops before intermediate_reader_pos.
LEMMA AdvanceOverPreserves ==
  ASSUME IInv, TypeOK', AdvanceOver
  PROVE  IInv'
<1>1. AdvanceInv'
  BY WalkStopsInTime, Zenon
<1>2. /\ CursorsOrdered' /\ LockInv' /\ TailInv' /\ PublishInv'
      /\ ReservedInv' /\ DistinctInv' /\ BoundaryInv' /\ HeadInv'
  BY Zenon DEF IInv, AdvanceOver, CursorsOrdered, LockInv, TailInv, PublishInv,
     ReservedInv, DistinctInv, BoundaryInv, HeadInv, InCriticalSection, Header,
     End, HasReserved, Boundary, ring, writer, history
<1>3. /\ RecordInv' /\ PayloadInv' /\ InflightInv'
  BY Zenon DEF IInv, AdvanceOver, RecordInv, PayloadInv, InflightInv, Header, End,
     HasReserved, Boundary, Owned, ring, writer, history
<1>4. BarrierInv'
  BY Zenon DEF IInv, AdvanceOver, BarrierInv, Header, End, TimeOf, ring, history
<1>5. DeliveryInv' /\ ModeInv'
  BY Zenon DEF IInv, AdvanceOver, DeliveryInv, ModeInv, Header, ring, writer, history
<1> QED
  BY <1>1, <1>2, <1>3, <1>4, <1>5, Zenon DEF IInv

\* reader_pos moves over processed records only.
LEMMA AdvanceStorePreserves ==
  ASSUME IInv, TypeOK', AdvanceStore
  PROVE  IInv'
<1>1. /\ UNCHANGED <<writer_pos, hdr, owner, recs, pc, at,
                     intermediate_reader_pos>>
      /\ new_tail \in Nat /\ reader_pos' = new_tail
      /\ reader_pos <= new_tail /\ new_tail <= intermediate_reader_pos
      /\ Boundary(new_tail)
      /\ \A p \in recs : reader_pos <= p /\ p < new_tail =>
           Header(p).state # "busy"
  BY Zenon DEF IInv, TypeOK, AdvanceStore, AdvanceInv, ring, writer, worker, history
<1>2. /\ CursorsOrdered' /\ PublishInv' /\ ReservedInv' /\ BoundaryInv'
      /\ RecordInv' /\ PayloadInv'
  BY <1>1, ReleaseRecords, Zenon
<1>3. /\ LockInv' /\ DistinctInv'
  BY Zenon DEF IInv, AdvanceStore, LockInv, DistinctInv, InCriticalSection,
     HasReserved, ring, writer, worker, history
<1>4. TailInv'
  BY DEF IInv, TypeOK, AdvanceStore, TailInv, AdvanceInv, Header, Boundary,
     ring, writer, worker, history
<1>5. InflightInv'
  BY DEF IInv, TypeOK, AdvanceStore, InflightInv, Header, AdvanceInv,
     Boundary, ring, writer, worker, history
<1>6. AdvanceInv'
  BY Zenon DEF IInv, TypeOK, AdvanceStore, AdvanceInv, Header, Boundary, ring,
     writer, worker, history
<1>7. BarrierInv'
  BY Zenon DEF IInv, TypeOK, AdvanceStore, BarrierInv, Header, End, TimeOf, ring,
     writer, worker, history
<1>8. DeliveryInv'
  BY DEF IInv, TypeOK, AdvanceStore, DeliveryInv, Header, AdvanceInv,
     Boundary, ring, writer, worker, history
<1>9. ModeInv'
  BY Zenon DEF IInv, TypeOK, AdvanceStore, ModeInv, ring, writer, worker, history
<1>10. HeadInv'
  BY <1>1, Zenon DEF IInv, AdvanceStore, HeadInv, ModeInv, Boundary
<1> QED
  BY <1>2, <1>3, <1>4, <1>5, <1>6, <1>7, <1>8, <1>9, <1>10 DEF IInv

\* The end of a round moves no cursor.
LEMMA EndRoundPreserves ==
  ASSUME IInv, TypeOK', EndRound
  PROVE  IInv'
<1>1. /\ CursorsOrdered' /\ LockInv' /\ TailInv' /\ PublishInv'
      /\ ReservedInv' /\ DistinctInv' /\ BoundaryInv' /\ HeadInv'
      /\ RecordInv' /\ PayloadInv' /\ InflightInv'
  BY ZenonT(60) DEF IInv, EndRound, CursorsOrdered, LockInv, TailInv, PublishInv,
     ReservedInv, DistinctInv, BoundaryInv, HeadInv, RecordInv, PayloadInv,
     InflightInv, InCriticalSection, Header, End, HasReserved, Boundary, Owned,
     ring, writer, worker, history
<1>2. AdvanceInv'
  BY Zenon DEF IInv, TypeOK, EndRound, AdvanceInv, Header, Boundary, ring, writer,
     worker, history
<1>3. BarrierInv'
  BY Zenon DEF IInv, TypeOK, EndRound, BarrierInv, Header, End, TimeOf, ring,
     writer, worker, history
<1>4. DeliveryInv'
  BY Zenon DEF IInv, TypeOK, EndRound, DeliveryInv, Header, ring, writer, worker,
     history
<1>5. ModeInv'
  BY Zenon DEF IInv, TypeOK, EndRound, ModeInv, ring, writer, worker, history
<1> QED
  BY <1>1, <1>2, <1>3, <1>4, <1>5 DEF IInv

\* A new round moves no cursor.
LEMMA NextRoundPreserves ==
  ASSUME IInv, TypeOK', NextRound
  PROVE  IInv'
<1>1. /\ CursorsOrdered' /\ LockInv' /\ TailInv' /\ PublishInv'
      /\ ReservedInv' /\ DistinctInv' /\ BoundaryInv' /\ HeadInv'
      /\ RecordInv' /\ PayloadInv' /\ InflightInv'
  BY ZenonT(60) DEF IInv, NextRound, CursorsOrdered, LockInv, TailInv, PublishInv,
     ReservedInv, DistinctInv, BoundaryInv, HeadInv, RecordInv, PayloadInv,
     InflightInv, InCriticalSection, Header, End, HasReserved, Boundary, Owned,
     ring, writer, worker, history, ModeInv
<1>2. AdvanceInv'
  BY Zenon DEF IInv, TypeOK, NextRound, AdvanceInv, Header, Boundary, ring, writer,
     worker, history
<1>3. BarrierInv'
  BY Zenon DEF IInv, TypeOK, NextRound, BarrierInv, Header, End, TimeOf, ring,
     writer, worker, history
<1>4. DeliveryInv'
  BY Zenon DEF IInv, TypeOK, NextRound, DeliveryInv, Header, ring, writer, worker,
     history
<1>5. ModeInv'
  BY Zenon DEF IInv, TypeOK, NextRound, ModeInv, ring, writer, worker, history
<1> QED
  BY <1>1, <1>2, <1>3, <1>4, <1>5 DEF IInv

\* A new worker starts again from reader_pos.
LEMMA RestartWorkerPreserves ==
  ASSUME IInv, TypeOK', RestartWorker
  PROVE  IInv'
<1>1. /\ LockInv' /\ TailInv' /\ PublishInv' /\ ReservedInv' /\ DistinctInv'
      /\ RecordInv' /\ PayloadInv' /\ DeliveryInv'
  BY ZenonT(60) DEF IInv, RestartWorker, LockInv, TailInv, PublishInv, ReservedInv,
     DistinctInv, RecordInv, PayloadInv, DeliveryInv, InCriticalSection,
     Header, End, HasReserved, Boundary, Owned, ring, writer, worker, history
<1>2. CursorsOrdered'
  BY DEF IInv, TypeOK, RestartWorker, CursorsOrdered, ring, writer, worker,
     history
<1>3. /\ BoundaryInv' /\ HeadInv'
  BY Zenon DEF IInv, TypeOK, RestartWorker, BoundaryInv, HeadInv, Boundary, ring,
     writer, worker, history
<1>4. InflightInv'
  BY DEF IInv, TypeOK, RestartWorker, InflightInv, Header, ring, writer,
     worker, history
<1>5. AdvanceInv'
  BY Zenon DEF IInv, TypeOK, RestartWorker, AdvanceInv, Header, Boundary, ring,
     writer, worker, history
<1>6. BarrierInv'
  BY Zenon DEF IInv, TypeOK, RestartWorker, BarrierInv, Header, End, TimeOf, ring,
     writer, worker, history
<1>7. ModeInv'
  BY Zenon DEF IInv, TypeOK, RestartWorker, ModeInv, ring, writer, worker, history
<1> QED
  BY <1>1, <1>2, <1>3, <1>4, <1>5, <1>6, <1>7, Zenon DEF IInv

\* A worker that exits without releasing anything leaves every record to be
\* read again.
LEMMA ExitPreserves ==
  ASSUME IInv, TypeOK', UNCHANGED <<ring, writer, history>>,
         intermediate_reader_pos' = reader_pos, Exit
  PROVE  IInv'
<1>1. /\ LockInv' /\ TailInv' /\ PublishInv' /\ ReservedInv' /\ DistinctInv'
      /\ RecordInv' /\ PayloadInv'
  BY DEF IInv, LockInv, TailInv, PublishInv, ReservedInv, DistinctInv,
     RecordInv, PayloadInv, InCriticalSection, Header, End, HasReserved,
     Boundary, Owned, ring, writer, history
<1>2. CursorsOrdered'
  BY DEF IInv, TypeOK, CursorsOrdered, ring
<1>3. BoundaryInv'
  BY Zenon DEF IInv, BoundaryInv, Boundary, ring, history
<1>4. InflightInv'
  <2>1. inflight' = {} /\ reader_pos' = reader_pos /\ recs' = recs
        /\ intermediate_reader_pos' = reader_pos
    BY Zenon DEF Exit, ring, history
  <2>2. recs \subseteq Nat /\ reader_pos \in Nat
    BY Zenon DEF IInv, TypeOK
  <2> QED
    BY <2>1, <2>2 DEF InflightInv
<1>5. rpc' = "stopped"
  BY Zenon DEF Exit
<1>6. HeadInv' /\ AdvanceInv' /\ BarrierInv' /\ ModeInv'
  BY <1>4, <1>5, Zenon DEF HeadInv, AdvanceInv, BarrierInv, ModeInv, Exit
<1>7. DeliveryInv'
  BY <1>5, Zenon DEF IInv, DeliveryInv, Header, ring, history
<1> QED
  BY <1>1, <1>2, <1>3, <1>4, <1>6, <1>7, Zenon DEF IInv

\* A failed worker releases at most the event it was processing.
LEMMA WorkerFailsPreserves ==
  ASSUME IInv, TypeOK', WorkerFails
  PROVE  IInv'
<1>1. CASE rpc = "process"
  <2>1. /\ UNCHANGED <<ring, writer, history>>
        /\ intermediate_reader_pos' = reader_pos /\ Exit
    BY <1>1, Zenon DEF WorkerFails, ring
  <2> QED
    BY <2>1, ExitPreserves, Zenon
<1>2. CASE rpc = "use"
  <2>1. /\ UNCHANGED <<lock, writer_pos, hdr, owner, writer, history,
                       intermediate_reader_pos>>
        /\ reader_pos' = intermediate_reader_pos
        /\ rpc' = "stopped" /\ inflight' = {}
    BY <1>2, Zenon DEF WorkerFails, Exit
  <2>2. /\ CursorsOrdered' /\ PublishInv' /\ ReservedInv' /\ BoundaryInv'
        /\ RecordInv' /\ PayloadInv'
    BY <2>1, ReleaseRead, Zenon DEF writer, history
  <2>3. LockInv' /\ DistinctInv'
    BY <2>1, Zenon DEF IInv, LockInv, DistinctInv, InCriticalSection, HasReserved,
       writer
  <2>4. /\ reader_pos \in Nat /\ intermediate_reader_pos \in Nat
        /\ reader_pos <= intermediate_reader_pos
        /\ recs \subseteq Nat /\ tail \in [Writers -> Nat]
    BY Zenon DEF IInv, TypeOK, CursorsOrdered
  <2>5. TailInv'
    BY <2>1, <2>4 DEF IInv, TailInv, writer
  <2>6. InflightInv'
    BY <2>1, <2>4 DEF InflightInv, history
  <2>7. HeadInv' /\ AdvanceInv' /\ BarrierInv' /\ ModeInv'
    BY <2>1, Zenon DEF HeadInv, AdvanceInv, BarrierInv, ModeInv
  <2>8. DeliveryInv'
    BY <2>1, <2>4 DEF IInv, DeliveryInv, Header, history
  <2> QED
    BY <2>2, <2>3, <2>5, <2>6, <2>7, <2>8, Zenon DEF IInv
<1> QED
  BY <1>1, <1>2, Zenon DEF WorkerFails

\* A terminated worker leaves the ring buffer as it is.
LEMMA WorkerTerminatesPreserves ==
  ASSUME IInv, TypeOK', WorkerTerminates
  PROVE  IInv'
BY ExitPreserves, Zenon DEF WorkerTerminates

\* The clock is not part of the invariant.
LEMMA TickPreserves ==
  ASSUME IInv, TypeOK', Tick
  PROVE  IInv'
<1>1. /\ CursorsOrdered' /\ LockInv' /\ TailInv' /\ PublishInv'
      /\ ReservedInv'
  BY Zenon DEF IInv, Tick, CursorsOrdered, LockInv, TailInv, PublishInv,
     ReservedInv, InCriticalSection, Header, End, HasReserved, ring, writer,
     worker, history
<1>2. /\ DistinctInv' /\ BoundaryInv' /\ HeadInv' /\ RecordInv'
      /\ PayloadInv'
  BY Zenon DEF IInv, Tick, DistinctInv, BoundaryInv, HeadInv, RecordInv, PayloadInv,
     HasReserved, Boundary, Header, End, Owned, ring, writer, worker, history
<1>3. /\ InflightInv' /\ AdvanceInv' /\ BarrierInv' /\ DeliveryInv'
      /\ ModeInv'
  BY Zenon DEF IInv, Tick, InflightInv, AdvanceInv, BarrierInv, DeliveryInv,
     ModeInv, Header, Boundary, End, TimeOf, ring, writer, worker, history
<1> QED
  BY <1>1, <1>2, <1>3, Zenon DEF IInv

-----------------------------------------------------------------------------
(* The invariant holds *)

\* An empty ring buffer satisfies the invariant.
LEMMA InvInit == Init => IInv
<1> SUFFICES ASSUME Init PROVE IInv
  OBVIOUS
<1>1. TypeOK
  BY TypeInit, Zenon
<1>2. CursorsOrdered
  BY SizeAssumption DEF Init, CursorsOrdered
<1>3. /\ LockInv /\ TailInv /\ PublishInv /\ ReservedInv /\ DistinctInv
      /\ BoundaryInv /\ HeadInv /\ RecordInv /\ PayloadInv
  <2>1. /\ \A w \in Writers : pc[w] = "idle" /\ tail[w] = 0
        /\ reader_pos = 0 /\ writer_pos = 0 /\ intermediate_reader_pos = 0 /\ head = 0
        /\ rpc = "poll" /\ recs = {}
    BY Zenon DEF Init
  <2>2. LockInv /\ TailInv /\ PublishInv
    BY <2>1 DEF LockInv, InCriticalSection, TailInv, PublishInv
  <2>3. ReservedInv /\ DistinctInv
    BY <2>1, Zenon DEF ReservedInv, HasReserved, DistinctInv
  <2>4. BoundaryInv /\ HeadInv
    BY <2>1, Zenon DEF BoundaryInv, HeadInv, Boundary
  <2>5. RecordInv /\ PayloadInv
    BY <2>1, Zenon DEF RecordInv, PayloadInv
  <2> QED
    BY <2>2, <2>3, <2>4, <2>5, Zenon
<1>4. /\ InflightInv /\ AdvanceInv /\ BarrierInv /\ DeliveryInv /\ ModeInv
  BY Zenon DEF Init, InflightInv, AdvanceInv, BarrierInv, DeliveryInv, ModeInv
<1> QED
  BY <1>1, <1>2, <1>3, <1>4, Zenon DEF IInv

\* A step that changes no variable preserves the invariant.
LEMMA StutterPreserves ==
  ASSUME IInv, TypeOK', UNCHANGED vars
  PROVE  IInv'
<1>1. /\ CursorsOrdered' /\ LockInv' /\ TailInv' /\ PublishInv' /\ ReservedInv'
  BY Zenon DEF IInv, vars, CursorsOrdered, LockInv, TailInv, PublishInv,
         ReservedInv, InCriticalSection, Header, End, HasReserved, ring,
         writer, worker, history
<1>2. /\ DistinctInv' /\ BoundaryInv' /\ HeadInv' /\ RecordInv'
      /\ PayloadInv'
  BY Zenon DEF IInv, vars, DistinctInv, BoundaryInv, HeadInv, RecordInv, PayloadInv,
     HasReserved, Boundary, Header, End, Owned, ring, writer, worker, history
<1>3. /\ InflightInv' /\ AdvanceInv' /\ BarrierInv' /\ DeliveryInv' /\ ModeInv'
  BY Zenon DEF IInv, vars, InflightInv, AdvanceInv, BarrierInv, DeliveryInv,
         ModeInv, Header, Boundary, End, TimeOf, ring, writer, worker, history
<1> QED
  BY <1>1, <1>2, <1>3, Zenon DEF IInv

\* Every step of a writer or of the reader keeps the invariant.
LEMMA InvNext == IInv /\ [Next]_vars => IInv'
<1> SUFFICES ASSUME IInv, [Next]_vars PROVE IInv'
  OBVIOUS
<1>1. TypeOK'
  BY TypeNext, Zenon DEF IInv
<1>2. ASSUME NEW w \in Writers, WriterStep(w) PROVE IInv'
  BY <1>1, <1>2, LockPreserves, LockTimeoutPreserves, ReserveFullPreserves,
     WriteHeaderPreserves, PublishPosPreserves, UnlockPreserves,
     FillPreserves, CommitPreserves, NotifyPreserves, Zenon DEF WriterStep
<1>3. CASE WorkerStep
  BY <1>1, <1>3, WakePreserves, OpenReaderPreserves, SkipPollPreserves,
     ReadStopPreserves, ReadSkipPreserves,
     ReadEventPreserves, UseEventPreserves, ProcessTopPreserves,
     AdvanceOverPreserves, AdvanceStorePreserves, EndRoundPreserves,
     NextRoundPreserves, Zenon DEF WorkerStep
<1> QED
  BY <1>1, <1>2, <1>3, NewWriterPreserves, KillPreserves,
     RestartWorkerPreserves, WorkerFailsPreserves, WorkerTerminatesPreserves,
     TickPreserves, StutterPreserves, Zenon DEF Next

\* The invariant holds in every state of the ring buffer.
LEMMA InvCorrect == Spec => []IInv
BY InvInit, InvNext, PTL DEF Spec

\* The reader's and the writers' cursors never cross, and the writers never
\* lap the reader.
THEOREM CursorsCorrect == Spec => []CursorsOrdered
<1>1. IInv => CursorsOrdered
  BY Zenon DEF IInv
<1> QED
  BY <1>1, InvCorrect, PTL

\* The reader only ever interprets the header of a published record.
THEOREM HeadersCorrect == Spec => []HeadersFresh
<1>1. IInv => HeadersFresh
  BY DEF IInv, TypeOK, CursorsOrdered, BoundaryInv, Boundary, RecordInv,
         HeadersFresh
<1> QED
  BY <1>1, InvCorrect, PTL

\* An event the worker points to is complete and is not overwritten.
THEOREM EventsCorrect == Spec => []EventsIntact
<1>1. ASSUME IInv, NEW p \in inflight
      PROVE  /\ Header(p).state = "committed"
             /\ \A o \in Words(p) : owner[o] = p
  <2>1. p \in recs /\ reader_pos <= p /\ Header(p).state = "committed"
    BY <1>1, Zenon DEF IInv, InflightInv
  <2>2. Owned(p)
    BY <1>1, <2>1, Zenon DEF IInv, PayloadInv
  <2> QED
    BY <2>1, <2>2, Zenon DEF Owned, Words
<1>2. IInv => EventsIntact
  BY <1>1, Zenon DEF EventsIntact
<1> QED
  BY <1>2, InvCorrect, PTL

\* No event is processed twice or skipped, across worker restarts included.
THEOREM DeliveryCorrect == Spec => []ExactlyOnce
<1>1. IInv => ExactlyOnce
  BY Zenon DEF IInv, DeliveryInv, InflightInv, ExactlyOnce
<1> QED
  BY <1>1, InvCorrect, PTL

-----------------------------------------------------------------------------
(* The ring buffer implements EventChannel, for every number of writers, ring
   size, reserved area, request set and mode of the worker.  The refinement
   mapping is sent: a record is sent once its header is seen without the busy
   bit, or once it has been released. *)

\* Moving reader_pos over records that are not busy sends nothing: their commit
\* was visible already.
LEMMA ReleaseSendsNothing ==
  ASSUME TypeOK, NEW rp \in Nat, reader_pos' = rp, reader_pos <= rp,
         \A p \in recs : reader_pos <= p /\ p < rp => Header(p).state # "busy",
         UNCHANGED <<hdr, recs>>
  PROVE  UNCHANGED sent
<1>1. \A p \in recs : (p < rp \/ Header(p).state # "busy")
                        <=> (p < reader_pos \/ Header(p).state # "busy")
  <2> SUFFICES ASSUME NEW p \in recs
               PROVE  (p < rp \/ Header(p).state # "busy")
                        <=> (p < reader_pos \/ Header(p).state # "busy")
    BY Zenon
  <2>1. p \in Nat /\ reader_pos \in Nat
    BY Zenon DEF TypeOK
  <2>2. p < reader_pos => p < rp
    BY <2>1
  <2>3. p < rp /\ ~(p < reader_pos) => Header(p).state # "busy"
    BY <2>1
  <2> QED
    BY <2>2, <2>3, Zenon
<1>2. \A p : Header(p)' = Header(p)
  BY Zenon DEF Header
<1>3. sent' = {p \in recs : p < rp \/ Header(p).state # "busy"}
  BY <1>2, Zenon DEF sent
<1> QED
  BY <1>1, <1>3, Zenon DEF sent

\* A commit is the step at which the channel accepts an event.
LEMMA CommitSends ==
  ASSUME IInv, NEW w \in Writers, Commit(w)
  PROVE  Channel!Send
<1>1. at[w] \in recs /\ reader_pos <= at[w] /\ Header(at[w]).state = "busy"
  BY Zenon DEF IInv, Commit, ReservedInv, HasReserved
<1>2. /\ \A p \in recs : reader_pos <= p /\ p # at[w] =>
           hdr'[Linear(p)] = hdr[Linear(p)]
      /\ hdr'[Linear(at[w])].state = "committed"
  BY <1>1, OwnHeaderOnly, Zenon DEF Commit, HeaderState
<1>3. /\ UNCHANGED <<reader_pos, recs, delivered>>
      /\ recs \subseteq Nat /\ reader_pos \in Nat
  BY Zenon DEF Commit, history, IInv, TypeOK
<1>4. at[w] \notin sent
  <2>0. at[w] \in Nat /\ reader_pos \in Nat /\ reader_pos <= at[w]
    BY <1>1, <1>3, Zenon
  <2>1. ~(at[w] < reader_pos)
    BY <2>0
  <2> QED
    BY <1>1, <2>1, Zenon DEF sent
<1>5. sent' = sent \cup {at[w]}
  <2>1. \A p \in recs : reader_pos <= p /\ p # at[w] => Header(p)' = Header(p)
    BY <1>2, Zenon DEF Header
  <2>2. ASSUME NEW p \in recs
        PROVE  (p < reader_pos \/ Header(p)'.state # "busy")
                 <=> (p < reader_pos \/ Header(p).state # "busy") \/ p = at[w]
    <3>1. p < reader_pos \/ reader_pos <= p
      BY <1>3
    <3>2. CASE p = at[w]
      BY <1>2, <3>2, Zenon DEF Header
    <3>3. CASE p # at[w]
      BY <2>1, <3>1, <3>3, Zenon
    <3> QED
      BY <3>2, <3>3, Zenon
  <2>3. sent' = {p \in recs : p < reader_pos \/ Header(p)'.state # "busy"}
    BY <1>3, Zenon DEF sent
  <2> QED
    BY <1>1, <2>2, <2>3, Zenon DEF sent
<1> QED
  BY <1>3, <1>4, <1>5, Zenon DEF Channel!Send

\* In unordered mode the channel delivers the event in use.
LEMMA UseDelivers ==
  ASSUME IInv, UseEvent
  PROVE  Channel!Deliver
<1>1. PICK e \in recs : inflight = {e}
  BY Zenon DEF IInv, ModeInv, UseEvent
<1>2. /\ reader_pos <= e /\ Header(e).state = "committed"
      /\ recs \subseteq Nat /\ reader_pos \in Nat
      /\ intermediate_reader_pos \in Nat
      /\ reader_pos <= intermediate_reader_pos
  BY <1>1, Zenon DEF IInv, InflightInv, TypeOK, CursorsOrdered
<1>3. e \in sent /\ e \notin delivered
  BY <1>1, <1>2, Zenon DEF IInv, DeliveryInv, sent
<1>4. /\ UNCHANGED <<hdr, recs>> /\ reader_pos' = intermediate_reader_pos
      /\ delivered' = delivered \cup {e}
  BY <1>1, Zenon DEF UseEvent
<1>5. \A p \in recs : reader_pos <= p /\ p < intermediate_reader_pos =>
        Header(p).state # "busy"
  BY Zenon DEF IInv, InflightInv
<1>6. sent' = sent
  BY <1>2, <1>4, <1>5, ReleaseSendsNothing, Zenon DEF IInv
<1> QED
  BY <1>3, <1>4, <1>6, Zenon DEF Channel!Deliver

\* In ordered mode the channel delivers the event taken from the queue.
LEMMA ProcessDelivers ==
  ASSUME IInv, NEW pos \in inflight, ProcessTop(pos)
  PROVE  Channel!Deliver
<1>1. /\ pos \in recs /\ reader_pos <= pos
      /\ Header(pos).state = "committed"
      /\ recs \subseteq Nat /\ reader_pos \in Nat
  BY Zenon DEF IInv, InflightInv, TypeOK
<1>2. pos \in sent /\ pos \notin delivered
  BY <1>1, Zenon DEF IInv, DeliveryInv, sent
<1>3. /\ UNCHANGED <<reader_pos, recs>>
      /\ delivered' = delivered \cup {pos}
  BY Zenon DEF ProcessTop
<1>4. /\ \A p \in recs : reader_pos <= p /\ p # pos =>
           hdr'[Linear(p)] = hdr[Linear(p)]
      /\ hdr'[Linear(pos)].state = "discarded"
  BY <1>1, OwnHeaderOnly, Zenon DEF ProcessTop, HeaderState
<1>5. \A p \in recs : (p < reader_pos \/ Header(p)'.state # "busy")
                        <=> (p < reader_pos \/ Header(p).state # "busy")
  <2> SUFFICES ASSUME NEW p \in recs, ~(p < reader_pos)
               PROVE  Header(p)'.state # "busy" <=> Header(p).state # "busy"
    BY Zenon
  <2>1. p \in Nat /\ reader_pos <= p
    BY <1>1
  <2>2. CASE p = pos
    BY <1>1, <1>4, <2>2, Zenon DEF Header
  <2>3. CASE p # pos
    BY <1>4, <2>1, <2>3, Zenon DEF Header
  <2> QED
    BY <2>2, <2>3, Zenon
<1>6. sent' = {p \in recs : p < reader_pos \/ Header(p)'.state # "busy"}
  BY <1>3, Zenon DEF sent
<1>7. sent' = sent
  BY <1>5, <1>6, Zenon DEF sent
<1> QED
  BY <1>2, <1>3, <1>7, Zenon DEF Channel!Deliver

\* Every other step leaves the channel as it is.
LEMMA ChannelStep ==
  ASSUME IInv, TypeOK', [Next]_vars
  PROVE  [Channel!Next]_<<sent, delivered>>
<1> DEFINE Same == UNCHANGED <<sent, delivered>>
<1>1. ASSUME UNCHANGED <<hdr, reader_pos, recs, delivered>> PROVE Same
  BY <1>1, Zenon DEF sent, Header
<1>2. ASSUME UNCHANGED <<hdr, recs, delivered>>,
             reader_pos' = intermediate_reader_pos
      PROVE  Same
  <2>1. /\ intermediate_reader_pos \in Nat
        /\ reader_pos <= intermediate_reader_pos
    BY Zenon DEF IInv, TypeOK, CursorsOrdered
  <2>2. \A p \in recs : reader_pos <= p /\ p < intermediate_reader_pos =>
          Header(p).state # "busy"
    BY Zenon DEF IInv, InflightInv
  <2> QED
    BY <1>2, <2>1, <2>2, ReleaseSendsNothing, Zenon DEF IInv
<1>3. ASSUME NEW w \in Writers, WriterStep(w)
      PROVE  Same \/ Channel!Send
  <2>1. ASSUME NEW r \in Requests, WriteHeader(w, r) PROVE Same
    <3>1. \A p \in recs : reader_pos <= p => Header(p)' = Header(p)
      BY <2>1, WriteHeaderRecords, Zenon
    <3>2. UNCHANGED <<reader_pos, recs, delivered>>
          /\ recs \subseteq Nat /\ reader_pos \in Nat
      BY <2>1, Zenon DEF WriteHeader, history, IInv, TypeOK
    <3>3. \A p \in recs : (p < reader_pos \/ Header(p)'.state # "busy")
                            <=> (p < reader_pos \/ Header(p).state # "busy")
      <4> SUFFICES ASSUME NEW p \in recs, ~(p < reader_pos)
                   PROVE  Header(p)' = Header(p)
        BY Zenon
      <4>1. p \in Nat /\ reader_pos <= p
        BY <3>2
      <4> QED
        BY <3>1, <4>1, Zenon
    <3>4. sent' = {p \in recs : p < reader_pos \/ Header(p)'.state # "busy"}
      BY <3>2, Zenon DEF sent
    <3>5. sent' = sent
      BY <3>3, <3>4, Zenon DEF sent
    <3> QED
      BY <3>2, <3>5, Zenon
  <2>2. ASSUME PublishPos(w) PROVE Same
    <3>1. /\ at[w] = writer_pos /\ Header(at[w]).state = "busy"
          /\ reader_pos <= writer_pos
          /\ reader_pos \in Nat /\ writer_pos \in Nat
      BY <2>2, PositionTypes DEF PublishPos, IInv, PublishInv, CursorsOrdered
    <3>2. /\ UNCHANGED <<hdr, reader_pos, delivered>>
          /\ recs' = recs \cup {at[w]}
      BY <2>2, Zenon DEF PublishPos
    <3> QED
      BY <3>1, <3>2 DEF sent, Header
  <2>3. ASSUME Lock(w) \/ LockTimeout(w) \/ Unlock(w) \/ Notify(w)
        PROVE  Same
    BY <2>3, <1>1, Zenon DEF Lock, LockTimeout, Unlock, Notify, ring, history
  <2>4. ASSUME NEW r \in Requests, ReserveFull(w, r) PROVE Same
    BY <2>4, <1>1, Zenon DEF ReserveFull, history
  <2>5. ASSUME NEW t \in 0 .. MaxTime, Fill(w, t) PROVE Same
    BY <2>5, <1>1, Zenon DEF Fill, history
  <2> QED
    BY <1>3, <2>1, <2>2, <2>3, <2>4, <2>5, CommitSends, Zenon DEF WriterStep
<1>4. ASSUME AdvanceStore PROVE Same
  <2>1. /\ new_tail \in Nat /\ reader_pos <= new_tail
        /\ \A p \in recs : reader_pos <= p /\ p < new_tail =>
             Header(p).state = "discarded"
    BY <1>4, Zenon DEF IInv, TypeOK, AdvanceInv, AdvanceStore
  <2>2. UNCHANGED <<hdr, recs, delivered>> /\ reader_pos' = new_tail
    BY <1>4, Zenon DEF AdvanceStore, history
  <2> QED
    BY <2>1, <2>2, ReleaseSendsNothing, Zenon DEF IInv
<1>5. ASSUME WorkerStep PROVE Same \/ Channel!Deliver
  <2>1. ASSUME Wake PROVE Same
    <3>1. UNCHANGED <<hdr, reader_pos, recs, delivered>>
      BY <2>1, Zenon DEF Wake, history
    <3> QED
      BY <3>1, <1>1, Zenon
  <2>4. ASSUME OpenReader \/ SkipPoll \/ ReadSkip \/ ReadEvent PROVE Same
    BY <2>4, <1>1, Zenon DEF OpenReader, SkipPoll, ReadSkip, ReadEvent, ring, history
  <2>2. ASSUME AdvanceOver \/ EndRound \/ NextRound PROVE Same
    BY <2>2, <1>1, Zenon DEF AdvanceOver, EndRound, NextRound, ring, history
  <2>3. ASSUME ReadStop PROVE Same
    BY <2>3, <1>1, <1>2, Zenon DEF ReadStop, history
  <2> QED
    BY <1>4, <1>5, <2>1, <2>2, <2>3, <2>4, UseDelivers, ProcessDelivers, Zenon
       DEF WorkerStep
<1>6. ASSUME WorkerFails PROVE Same
  BY <1>6, <1>1, <1>2, Zenon DEF WorkerFails, history
<1>7. ASSUME RestartWorker \/ WorkerTerminates \/ Tick \/ UNCHANGED vars
      PROVE  Same
  BY <1>7, <1>1, Zenon DEF RestartWorker, WorkerTerminates, Tick, vars, ring, history
<1>8. ASSUME NEW w \in Writers, NewWriter(w) \/ Kill(w) PROVE Same
  BY <1>8, <1>1, Zenon DEF NewWriter, Kill, ring, history
<1> QED
  BY <1>3, <1>5, <1>6, <1>7, <1>8, Zenon DEF Next, Channel!Next

\* The ring buffer, with its cursors, lock, laps and worker restarts, is a
\* channel: commits send events, and each sent event is delivered at most once.
THEOREM ChannelRefined == Spec => ImplementsChannel
<1>1. Init => Channel!Init
  BY Zenon DEF Init, Channel!Init, sent
<1>2. IInv /\ [Next]_vars => [Channel!Next]_<<sent, delivered>>
  BY TypeNext, ChannelStep, Zenon DEF IInv
<1> QED
  BY <1>1, <1>2, InvCorrect, PTL DEF Spec, ImplementsChannel, Channel!Spec

-----------------------------------------------------------------------------
(* The wakeup of the worker in unordered mode *)

\* Steps of a writer that leave headers and writer_pos alone.
LEMMA QuietWriter ==
  ASSUME NEW w \in Writers, pc \in [Writers -> WriterPc], at \in [Writers -> Nat],
         UNCHANGED <<hdr, writer_pos, intermediate_reader_pos>>, eventfd => eventfd',
         pc' = [pc EXCEPT ![w] = pc'[w]], at' = [at EXCEPT ![w] = at'[w]],
         pc[w] \in {"notify", "dead"} => pc'[w] \in {"notify", "dead"} /\ at'[w] = at[w],
         Pending => Woken
  PROVE  Pending' => Woken'
<1>1. Pending' = Pending
  BY Zenon DEF Pending, Header
<1>2. ASSUME NEW v \in Writers, pc[v] \in {"notify", "dead"}
      PROVE  pc'[v] \in {"notify", "dead"} /\ at'[v] = at[v]
  BY <1>2, Zenon
<1> QED
  BY <1>1, <1>2, Zenon DEF Woken

\* What a writer does at the place that the worker reads next is either not
\* complete, or followed by a look at reader_pos.
LEMMA WriterWakes ==
  ASSUME IInv, TypeOK', WakeInv, NEW w \in Writers, NewWriter(w) \/ WriterStep(w) \/ Kill(w),
         reader_pos = intermediate_reader_pos, Pending => Woken
  PROVE  Pending' => Woken'
<1> USE DEF ring, writer, worker, history
<1>1. /\ pc \in [Writers -> WriterPc] /\ at \in [Writers -> Nat] /\ tail \in [Writers -> Nat]
      /\ reader_pos \in Nat /\ writer_pos \in Nat
  BY PositionTypes, Zenon
<1>2. UNCHANGED intermediate_reader_pos
  BY Zenon
     DEF NewWriter, WriterStep, Lock, LockTimeout, ReserveFull, WriteHeader, PublishPos, Unlock,
     Fill, Commit, Notify, Kill
<1>3. reader_pos # writer_pos => reader_pos \in recs
  BY Zenon DEF IInv, BoundaryInv, Boundary
<1>4. CASE NewWriter(w) \/ Lock(w) \/ Unlock(w) \/ Kill(w) \/ \E t \in 0 .. MaxTime : Fill(w, t)
  <2>1. /\ UNCHANGED <<hdr, writer_pos, at, eventfd>> /\ pc' = [pc EXCEPT ![w] = pc'[w]]
        /\ pc[w] \in {"notify", "dead"} => pc'[w] \in {"notify", "dead"}
    BY <1>1, <1>4, Zenon DEF NewWriter, Lock, Unlock, Kill, Fill
  <2> QED
    BY <1>1, <1>2, <2>1, QuietWriter, Zenon
<1>5. CASE LockTimeout(w) \/ \E r \in Requests : ReserveFull(w, r)
  <2>1. /\ UNCHANGED <<hdr, writer_pos, eventfd>> /\ pc[w] \in {"lock", "reserve"}
        /\ pc' = [pc EXCEPT ![w] = pc'[w]] /\ at' = [at EXCEPT ![w] = at'[w]]
    BY <1>1, <1>5, Zenon DEF LockTimeout, ReserveFull, Return
  <2> QED
    BY <1>1, <1>2, <2>1, QuietWriter, Zenon
<1>6. ASSUME NEW r \in Requests, WriteHeader(w, r) PROVE Pending' => Woken'
  <2>1. \A p \in recs : reader_pos <= p => Header(p)' = Header(p)
    BY <1>6, WriteHeaderRecords, Zenon
  <2>2. /\ UNCHANGED <<writer_pos, eventfd>> /\ pc[w] = "reserve"
        /\ \A v \in Writers : v # w => pc'[v] = pc[v] /\ at'[v] = at[v]
    BY <1>1, <1>6, Zenon DEF WriteHeader
  <2>3. ASSUME Pending' PROVE Pending
    <3>1. intermediate_reader_pos # writer_pos
      BY <1>2, <2>2, <2>3, Zenon DEF Pending
    <3>2. PICK p \in recs : p = intermediate_reader_pos /\ reader_pos <= p
      BY <1>1, <1>3, <3>1
    <3>3. hdr'[Linear(p)] = hdr[Linear(p)]
      BY <2>1, <3>2, Zenon DEF Header
    <3>4. hdr'[Linear(p)].state # "busy"
      BY <1>2, <2>3, <3>2, Zenon DEF Pending, Header
    <3> QED
      BY <3>1, <3>2, <3>3, <3>4, Zenon DEF Pending, Header
  <2> QED
    BY <1>2, <2>2, <2>3, Zenon DEF Woken
<1>7. CASE PublishPos(w)
  <2>1. /\ at[w] = writer_pos /\ Header(writer_pos).state = "busy"
        /\ UNCHANGED <<hdr, at, eventfd>> /\ pc[w] = "publish"
        /\ \A v \in Writers : v # w => pc'[v] = pc[v]
    BY <1>1, <1>7, Zenon DEF PublishPos, IInv, PublishInv
  <2>2. Pending' => Pending
    BY <1>2, <2>1, Zenon DEF Pending, Header
  <2> QED
    BY <1>2, <2>1, <2>2, Zenon DEF Woken
<1>8. CASE Commit(w)
  <2>1. at[w] \in recs /\ reader_pos <= at[w]
    BY <1>8, Zenon DEF IInv, Commit, ReservedInv, HasReserved
  <2>2. \A p \in recs : reader_pos <= p /\ p # at[w] => hdr'[Linear(p)] = hdr[Linear(p)]
    BY <1>8, <2>1, OwnHeaderOnly, Zenon DEF Commit, HeaderState
  <2>3. /\ UNCHANGED <<writer_pos, at, eventfd>> /\ pc[w] = "commit" /\ pc'[w] = "notify"
        /\ \A v \in Writers : v # w => pc'[v] = pc[v]
    BY <1>1, <1>8, Zenon DEF Commit
  <2>4. CASE at[w] = intermediate_reader_pos
    BY <1>2, <2>3, <2>4, Zenon DEF Woken
  <2>5. CASE at[w] # intermediate_reader_pos
    <3>1. ASSUME Pending' PROVE Pending
      <4>1. intermediate_reader_pos # writer_pos
        BY <1>2, <2>3, <3>1, Zenon DEF Pending
      <4>2. PICK p \in recs : p = intermediate_reader_pos /\ reader_pos <= p
        BY <1>1, <1>3, <4>1
      <4>3. hdr'[Linear(p)] = hdr[Linear(p)]
        BY <2>2, <2>5, <4>2, Zenon
      <4>4. hdr'[Linear(p)].state # "busy"
        BY <1>2, <3>1, <4>2, Zenon DEF Pending, Header
      <4> QED
        BY <4>1, <4>2, <4>3, <4>4, Zenon DEF Pending, Header
    <3> QED
      BY <1>2, <2>3, <3>1, Zenon DEF Woken
  <2> QED
    BY <2>4, <2>5, Zenon
<1>9. CASE Notify(w)
  <2>1. /\ UNCHANGED <<hdr, writer_pos>> /\ pc[w] = "notify"
        /\ eventfd' = (eventfd \/ Linear(reader_pos) = Linear(at[w]))
        /\ \A v \in Writers : v # w => pc'[v] = pc[v] /\ at'[v] = at[v]
    BY <1>1, <1>9, Zenon DEF Notify, Return
  <2>2. at[w] = intermediate_reader_pos => eventfd'
    BY <2>1, Zenon
  <2>3. Pending' = Pending
    BY <1>2, <2>1, Zenon DEF Pending, Header
  <2> QED
    BY <1>2, <2>1, <2>2, <2>3, Zenon DEF Woken
<1> QED
  BY <1>4, <1>5, <1>6, <1>7, <1>8, <1>9, Zenon DEF WriterStep

\* In unordered mode no record is discarded, a pass that reads nothing leaves the
\* cursors where they were, and one that reads something is followed by another.
LEMMA WakeNext ==
  ASSUME IInv, TypeOK', WakeInv, ~Reorder, [Next]_vars
  PROVE  WakeInv'
<1> USE DEF ring, writer, worker, history
<1>1. /\ pc \in [Writers -> WriterPc] /\ at \in [Writers -> Nat]
      /\ intermediate_reader_pos \in Nat /\ rpc \notin {"process", "advance"}
      /\ hdr \in [Offsets -> [size : Nat, state : HeaderState]]
  BY PositionTypes, Zenon DEF IInv, ModeInv, TypeOK
<1>2. ASSUME NEW w \in Writers, NewWriter(w) \/ WriterStep(w) \/ Kill(w) PROVE WakeInv'
  <2>1. UNCHANGED <<reader_pos, rpc, intermediate_reader_pos, new_events, head>>
    BY <1>2, Zenon
       DEF NewWriter, WriterStep, Lock, LockTimeout, ReserveFull, WriteHeader, PublishPos,
       Unlock, Fill, Commit, Notify, Kill
  <2>2. ASSUME NEW o \in Offsets PROVE hdr'[o].state # "discarded"
    <3>1. CASE UNCHANGED hdr
      BY <3>1, Zenon DEF WakeInv
    <3>2. ASSUME NEW r \in Requests, WriteHeader(w, r) PROVE hdr'[o].state # "discarded"
      BY <1>1, <3>2, Zenon DEF WakeInv, WriteHeader
    <3>3. CASE Commit(w)
      BY <1>1, <3>3, Zenon DEF WakeInv, Commit
    <3>4. UNCHANGED hdr \/ Commit(w) \/ \E r \in Requests : WriteHeader(w, r)
      BY <1>2, Zenon
         DEF NewWriter, WriterStep, Lock, LockTimeout, ReserveFull, PublishPos, Unlock, Fill,
         Notify, Kill
    <3> QED
      BY <3>1, <3>2, <3>3, <3>4, Zenon
  <2>3. rpc # "use" /\ (Pending => Woken) => (Pending' => Woken')
    BY <1>2, WriterWakes, Zenon DEF WakeInv
  <2> QED
    BY <2>1, <2>2, <2>3, Zenon DEF WakeInv
<1>3. ASSUME UNCHANGED <<hdr, writer_pos, pc, at, eventfd, intermediate_reader_pos>>
      PROVE  Pending' = Pending /\ Woken' = Woken
  BY <1>3, Zenon DEF Pending, Woken, Header
<1>4. CASE Wake \/ SkipPoll \/ RestartWorker \/ WorkerTerminates
  <2>1. /\ UNCHANGED <<hdr, reader_pos>> /\ rpc # "use" /\ rpc' \in {"open", "init", "stopped"}
        /\ intermediate_reader_pos' \in {intermediate_reader_pos, reader_pos}
    BY <1>4, Zenon DEF Wake, SkipPoll, RestartWorker, WorkerTerminates, Exit
  <2> QED
    BY <2>1, Zenon DEF WakeInv
<1>5. CASE OpenReader
  <2>1. /\ UNCHANGED <<hdr, reader_pos, intermediate_reader_pos, writer_pos>> /\ rpc = "open"
        /\ rpc' = "read" /\ head' = writer_pos
    BY <1>5, Zenon DEF OpenReader
  <2> QED
    BY <2>1, Zenon DEF WakeInv, Pending
<1>6. CASE ReadStop
  <2>1. /\ UNCHANGED <<hdr, writer_pos, pc, at, eventfd, intermediate_reader_pos>> /\ rpc = "read"
        /\ reader_pos' = intermediate_reader_pos
        /\ rpc' \in {"open", "skip", "poll"} /\ (rpc' = "poll" => ~new_events)
        /\ intermediate_reader_pos = head \/ Header(intermediate_reader_pos).state = "busy"
    BY <1>6, Zenon DEF ReadStop, AtBusyOrEnd, Limit, IInv, TypeOK
  <2>2. rpc' = "poll" => (Pending => Woken)
    BY <2>1, Zenon DEF WakeInv, Pending
  <2> QED
    BY <1>3, <2>1, <2>2 DEF WakeInv
<1>7. ~ReadSkip
  <2>1. Header(intermediate_reader_pos).state # "discarded"
    BY <1>1, LinearInRange, Zenon DEF WakeInv, Header
  <2> QED
    BY <2>1, Zenon DEF ReadSkip
<1>8. CASE ReadEvent
  <2>1. UNCHANGED <<hdr, reader_pos>> /\ rpc' = "use" /\ new_events'
    BY <1>8, Zenon DEF ReadEvent
  <2> QED
    BY <2>1, Zenon DEF WakeInv
<1>9. CASE UseEvent \/ (WorkerFails /\ rpc = "use")
  <2>1. /\ UNCHANGED <<hdr, intermediate_reader_pos>> /\ reader_pos' = intermediate_reader_pos
        /\ rpc = "use" /\ (rpc' = "stopped" \/ (rpc' = "read" /\ new_events' = new_events))
    BY <1>9, Zenon DEF UseEvent, WorkerFails, Exit
  <2> QED
    BY <2>1, Zenon DEF WakeInv
<1>10. CASE Tick \/ UNCHANGED vars
  <2>1. UNCHANGED <<hdr, writer_pos, pc, at, eventfd, intermediate_reader_pos, reader_pos, rpc,
                    new_events, head>>
    BY <1>10, Zenon DEF Tick, vars
  <2>2. Pending' = Pending /\ Woken' = Woken
    BY <1>3, <2>1, Zenon
  <2> QED
    BY <2>1, <2>2, Zenon DEF WakeInv
<1>11. /\ ~AdvanceOver /\ ~AdvanceStore /\ ~EndRound /\ ~NextRound /\ \A p \in inflight : ~ProcessTop(p)
       /\ WorkerFails => rpc = "use"
  BY <1>1, Zenon DEF AdvanceOver, AdvanceStore, EndRound, NextRound, ProcessTop, WorkerFails
<1> QED
  BY <1>2, <1>4, <1>5, <1>6, <1>7, <1>8, <1>9, <1>10, <1>11, Zenon DEF Next, WorkerStep

\* commit_internal writes the eventfd only when it finds reader_pos at its own event.
\* That loses no wakeup of the worker that does not reorder events: when it sleeps in
\* poll, whatever the interleaving of writers, passes and restarts was, the first event
\* it has not read is not complete, or the eventfd is written, or the thread that
\* committed it is about to look at reader_pos or was killed before it could.
THEOREM WakeupsNotLost == ~Reorder => (Spec => []NoLostWakeup)
<1> SUFFICES ASSUME ~Reorder PROVE Spec => []NoLostWakeup
  BY Zenon
<1>1. ASSUME Init PROVE WakeInv
  <2>1. /\ \A o \in Offsets : hdr[o].state = "committed"
        /\ rpc = "poll" /\ reader_pos = 0 /\ intermediate_reader_pos = 0 /\ writer_pos = 0
    BY <1>1, Zenon DEF Init
  <2>2. ~Pending
    BY <2>1, Zenon DEF Pending
  <2> QED
    BY <2>1, <2>2, Zenon DEF WakeInv
<1>2. IInv /\ IInv' /\ WakeInv /\ [Next]_vars => WakeInv'
  BY WakeNext, Zenon DEF IInv
<1>3. WakeInv => NoLostWakeup
  BY Zenon DEF WakeInv, NoLostWakeup, Pending, Woken
<1> QED
  BY <1>1, <1>2, <1>3, InvCorrect, PTL DEF Spec

=============================================================================
