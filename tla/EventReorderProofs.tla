------------------------- MODULE EventReorderProofs -------------------------
(***************************************************************************)
(* Proofs about EventReorder, for any ring buffers, any latency, any       *)
(* number of events, and whatever hangs up, fails or is replaced: no event *)
(* is processed twice or released before it was processed, the queue       *)
(* points to events that are still in their ring buffers, a drain leaves   *)
(* none, and events of perf ring buffers are processed in order.  All of   *)
(* it requires that hdr_time knows the records a reordering worker meets:  *)
(* without that, the processed event is not the one pop removes.           *)
(***************************************************************************)
EXTENDS EventReorder, WellFoundedInduction, TLAPS

-----------------------------------------------------------------------------
(* The inductive invariant *)

\* hdr_time knows every record that a reordering profiler meets.
TimedSetups == \A s \in Setups : s.reorder => ~s.untimed

\* The events processed so far.
Done == {processed[m] : m \in DOMAIN processed}

Rounds == {"dequeue", "process", "advance", "refill"}

Places == Rounds \cup {"poll", "return", "exit", "failed", "open", "use"}

ReorderTypes ==
  /\ setup \in Setups
  /\ clock \in Nat /\ Latency <= clock
  /\ ring \in [Rings -> Seq(0 .. MaxTime)]
  /\ read \in [Rings -> Nat] /\ released \in [Rings -> Nat] /\ hup \in [Rings -> Nat]
  /\ discarded \subseteq Rings \X Nat
  /\ rpc \in Places
  /\ i \in Rings
  /\ queue \subseteq Rings \X Nat
  /\ max_timestamp \in Nat
  /\ events \in BOOLEAN /\ stop \in BOOLEAN /\ term \in BOOLEAN
  /\ processed \in Seq(Rings \X Nat)

\* Where the worker is, and with which event.
PhaseInv ==
  /\ Reorder => ~Untimed
  /\ rpc \in Rounds => Reorder
  /\ rpc \in {"open", "use"} => ~Reorder
  /\ ~Reorder => queue = {} /\ discarded = {}
  /\ rpc \in {"advance", "refill"} => top \in queue
  /\ rpc = "advance" => TimeOf(top) <= max_timestamp
  /\ rpc = "refill" => /\ Kind[top[1]] = "perf" /\ 1 <= top[2]
                       /\ top[2] = read[top[1]] /\ released[top[1]] = read[top[1]]
  /\ rpc = "poll" => ~stop
  /\ rpc \in Rounds => IF stop THEN max_timestamp = MaxTime ELSE max_timestamp <= clock - Latency

\* The cursors of ring buffer r are in order.  A perf ring buffer is sorted, and
\* one event of it at most is read and not released.
RingAt(r) ==
  /\ released[r] <= read[r] /\ read[r] <= Len(ring[r]) /\ hup[r] <= Len(ring[r])
  /\ \A k \in Nat : <<r, k>> \in discarded => released[r] < k /\ k <= Len(ring[r])
  /\ Reorder /\ Kind[r] = "perf" =>
       /\ read[r] <= released[r] + 1
       /\ \A k \in Nat : <<r, k>> \notin discarded
       /\ \A j, k \in DOMAIN ring[r] : j <= k => ring[r][j] <= ring[r][k]

RingInv == \A r \in Rings : RingAt(r)

\* The queue holds what was read, and not discarded or released; between the
\* push and the pop of Refill also the event that was just processed.
InQueue(r, k) ==
  \/ released[r] < k /\ k <= read[r] /\ <<r, k>> \notin discarded
  \/ rpc = "refill" /\ top = <<r, k>>

QueueInv ==
  Reorder => \A r \in Rings, k \in Nat : <<r, k>> \in queue <=> InQueue(r, k)

\* What was processed is released or discarded, or is about to be.
Past(r, k) ==
  \/ 1 <= k /\ k <= released[r]
  \/ <<r, k>> \in discarded
  \/ rpc = "advance" /\ top = <<r, k>>

DoneInv ==
  /\ \A m, n \in DOMAIN processed : processed[m] = processed[n] => m = n
  /\ \A r \in Rings, k \in Nat : <<r, k>> \in Done => k \in 1 .. Len(ring[r])
  /\ rpc # "failed" => \A r \in Rings, k \in Nat : <<r, k>> \in Done <=> Past(r, k)

\* The worker has been at ring buffer r in this round.
Visited(r) == rpc \in {"process", "advance", "refill"} \/ (rpc = "dequeue" /\ r < i)

\* A worker that was replaced may have left discarded events behind those the
\* present one has read, but no release can reach over them: the last event read
\* is then too recent to be processed in this round.
AheadAt(r) ==
  \/ \A k \in Nat : <<r, k>> \in discarded => k <= read[r]
  \/ <<r, read[r]>> \in queue /\ TimeOf(<<r, read[r]>>) > max_timestamp

AheadInv == \A r \in Rings : Kind[r] = "mpsc" /\ Visited(r) => AheadAt(r)

Queued(r) == \E k \in Nat : <<r, k>> \in queue

\* All that was in the ring buffers at the hangup has been processed.
Drained == \A r \in Rings, k \in Nat : 1 <= k /\ k <= hup[r] => <<r, k>> \in Done

\* A drain: as long as a round finds nothing, what was there at the hangup has
\* been read from the ring buffers it has visited.
DrainInv ==
  stop =>
    /\ rpc \in Rounds /\ ~events =>
         \A r \in Rings : Visited(r) => hup[r] <= read[r] \/ (Kind[r] = "perf" /\ Queued(r))
    /\ rpc \in {"open", "use"} => \A r \in Rings : r < i => hup[r] <= released[r]
    /\ rpc = "use" => hup[i] <= read[i]
    /\ ~term /\ rpc \in {"return", "exit"} => Drained

PerfOnly == Reorder /\ (\A r \in Rings : Kind[r] = "perf") /\ ~stop

Unprocessed(r, k) == k \in DOMAIN ring[r] /\ <<r, k>> \notin Done

\* No event can come that belongs before e.
Settled(e) ==
  /\ TimeOf(e) <= clock - Latency
  /\ \A r \in Rings, k \in Nat : Unprocessed(r, k) => TimeOf(e) <= TimeOf(<<r, k>>)

\* The queue has an event of ring buffer r, or r has none this round could take.
Waiting(r) ==
  Queued(r) \/ \A k \in Nat : Unprocessed(r, k) => max_timestamp <= TimeOf(<<r, k>>)

Sorted == \A m, n \in DOMAIN processed : m < n => TimeOf(processed[m]) <= TimeOf(processed[n])

OrderInv ==
  PerfOnly =>
    /\ Sorted
    /\ rpc # "failed" => \A e \in Done : Settled(e)
    /\ \A r \in Rings : Visited(r) => Waiting(r)

ReorderInv ==
  ReorderTypes /\ PhaseInv /\ RingInv /\ QueueInv /\ DoneInv /\ AheadInv /\ DrainInv /\ OrderInv

-----------------------------------------------------------------------------
(* Numbers and ring buffers *)

\* Every set of numbers has a least one.
LEMMA Least ==
  ASSUME NEW S \in SUBSET Nat, NEW n0 \in S
  PROVE  \E n \in S : \A m \in S : n <= m
<1>. DEFINE R == {ss \in Nat \X Nat : ss[1] < ss[2]}
<1>1. IsWellFoundedOn(R, Nat)
  BY NatLessThanWellFounded, Zenon DEF OpToRel
<1>2. PICK x \in S : \A y \in S : ~(<<y, x>> \in R)
  <2>. HIDE DEF R
  <2>. QED  BY <1>1, WFMin, Zenon
<1>3. \A y \in S : ~(y < x)
  <2>1. \A y \in S : <<y, x>> \in Nat \X Nat
    OBVIOUS
  <2>. QED  BY <1>2, <2>1, Zenon
<1>. QED  BY <1>3

\* What was late enough stays so.
LEMMA Later ==
  ASSUME NEW a \in Nat, NEW b \in Nat, NEW l \in Nat, NEW m \in Nat, a <= b, m <= a - l
  PROVE  m <= b - l
OBVIOUS

\* A sequence is a function on its places.
LEMMA SeqOf ==
  ASSUME NEW S, NEW s \in Seq(S)
  PROVE  Len(s) \in Nat /\ DOMAIN s = 1 .. Len(s) /\ \A k \in 1 .. Len(s) : s[k] \in S
OBVIOUS

\* pes is a list of ring buffers of two kinds, and not empty.
LEMMA Kinds ==
  ASSUME ReorderTypes
  PROVE  /\ Len(Kind) \in Nat /\ 1 <= Len(Kind) /\ Rings = 1 .. Len(Kind)
         /\ \A r \in Rings : Kind[r] \in {"perf", "mpsc"}
         /\ Reorder \in BOOLEAN /\ Untimed \in BOOLEAN
BY SetupsAssumption DEF ReorderTypes, Kind, Rings, Reorder, Untimed

\* The contents of the ring buffers are times.
LEMMA Times ==
  ASSUME ReorderTypes, NEW r \in Rings
  PROVE  /\ ring[r] \in Seq(0 .. MaxTime) /\ Len(ring[r]) \in Nat
         /\ DOMAIN ring[r] = 1 .. Len(ring[r])
         /\ \A k \in Nat : TimeOf(<<r, k>>) = ring[r][k]
         /\ \A k \in 1 .. Len(ring[r]) : ring[r][k] \in Nat /\ ring[r][k] <= MaxTime
<1>1. ring[r] \in Seq(0 .. MaxTime)
  BY DEF ReorderTypes
<1>2. /\ Len(ring[r]) \in Nat /\ DOMAIN ring[r] = 1 .. Len(ring[r])
      /\ \A k \in 1 .. Len(ring[r]) : ring[r][k] \in 0 .. MaxTime
  BY <1>1, SeqOf, Zenon
<1>3. \A k \in Nat : TimeOf(<<r, k>>) = ring[r][k]
  BY DEF TimeOf
<1>. QED  BY <1>1, <1>2, <1>3, TimeAssumption

\* An event of the queue is a ring buffer and a place in it.
LEMMA QueuePair ==
  ASSUME ReorderTypes, NEW e \in queue
  PROVE  \E c \in Rings, k \in Nat : e = <<c, k>> /\ c = e[1] /\ k = e[2]
<1>1. e \in Rings \X Nat
  BY Zenon DEF ReorderTypes
<1>. QED  BY <1>1

\* Events of the queue are in their ring buffers.
LEMMA InRing ==
  ASSUME ReorderTypes, PhaseInv, RingInv, QueueInv, NEW e \in queue
  PROVE  /\ Reorder /\ e = <<e[1], e[2]>> /\ e[1] \in Rings /\ e[2] \in 1 .. Len(ring[e[1]])
         /\ TimeOf(e) \in Nat /\ TimeOf(e) <= MaxTime
<1>1. Reorder /\ e[1] \in Rings /\ e[2] \in Nat /\ e = <<e[1], e[2]>>
  BY DEF ReorderTypes, PhaseInv
<1>2. InQueue(e[1], e[2]) /\ RingAt(e[1])
  BY <1>1, Zenon DEF QueueInv, RingInv
<1>3. Len(ring[e[1]]) \in Nat /\ read[e[1]] \in Nat /\ released[e[1]] \in Nat
  BY <1>1, Times DEF ReorderTypes
<1>4. e[2] \in 1 .. Len(ring[e[1]])
  <2>1. CASE rpc = "refill" /\ top = <<e[1], e[2]>>
    BY <1>1, <1>2, <1>3, <2>1 DEF PhaseInv, RingAt
  <2>2. CASE ~(rpc = "refill" /\ top = <<e[1], e[2]>>)
    BY <1>1, <1>2, <1>3, <2>2 DEF InQueue, RingAt
  <2>. QED  BY <2>1, <2>2, Zenon
<1>5. ring[e[1]][e[2]] \in Nat /\ ring[e[1]][e[2]] <= MaxTime
  BY <1>1, <1>4, Times
<1>. QED  BY <1>1, <1>4, <1>5, Zenon DEF TimeOf

\* What the readers find: events that were not read and not discarded, with
\* only discarded ones before.
LEMMA Found ==
  ASSUME ReorderTypes, RingInv, NEW r \in Rings, NEW k \in Readable(r)
  PROVE  /\ k \in Nat /\ read[r] < k /\ k <= Len(ring[r]) /\ <<r, k>> \notin discarded
         /\ \A j \in Nat : read[r] < j /\ j < k => <<r, j>> \in discarded
         /\ Reorder /\ Kind[r] = "perf" => k = read[r] + 1
<1>1. Len(ring[r]) \in Nat /\ read[r] \in Nat
  BY Times DEF ReorderTypes
<1>2. /\ k \in Nat /\ read[r] < k /\ k <= Len(ring[r]) /\ <<r, k>> \notin discarded
      /\ \A j \in Nat : read[r] < j /\ j < k => <<r, j>> \in discarded
  BY <1>1 DEF Readable
<1>3. ASSUME Reorder /\ Kind[r] = "perf" PROVE k = read[r] + 1
  <2>1. <<r, read[r] + 1>> \notin discarded
    BY <1>1, <1>3 DEF RingInv, RingAt
  <2>. QED  BY <1>1, <1>2, <2>1
<1>. QED  BY <1>2, <1>3, Zenon

\* When they find nothing, all that is left is discarded.
LEMMA NotFound ==
  ASSUME ReorderTypes, RingInv, NEW r \in Rings, Readable(r) = {}
  PROVE  /\ \A k \in Nat : read[r] < k /\ k <= Len(ring[r]) => <<r, k>> \in discarded
         /\ Reorder /\ Kind[r] = "perf" => read[r] = Len(ring[r])
<1>1. Len(ring[r]) \in Nat /\ read[r] \in Nat /\ read[r] <= Len(ring[r])
  BY Times DEF ReorderTypes, RingInv, RingAt
<1>2. ASSUME NEW k \in Nat, read[r] < k, k <= Len(ring[r]), <<r, k>> \notin discarded
      PROVE  FALSE
  <2>. DEFINE S == {j \in Nat : read[r] < j /\ j <= Len(ring[r]) /\ <<r, j>> \notin discarded}
  <2>1. S \in SUBSET Nat /\ k \in S
    BY <1>2
  <2>2. PICK n \in S : \A m \in S : n <= m
    <3>. HIDE DEF S
    <3>. QED  BY <2>1, Least
  <2>3. \A j \in read[r] + 1 .. n - 1 : <<r, j>> \in discarded
    BY <1>1, <2>2
  <2>4. n \in Readable(r)
    BY <1>1, <2>3 DEF Readable
  <2>. QED  BY <2>4
<1>3. ASSUME Reorder /\ Kind[r] = "perf" PROVE read[r] = Len(ring[r])
  <2>1. <<r, Len(ring[r])>> \notin discarded
    BY <1>1, <1>3 DEF RingInv, RingAt
  <2>. QED  BY <1>1, <1>2, <2>1
<1>. QED  BY <1>2, <1>3, Zenon

\* mpsc_rb_advance_if_possible stops at the first event that is not discarded.
LEMMA Release ==
  ASSUME ReorderTypes, RingInv, NEW r \in Rings, NEW done,
         NEW n, n = ReleaseUpTo(r, done)
  PROVE  /\ n \in Nat /\ released[r] <= n /\ n <= Len(ring[r])
         /\ \A k \in Nat : released[r] < k /\ k <= n => <<r, k>> \in done
         /\ n < Len(ring[r]) => <<r, n + 1>> \notin done
<1>0. released[r] <= read[r] /\ read[r] <= Len(ring[r])
  BY Zenon DEF RingInv, RingAt
<1>1. /\ Len(ring[r]) \in Nat /\ released[r] \in Nat /\ released[r] <= Len(ring[r])
  <2>1. Len(ring[r]) \in Nat
    BY Times, Zenon
  <2>2. released[r] \in Nat /\ read[r] \in Nat
    BY DEF ReorderTypes
  <2>. QED  BY <1>0, <2>1, <2>2
<1>. DEFINE T == {j \in Nat : released[r] <= j /\ j <= Len(ring[r])
                              /\ (j < Len(ring[r]) => <<r, j + 1>> \notin done)}
            P(j) == /\ \A k \in released[r] + 1 .. j : <<r, k>> \in done
                    /\ j < Len(ring[r]) => <<r, j + 1>> \notin done
<1>2. T \in SUBSET Nat /\ Len(ring[r]) \in T
  BY <1>1
<1>3. PICK m \in T : \A j \in T : m <= j
  <2>. HIDE DEF T
  <2>. QED  BY <1>2, Least
<1>4. \A k \in released[r] + 1 .. m : <<r, k>> \in done
  <2>1. SUFFICES ASSUME NEW k \in released[r] + 1 .. m, <<r, k>> \notin done PROVE FALSE
    BY Zenon
  <2>2. k - 1 \in T /\ (k - 1) + 1 = k
    BY <1>1, <1>3, <2>1
  <2>. QED  BY <1>1, <1>3, <2>2
<1>5. m \in released[r] .. Len(ring[r]) /\ P(m)
  BY <1>1, <1>3, <1>4
<1>6. n = CHOOSE j \in released[r] .. Len(ring[r]) : P(j)
  BY Zenon DEF ReleaseUpTo
<1>7. n \in released[r] .. Len(ring[r]) /\ P(n)
  <2>. HIDE DEF P
  <2>. QED  BY <1>5, <1>6, Zenon
<1>. QED  BY <1>1, <1>7

-----------------------------------------------------------------------------
(* The writers and the clock *)

\* An event is appended to a ring buffer: the others stay where they are.
LEMMA Written ==
  ASSUME ReorderTypes, NEW r \in Rings, NEW t \in 0 .. MaxTime,
         setup' = setup, ring' = [ring EXCEPT ![r] = Append(@, t)]
  PROVE  /\ ring' \in [Rings -> Seq(0 .. MaxTime)]
         /\ \A q \in Rings : q # r => ring'[q] = ring[q]
         /\ Len(ring'[r]) = Len(ring[r]) + 1 /\ ring'[r][Len(ring[r]) + 1] = t
         /\ \A q \in Rings : /\ Len(ring[q]) <= Len(ring'[q])
                             /\ \A k \in 1 .. Len(ring[q]) : ring'[q][k] = ring[q][k]
<1>1. ring \in [Rings -> Seq(0 .. MaxTime)]
  BY DEF ReorderTypes
<1>2. ring'[r] = Append(ring[r], t) /\ \A q \in Rings : q # r => ring'[q] = ring[q]
  BY <1>1
<1>3. ring[r] \in Seq(0 .. MaxTime) /\ Append(ring[r], t) \in Seq(0 .. MaxTime)
  BY <1>1
<1>4. ring' \in [Rings -> Seq(0 .. MaxTime)]
  BY <1>1, <1>3
<1>5. /\ Len(ring'[r]) = Len(ring[r]) + 1 /\ ring'[r][Len(ring[r]) + 1] = t
      /\ \A k \in 1 .. Len(ring[r]) : ring'[r][k] = ring[r][k]
  BY <1>2, <1>3
<1>6. ASSUME NEW q \in Rings
      PROVE  Len(ring[q]) <= Len(ring'[q]) /\ \A k \in 1 .. Len(ring[q]) : ring'[q][k] = ring[q][k]
  <2>1. Len(ring[q]) \in Nat
    BY Times
  <2>2. CASE q = r
    BY <1>5, <2>1, <2>2
  <2>3. CASE q # r
    BY <1>2, <2>1, <2>3
  <2>. QED  BY <2>2, <2>3, Zenon
<1>. QED  BY <1>2, <1>4, <1>5, <1>6, Zenon

\* A record that is written: into a perf ring buffer in order, and not more than
\* Latency late.
LEMMA WriteKeeps ==
  ASSUME ReorderInv, NEW r \in Rings, NEW t \in 0 .. MaxTime,
         ring' = [ring EXCEPT ![r] = Append(@, t)],
         UNCHANGED <<setup, clock, cursors, rpc, round, stop, term, processed, hup>>,
         Reorder => clock - Latency <= t,
         Reorder /\ Kind[r] = "perf" => \A k \in DOMAIN ring[r] : ring[r][k] <= t
  PROVE  ReorderInv'
<1>. USE DEF ReorderInv
<1>1. /\ setup' = setup /\ clock' = clock /\ read' = read /\ released' = released
      /\ discarded' = discarded /\ rpc' = rpc /\ i' = i /\ queue' = queue /\ top' = top
      /\ max_timestamp' = max_timestamp /\ events' = events /\ stop' = stop /\ term' = term
      /\ processed' = processed /\ hup' = hup
  BY DEF cursors, round
<1>2. Rings' = Rings /\ Kind' = Kind /\ (Reorder' <=> Reorder) /\ (Untimed' <=> Untimed) /\ Done' = Done
  BY <1>1 DEF Rings, Kind, Reorder, Untimed, Done
<1>3. /\ ring' \in [Rings -> Seq(0 .. MaxTime)]
      /\ \A q \in Rings : q # r => ring'[q] = ring[q]
      /\ Len(ring'[r]) = Len(ring[r]) + 1 /\ ring'[r][Len(ring[r]) + 1] = t
      /\ \A q \in Rings : /\ Len(ring[q]) <= Len(ring'[q])
                          /\ \A k \in 1 .. Len(ring[q]) : ring'[q][k] = ring[q][k]
  BY <1>1, Written, Zenon
<1>4. ReorderTypes'
  BY <1>1, <1>2, <1>3 DEF ReorderTypes
<1>5. \A q \in Rings, k \in Nat : k \in 1 .. Len(ring[q]) => TimeOf(<<q, k>>)' = TimeOf(<<q, k>>)
  BY <1>3, <1>4, Times, SMT DEF TimeOf
<1>6. \A e \in queue : e = <<e[1], e[2]>> /\ e[1] \in Rings /\ e[2] \in Nat /\ e[2] \in 1 .. Len(ring[e[1]])
  BY InRing, SMT
<1>7. \A e \in queue : TimeOf(e)' = TimeOf(e)
  BY <1>3, <1>6 DEF TimeOf
<1>8. PhaseInv'
  BY <1>1, <1>2, <1>7 DEF PhaseInv
<1>9. ASSUME NEW q \in Rings PROVE RingAt(q)'
  <2>1. RingAt(q) /\ Len(ring[q]) \in Nat /\ Len(ring'[q]) \in Nat /\ Len(ring[q]) <= Len(ring'[q])
        /\ read[q] \in Nat /\ hup[q] \in Nat
        /\ DOMAIN ring[q] = 1 .. Len(ring[q]) /\ DOMAIN ring'[q] = 1 .. Len(ring'[q])
    <3>1. RingAt(q) /\ read[q] \in Nat /\ hup[q] \in Nat
      BY <1>9 DEF RingInv, ReorderTypes
    <3>2. ring[q] \in Seq(0 .. MaxTime) /\ ring'[q] \in Seq(0 .. MaxTime)
      BY <1>3, <1>9, Zenon DEF ReorderTypes
    <3>. QED  BY <1>3, <3>1, <3>2
  <2>2. ASSUME Reorder /\ Kind[q] = "perf", NEW j \in DOMAIN ring'[q], NEW k \in DOMAIN ring'[q], j <= k
        PROVE  ring'[q][j] <= ring'[q][k]
    <3>1. \A x, y \in 1 .. Len(ring[q]) : x <= y => ring[q][x] <= ring[q][y]
      BY <2>1, <2>2, Zenon DEF RingAt
    <3>2. CASE k \in 1 .. Len(ring[q])
      BY <1>3, <2>1, <2>2, <3>1, <3>2, SMT
    <3>3. CASE k \notin 1 .. Len(ring[q])
      <4>1. q = r
        BY <1>3, <2>1, <2>2, <3>3, SMT
      <4>2. k = Len(ring[r]) + 1 /\ ring'[r][k] = t /\ (j = k \/ j \in 1 .. Len(ring[r]))
        BY <1>3, <2>1, <2>2, <3>3, <4>1, SMT
      <4>3. CASE j = k
        BY <4>1, <4>2, <4>3, SMT
      <4>4. CASE j \in 1 .. Len(ring[r])
        BY <1>3, <2>1, <2>2, <4>1, <4>2, <4>4, SMT
      <4>. QED  BY <4>2, <4>3, <4>4
    <3>. QED  BY <3>2, <3>3
  <2>3. /\ released[q] <= read[q] /\ read[q] <= Len(ring'[q]) /\ hup[q] <= Len(ring'[q])
        /\ \A k \in Nat : <<q, k>> \in discarded => released[q] < k /\ k <= Len(ring'[q])
    BY <2>1, SMT DEF RingAt
  <2>. QED  BY <1>1, <1>2, <2>1, <2>2, <2>3 DEF RingAt
<1>10. RingInv'
  BY <1>2, <1>9 DEF RingInv
<1>11. QueueInv'
  BY <1>1, <1>2, Zenon DEF QueueInv, InQueue
<1>12. \A q \in Rings, k \in Nat : k \in 1 .. Len(ring[q]) => k \in 1 .. Len(ring'[q])
  BY <1>3, <1>4, <1>2, Times, SMT
<1>13. DoneInv'
  BY <1>1, <1>2, <1>12 DEF DoneInv, Past
<1>14. AheadInv'
  BY <1>1, <1>2, <1>7 DEF AheadInv, AheadAt, Visited
<1>15. DrainInv'
  BY <1>1, <1>2 DEF DrainInv, Visited, Queued, Drained
<1>16. ASSUME PerfOnly PROVE /\ Sorted'
                             /\ rpc # "failed" => \A e \in Done : Settled(e)'
                             /\ \A q \in Rings : Visited(q)' => Waiting(q)'
  <2>1. Reorder /\ ~stop /\ PerfOnly
    BY <1>16 DEF PerfOnly
  <2>2. \A m \in DOMAIN processed : processed[m] \in Rings \X Nat /\ processed[m] \in Done
    BY SMT DEF ReorderTypes, Done
  <2>3. \A e \in Done : e \in Rings \X Nat /\ TimeOf(e)' = TimeOf(e)
    <3>1. SUFFICES ASSUME NEW e \in Done PROVE e \in Rings \X Nat /\ TimeOf(e)' = TimeOf(e)
      OBVIOUS
    <3>2. e \in Rings \X Nat
      BY <2>2 DEF Done
    <3>3. e = <<e[1], e[2]>> /\ e[1] \in Rings /\ e[2] \in Nat
      BY <3>2, SMT
    <3>4. e[2] \in 1 .. Len(ring[e[1]])
      BY <3>3 DEF DoneInv
    <3>. QED  BY <1>5, <3>2, <3>3, <3>4
  <2>4. Sorted'
    BY <1>1, <1>16, <2>2, <2>3 DEF Sorted, OrderInv
  <2>5. ASSUME NEW q \in Rings, NEW k \in Nat, Unprocessed(q, k)'
        PROVE  \/ Unprocessed(q, k) /\ TimeOf(<<q, k>>)' = TimeOf(<<q, k>>)
               \/ TimeOf(<<q, k>>)' = t
    <3>1. k \in DOMAIN ring'[q] /\ <<q, k>> \notin Done
      BY <1>2, <2>5 DEF Unprocessed
    <3>2. k \in 1 .. Len(ring'[q]) /\ Len(ring[q]) \in Nat /\ Len(ring'[q]) \in Nat
      BY <1>2, <1>4, <3>1, Times
    <3>3. TimeOf(<<q, k>>)' = ring'[q][k]
      BY Zenon DEF TimeOf
    <3>4. CASE k \in 1 .. Len(ring[q])
      BY <1>5, <3>1, <3>4, Times DEF Unprocessed
    <3>5. CASE k \notin 1 .. Len(ring[q])
      <4>1. q = r
        BY <1>3, <3>2, <3>5
      <4>2. k = Len(ring[r]) + 1
        BY <1>3, <3>2, <3>5, <4>1, SMT
      <4>. QED  BY <1>3, <3>3, <4>1, <4>2
    <3>. QED  BY <3>4, <3>5
  <2>6. ASSUME rpc # "failed", NEW e \in Done PROVE Settled(e)'
    <3>1. Settled(e)
      BY <1>16, <2>6 DEF OrderInv
    <3>2. TimeOf(e) <= t
      <4>1. TimeOf(e) <= clock - Latency /\ clock \in Nat /\ clock - Latency <= t /\ TimeOf(e) \in Nat
        <5>1. e \in Rings \X Nat
          BY <2>3
        <5>2. e = <<e[1], e[2]>> /\ e[1] \in Rings /\ e[2] \in Nat
          BY <5>1, SMT
        <5>3. e[2] \in 1 .. Len(ring[e[1]])
          BY <5>2 DEF DoneInv
        <5>4. TimeOf(e) \in Nat
          BY <5>2, <5>3, Times DEF TimeOf
        <5>. QED  BY <2>1, <3>1, <5>4, Zenon DEF Settled, ReorderTypes
      <4>. QED  BY <4>1, TimeAssumption, SMT
    <3>. QED  BY <1>1, <1>2, <2>3, <2>5, <3>1, <3>2 DEF Settled
  <2>7. ASSUME NEW q \in Rings, Visited(q)' PROVE Waiting(q)'
    <3>1. Visited(q) /\ Waiting(q)
      BY <1>1, <1>16, <2>7 DEF Visited, OrderInv
    <3>2. rpc \in Rounds
      BY <3>1 DEF Visited, Rounds
    <3>3. max_timestamp <= clock - Latency
      BY <2>1, <3>2 DEF PhaseInv
    <3>4. max_timestamp <= t
      BY <2>1, <3>3, TimeAssumption, SMT DEF ReorderTypes
    <3>. QED  BY <1>1, <2>5, <3>1, <3>4 DEF Waiting, Queued
  <2>. QED  BY <2>4, <2>6, <2>7
<1>17. OrderInv'
  BY <1>1, <1>2, <1>16 DEF OrderInv, PerfOnly
<1>. QED  BY <1>4, <1>8, <1>10, <1>11, <1>13, <1>14, <1>15, <1>17

\* Time passes.
LEMMA TickKeeps ==
  ASSUME ReorderInv, Tick
  PROVE  ReorderInv'
<1>. USE DEF ReorderInv
<1>1. /\ setup' = setup /\ ring' = ring /\ read' = read /\ released' = released
      /\ discarded' = discarded /\ rpc' = rpc /\ i' = i /\ queue' = queue /\ top' = top
      /\ max_timestamp' = max_timestamp /\ events' = events /\ stop' = stop /\ term' = term
      /\ processed' = processed /\ hup' = hup
  BY Zenon DEF Tick, cursors, round
<1>2. clock \in Nat /\ clock' \in Nat /\ clock <= clock' /\ Latency <= clock' /\ Latency \in Nat
  BY TimeAssumption DEF Tick, ReorderTypes
<1>3. /\ Rings' = Rings /\ Kind' = Kind /\ (Reorder' <=> Reorder) /\ (Untimed' <=> Untimed)
      /\ Done' = Done /\ \A e : TimeOf(e)' = TimeOf(e)
  BY <1>1, Zenon DEF Rings, Kind, Reorder, Untimed, Done, TimeOf
<1>4. ReorderTypes'
  BY <1>1, <1>2, <1>3, Zenon DEF ReorderTypes
<1>5. max_timestamp <= clock - Latency => max_timestamp <= clock' - Latency
  <2>1. max_timestamp \in Nat
    BY Zenon DEF ReorderTypes
  <2>. QED  BY <1>2, <2>1, Later, Zenon
<1>6. PhaseInv'
  BY <1>1, <1>3, <1>5, Zenon DEF PhaseInv
<1>7. RingInv' /\ QueueInv' /\ DoneInv' /\ AheadInv' /\ DrainInv'
  BY <1>1, <1>3, Zenon DEF RingInv, RingAt, QueueInv, InQueue, DoneInv, Past, AheadInv, AheadAt,
       DrainInv, Visited, Queued, Drained
<1>8. ASSUME PerfOnly, rpc # "failed", NEW e \in Done PROVE Settled(e)'
  <2>1. Settled(e)
    BY <1>8, Zenon DEF OrderInv
  <2>2. e \in Rings \X Nat
    BY DEF ReorderTypes, Done
  <2>3. e = <<e[1], e[2]>> /\ e[1] \in Rings /\ e[2] \in Nat
    BY <2>2
  <2>4. e[2] \in 1 .. Len(ring[e[1]])
    BY <2>3, Zenon DEF DoneInv
  <2>5. TimeOf(e) \in Nat
    BY <2>3, <2>4, Times DEF TimeOf
  <2>6. TimeOf(e) <= clock' - Latency
    BY <1>2, <2>1, <2>5 DEF Settled
  <2>. QED  BY <1>1, <1>3, <2>1, <2>6, Zenon DEF Settled, Unprocessed
<1>9. OrderInv'
  BY <1>1, <1>3, <1>8, Zenon DEF OrderInv, PerfOnly, Sorted, Visited, Waiting, Queued, Unprocessed
<1>. QED  BY <1>4, <1>6, <1>7, <1>9, Zenon

\* A request to terminate only ends what a drain promises.
LEMMA TerminateKeeps ==
  ASSUME ReorderInv, Terminate
  PROVE  ReorderInv'
<1>. USE DEF ReorderInv
<1>1. /\ setup' = setup /\ clock' = clock /\ ring' = ring /\ read' = read /\ released' = released
      /\ discarded' = discarded /\ rpc' = rpc /\ i' = i /\ queue' = queue /\ top' = top
      /\ max_timestamp' = max_timestamp /\ events' = events /\ stop' = stop /\ term' = TRUE
      /\ processed' = processed /\ hup' = hup
  BY Zenon DEF Terminate, rings, cursors, round
<1>2. /\ Rings' = Rings /\ Kind' = Kind /\ (Reorder' <=> Reorder) /\ (Untimed' <=> Untimed)
      /\ Done' = Done /\ \A e : TimeOf(e)' = TimeOf(e)
  BY <1>1, Zenon DEF Rings, Kind, Reorder, Untimed, Done, TimeOf
<1>3. ReorderTypes'
  BY <1>1, <1>2, Zenon DEF ReorderTypes
<1>4. PhaseInv' /\ RingInv' /\ QueueInv' /\ DoneInv' /\ AheadInv'
  BY <1>1, <1>2, Zenon DEF PhaseInv, RingInv, RingAt, QueueInv, InQueue, DoneInv, Past, AheadInv,
       AheadAt, Visited
<1>5. DrainInv'
  BY <1>1, <1>2, Zenon DEF DrainInv, Visited, Queued
<1>6. OrderInv'
  BY <1>1, <1>2, Zenon DEF OrderInv, PerfOnly, Sorted, Settled, Visited, Waiting, Queued, Unprocessed
<1>. QED  BY <1>3, <1>4, <1>5, <1>6, Zenon

-----------------------------------------------------------------------------
(* The loop of the worker *)

\* The worker goes from one part of its loop to the next, and perhaps a new one
\* reads again what was not released.
LEMMA MoveKeeps ==
  ASSUME ReorderInv,
         setup' = setup, clock' = clock, ring' = ring, released' = released, discarded' = discarded,
         processed' = processed,
         rpc \in {"poll", "return", "process"},
         rpc' \in {"poll", "return", "exit", "dequeue", "open"}, rpc' = "dequeue" => i' = 1,
         (read' = read /\ queue' = queue) \/ (read' = released /\ queue' = {}),
         hup' = hup \/ hup' = [r \in Rings |-> Len(ring[r])],
         ~stop' => ~stop
  PROVE  /\ Rings' = Rings /\ Kind' = Kind /\ (Reorder' <=> Reorder) /\ (Untimed' <=> Untimed)
         /\ Done' = Done
         /\ RingInv' /\ QueueInv' /\ DoneInv' /\ AheadInv' /\ OrderInv'
<1>. USE DEF ReorderInv
<1>1. /\ Rings' = Rings /\ Kind' = Kind /\ (Reorder' <=> Reorder) /\ (Untimed' <=> Untimed)
      /\ Done' = Done /\ \A e : TimeOf(e)' = TimeOf(e)
  BY Zenon DEF Rings, Kind, Reorder, Untimed, Done, TimeOf
<1>2. /\ rpc \notin {"advance", "refill"} /\ rpc' \notin {"advance", "refill"} /\ rpc # "failed"
      /\ rpc' \notin {"process", "advance", "refill"}
  OBVIOUS
<1>3. \A r \in Rings : ~Visited(r)'
  <2>1. \A r \in Rings : ~(r < 1)
    BY Kinds
  <2>. QED  BY <1>2, <2>1, Zenon DEF Visited
<1>4. ASSUME NEW r \in Rings PROVE RingAt(r)'
  <2>1. RingAt(r) /\ released[r] \in Nat /\ read[r] \in Nat /\ hup[r] \in Nat /\ Len(ring[r]) \in Nat
    BY Times DEF RingInv, ReorderTypes
  <2>2. hup'[r] <= Len(ring[r])
    BY <2>1 DEF RingAt
  <2>3. released[r] <= read'[r] /\ read'[r] <= Len(ring[r]) /\ (read[r] <= released[r] + 1 => read'[r] <= released[r] + 1)
    BY <2>1 DEF RingAt
  <2>. QED  BY <1>1, <2>1, <2>2, <2>3, Zenon DEF RingAt
<1>5. RingInv'
  BY <1>1, <1>4, Zenon DEF RingInv
<1>6. QueueInv'
  <2>1. CASE read' = read /\ queue' = queue
    BY <1>1, <1>2, <2>1, Zenon DEF QueueInv, InQueue
  <2>2. CASE read' = released /\ queue' = {}
    <3>1. \A r \in Rings, k \in Nat : ~(released[r] < k /\ k <= released[r])
      BY DEF ReorderTypes
    <3>. QED  BY <1>1, <1>2, <2>2, <3>1, Zenon DEF QueueInv, InQueue
  <2>. QED  BY <2>1, <2>2, Zenon
<1>7. DoneInv'
  BY <1>1, <1>2, Zenon DEF DoneInv, Past
<1>8. AheadInv'
  BY <1>1, <1>3, Zenon DEF AheadInv
<1>9. OrderInv'
  BY <1>1, <1>2, <1>3, Zenon DEF OrderInv, PerfOnly, Sorted, Settled, Unprocessed
<1>. QED  BY <1>1, <1>5, <1>6, <1>7, <1>8, <1>9, Zenon

\* poll returns.
LEMMA PollKeeps ==
  ASSUME ReorderInv, Poll
  PROVE  ReorderInv'
<1>. USE DEF ReorderInv
<1>1. /\ setup' = setup /\ clock' = clock /\ ring' = ring /\ read' = read /\ released' = released
      /\ discarded' = discarded /\ queue' = queue /\ top' = top /\ term' = term
      /\ processed' = processed /\ rpc = "poll" /\ i' = 1 /\ events' = FALSE
      /\ rpc' = IF Reorder THEN "dequeue" ELSE "open"
      /\ max_timestamp' = IF Reorder THEN MaxTimestamp(stop') ELSE 0
      /\ stop' \in {FALSE, MayStop}
      /\ hup' = IF stop' THEN [r \in Rings |-> Len(ring[r])] ELSE hup
  BY Zenon DEF Poll, rings, cursors
<1>2. ~stop /\ stop' \in BOOLEAN
  BY <1>1, FlagsAssumption, Zenon DEF PhaseInv
<1>3. rpc' \in {"dequeue", "open"}
  BY <1>1, Zenon
<1>4. /\ Rings' = Rings /\ Kind' = Kind /\ (Reorder' <=> Reorder) /\ (Untimed' <=> Untimed)
      /\ Done' = Done
      /\ RingInv' /\ QueueInv' /\ DoneInv' /\ AheadInv' /\ OrderInv'
  <2>1. rpc' \in {"poll", "return", "exit", "dequeue", "open"} /\ rpc \in {"poll", "return", "process"}
    BY <1>1, <1>3
  <2>2. hup' = hup \/ hup' = [r \in Rings |-> Len(ring[r])]
    BY <1>1, Zenon
  <2>. QED  BY <1>1, <1>2, <2>1, <2>2, MoveKeeps, Zenon
<1>5. hup' \in [Rings -> Nat]
  BY <1>1, Times DEF ReorderTypes
<1>6. max_timestamp' \in Nat /\ (Reorder => IF stop' THEN max_timestamp' = MaxTime ELSE max_timestamp' = clock - Latency)
  BY <1>1, TimeAssumption DEF MaxTimestamp, ReorderTypes
<1>7. 1 \in Rings
  BY Kinds
<1>8. ReorderTypes'
  BY <1>1, <1>2, <1>3, <1>4, <1>5, <1>6, <1>7, Zenon DEF ReorderTypes, Places, Rounds
<1>9. PhaseInv'
  <2>1. rpc' \notin {"advance", "refill", "poll", "use"} /\ (rpc' \in Rounds => Reorder) /\ (rpc' = "open" => ~Reorder)
    BY <1>1 DEF Rounds
  <2>2. Reorder => IF stop' THEN max_timestamp' = MaxTime ELSE max_timestamp' <= clock' - Latency
    BY <1>1, <1>6, TimeAssumption DEF ReorderTypes
  <2>. QED  BY <1>1, <1>4, <2>1, <2>2 DEF PhaseInv
<1>10. DrainInv'
  <2>1. \A r \in Rings : ~(r < 1)
    BY Kinds
  <2>2. rpc' \notin {"process", "advance", "refill", "use", "return", "exit"}
    BY <1>3
  <2>3. \A r \in Rings : ~Visited(r)' /\ ~(r < i')
    BY <1>1, <2>1, <2>2, Zenon DEF Visited
  <2>. QED  BY <1>4, <2>2, <2>3, Zenon DEF DrainInv
<1>. QED  BY <1>4, <1>8, <1>9, <1>10, Zenon

\* The ring buffers are done; the worker polls again, leaves or is replaced.
LEMMA ReturnKeeps ==
  ASSUME ReorderInv, Return
  PROVE  ReorderInv'
<1>. USE DEF ReorderInv
<1>1. /\ setup' = setup /\ clock' = clock /\ ring' = ring /\ released' = released
      /\ discarded' = discarded /\ top' = top /\ stop' = stop /\ term' = term
      /\ processed' = processed /\ hup' = hup
      /\ rpc = "return" /\ max_timestamp' = 0 /\ events' = FALSE /\ i' = 1
  BY Zenon DEF Return, rings
<1>2. /\ (read' = read /\ queue' = queue) \/ (read' = released /\ queue' = {})
      /\ rpc' = "exit" \/ (rpc' = "poll" /\ ~stop)
  BY Zenon DEF Return
<1>3. rpc' \in {"poll", "exit"}
  BY <1>2, Zenon
<1>4. /\ Rings' = Rings /\ Kind' = Kind /\ (Reorder' <=> Reorder) /\ (Untimed' <=> Untimed)
      /\ Done' = Done
      /\ RingInv' /\ QueueInv' /\ DoneInv' /\ AheadInv' /\ OrderInv'
  <2>1. /\ rpc' \in {"poll", "return", "exit", "dequeue", "open"} /\ rpc \in {"poll", "return", "process"}
        /\ rpc' # "dequeue"
    BY <1>1, <1>3
  <2>. QED  BY <1>1, <1>2, <2>1, MoveKeeps, Zenon
<1>5. 1 \in Rings
  BY Kinds
<1>6. read' \in [Rings -> Nat] /\ queue' \subseteq Rings \X Nat /\ queue' \subseteq queue
  BY <1>2, Zenon DEF ReorderTypes
<1>7. rpc' \notin Rounds /\ rpc' \notin {"open", "use"} /\ rpc' \notin {"advance", "refill"} /\ rpc' \in Places
      /\ rpc' # "use" /\ rpc' # "advance" /\ rpc' # "refill"
  BY <1>3 DEF Rounds, Places
<1>8. ReorderTypes'
  BY <1>1, <1>4, <1>5, <1>6, <1>7, Zenon DEF ReorderTypes
<1>9. PhaseInv'
  BY <1>1, <1>2, <1>4, <1>6, <1>7, Zenon DEF PhaseInv
<1>10. DrainInv'
  <2>1. rpc' \in {"return", "exit"} => rpc' = "exit"
    BY <1>3
  <2>2. stop' /\ ~term' => Drained
    BY <1>1, Zenon DEF DrainInv
  <2>. QED  BY <1>1, <1>4, <1>7, <2>1, <2>2, Zenon DEF DrainInv, Drained
<1>. QED  BY <1>4, <1>8, <1>9, <1>10, Zenon

\* The loop ends on a request to terminate.
LEMMA ExitKeeps ==
  ASSUME ReorderInv, ExitOnTermination
  PROVE  ReorderInv'
<1>. USE DEF ReorderInv
<1>1. /\ setup' = setup /\ clock' = clock /\ ring' = ring /\ read' = read /\ released' = released
      /\ discarded' = discarded /\ i' = i /\ queue' = queue /\ top' = top
      /\ max_timestamp' = max_timestamp /\ events' = events /\ stop' = stop /\ term' = term
      /\ processed' = processed /\ hup' = hup
      /\ rpc = "poll" /\ rpc' = "exit" /\ term
  BY Zenon DEF ExitOnTermination, rings, cursors, round
<1>2. /\ Rings' = Rings /\ Kind' = Kind /\ (Reorder' <=> Reorder) /\ (Untimed' <=> Untimed)
      /\ Done' = Done
      /\ RingInv' /\ QueueInv' /\ DoneInv' /\ AheadInv' /\ OrderInv'
  <2>1. /\ rpc' \in {"poll", "return", "exit", "dequeue", "open"} /\ rpc \in {"poll", "return", "process"}
        /\ rpc' # "dequeue"
    BY <1>1
  <2>. QED  BY <1>1, <2>1, MoveKeeps, Zenon
<1>3. /\ rpc' \notin Rounds /\ rpc' \notin {"open", "use"} /\ rpc' \notin {"advance", "refill"}
      /\ rpc' \in Places /\ rpc' # "use" /\ rpc' # "advance" /\ rpc' # "refill" /\ rpc' # "poll"
  BY <1>1 DEF Rounds, Places
<1>4. ReorderTypes'
  BY <1>1, <1>2, <1>3, Zenon DEF ReorderTypes
<1>5. PhaseInv'
  BY <1>1, <1>2, <1>3, Zenon DEF PhaseInv
<1>6. DrainInv'
  BY <1>1, <1>3, Zenon DEF DrainInv
<1>. QED  BY <1>2, <1>4, <1>5, <1>6, Zenon

\* The end of the rounds.  In a drain no event is too recent, so that the queue
\* is empty and the last round found nothing.
LEMMA EndRoundKeeps ==
  ASSUME ReorderInv, EndRound
  PROVE  ReorderInv'
<1>. USE DEF ReorderInv
<1>1. /\ setup' = setup /\ clock' = clock /\ ring' = ring /\ read' = read /\ released' = released
      /\ discarded' = discarded /\ i' = i /\ queue' = queue /\ top' = top
      /\ max_timestamp' = max_timestamp /\ events' = events /\ stop' = stop /\ term' = term
      /\ processed' = processed /\ hup' = hup
      /\ rpc = "process" /\ rpc' = "return"
      /\ \A e \in queue : TimeOf(e) > max_timestamp
      /\ queue # {} \/ ~events \/ term \/ ~stop
  BY Zenon DEF EndRound, rings, cursors, round
<1>2. /\ Rings' = Rings /\ Kind' = Kind /\ (Reorder' <=> Reorder) /\ (Untimed' <=> Untimed)
      /\ Done' = Done
      /\ RingInv' /\ QueueInv' /\ DoneInv' /\ AheadInv' /\ OrderInv'
  <2>1. /\ rpc' \in {"poll", "return", "exit", "dequeue", "open"} /\ rpc \in {"poll", "return", "process"}
        /\ rpc' # "dequeue"
    BY <1>1
  <2>. QED  BY <1>1, <2>1, MoveKeeps, Zenon
<1>3. /\ rpc' \notin Rounds /\ rpc' \notin {"open", "use"} /\ rpc' \notin {"advance", "refill"}
      /\ rpc' \in Places /\ rpc' # "use" /\ rpc' # "advance" /\ rpc' # "refill" /\ rpc' # "poll"
  BY <1>1 DEF Rounds, Places
<1>4. ReorderTypes'
  BY <1>1, <1>2, <1>3, Zenon DEF ReorderTypes
<1>5. PhaseInv'
  BY <1>1, <1>2, <1>3, Zenon DEF PhaseInv
<1>6. ASSUME stop, ~term PROVE Drained
  <2>1. rpc \in Rounds /\ rpc \in {"process", "advance", "refill"} /\ Reorder
    BY <1>1 DEF Rounds, PhaseInv
  <2>2. max_timestamp = MaxTime
    BY <1>6, <2>1, Zenon DEF PhaseInv
  <2>3. queue = {}
    <3>1. ASSUME NEW e \in queue PROVE FALSE
      <4>1. TimeOf(e) \in Nat /\ TimeOf(e) <= MaxTime /\ TimeOf(e) > MaxTime
        BY <1>1, <2>2, InRing, Zenon
      <4>. QED  BY <4>1, TimeAssumption
    <3>. QED  BY <3>1, Zenon
  <2>4. ~events
    BY <1>1, <1>6, <2>3, Zenon
  <2>5. SUFFICES ASSUME NEW r \in Rings, NEW k \in Nat, 1 <= k, k <= hup[r] PROVE <<r, k>> \in Done
    BY Zenon DEF Drained
  <2>6. hup[r] <= read[r]
    BY <1>6, <2>1, <2>3, <2>4, Zenon DEF DrainInv, Visited, Queued
  <2>7. ~InQueue(r, k)
    BY <2>1, <2>3, Zenon DEF QueueInv
  <2>8. k <= released[r] \/ <<r, k>> \in discarded
    BY <2>5, <2>6, <2>7 DEF InQueue, ReorderTypes
  <2>9. Past(r, k) /\ rpc # "failed"
    BY <1>1, <2>5, <2>8 DEF Past
  <2>. QED  BY <2>9, Zenon DEF DoneInv
<1>7. DrainInv'
  <2>1. stop' /\ ~term' => Drained'
    BY <1>1, <1>2, <1>6, Zenon DEF Drained
  <2>. QED  BY <1>3, <2>1, Zenon DEF DrainInv
<1>. QED  BY <1>2, <1>4, <1>5, <1>7, Zenon

\* Another round.
LEMMA NextRoundKeeps ==
  ASSUME ReorderInv, NextRound
  PROVE  ReorderInv'
<1>. USE DEF ReorderInv
<1>1. /\ setup' = setup /\ clock' = clock /\ ring' = ring /\ read' = read /\ released' = released
      /\ discarded' = discarded /\ queue' = queue /\ top' = top /\ stop' = stop /\ term' = term
      /\ processed' = processed /\ hup' = hup /\ i' = 1 /\ events' = FALSE
      /\ rpc = "process" /\ rpc' = "dequeue" /\ max_timestamp' = MaxTimestamp(stop)
  BY Zenon DEF NextRound, rings, cursors
<1>2. /\ Rings' = Rings /\ Kind' = Kind /\ (Reorder' <=> Reorder) /\ (Untimed' <=> Untimed)
      /\ Done' = Done
      /\ RingInv' /\ QueueInv' /\ DoneInv' /\ AheadInv' /\ OrderInv'
  <2>1. /\ rpc' \in {"poll", "return", "exit", "dequeue", "open"} /\ rpc \in {"poll", "return", "process"}
    BY <1>1
  <2>. QED  BY <1>1, <2>1, MoveKeeps, Zenon
<1>3. /\ rpc' \in Rounds /\ rpc \in Rounds /\ rpc' \notin {"open", "use"} /\ rpc' \notin {"advance", "refill"}
      /\ rpc' \in Places /\ rpc' # "use" /\ rpc' # "advance" /\ rpc' # "refill" /\ rpc' # "poll"
      /\ rpc' \notin {"return", "exit"} /\ rpc' \notin {"process", "advance", "refill"}
  BY <1>1 DEF Rounds, Places
<1>4. /\ max_timestamp' \in Nat
      /\ IF stop THEN max_timestamp' = MaxTime ELSE max_timestamp' <= clock - Latency
  BY <1>1, TimeAssumption DEF MaxTimestamp, ReorderTypes
<1>5. 1 \in Rings /\ \A r \in Rings : ~(r < 1)
  BY Kinds
<1>6. ReorderTypes'
  BY <1>1, <1>2, <1>3, <1>4, <1>5, Zenon DEF ReorderTypes
<1>7. PhaseInv'
  BY <1>1, <1>2, <1>3, <1>4, Zenon DEF PhaseInv
<1>8. DrainInv'
  BY <1>1, <1>2, <1>3, <1>5, Zenon DEF DrainInv, Visited
<1>. QED  BY <1>2, <1>6, <1>7, <1>8, Zenon

\* An event fails, and there is no worker any more.
LEMMA FailsKeeps ==
  ASSUME ReorderInv, ProcessFails
  PROVE  ReorderInv'
<1>. USE DEF ReorderInv
<1>1. /\ setup' = setup /\ clock' = clock /\ ring' = ring /\ read' = read
      /\ discarded' = discarded /\ i' = i /\ queue' = queue /\ top' = top
      /\ max_timestamp' = max_timestamp /\ events' = events /\ stop' = stop /\ term' = term
      /\ processed' = processed /\ hup' = hup /\ rpc' = "failed"
  BY Zenon DEF ProcessFails, rings, round
<1>2. /\ Rings' = Rings /\ Kind' = Kind /\ (Reorder' <=> Reorder) /\ (Untimed' <=> Untimed)
      /\ Done' = Done /\ \A e : TimeOf(e)' = TimeOf(e)
  BY <1>1, Zenon DEF Rings, Kind, Reorder, Untimed, Done, TimeOf
<1>3. /\ rpc' \notin Rounds /\ rpc' \notin {"open", "use"} /\ rpc' \notin {"advance", "refill"}
      /\ rpc' \in Places /\ rpc' # "use" /\ rpc' # "advance" /\ rpc' # "refill" /\ rpc' # "poll"
      /\ rpc' \notin {"return", "exit"} /\ \A r \in Rings : ~Visited(r)'
  BY <1>1 DEF Rounds, Places, Visited
<1>4. \/ rpc = "process" /\ released' = released
      \/ ~Reorder /\ rpc = "use" /\ read[i] > released[i]
         /\ released' = [released EXCEPT ![i] = IF Kind[i] = "perf" THEN read[i] ELSE @ + 1]
  BY DEF ProcessFails, PhaseInv
<1>5. released' \in [Rings -> Nat] /\ \A r \in Rings : released'[r] <= read[r]
  <2>1. released \in [Rings -> Nat] /\ read \in [Rings -> Nat] /\ \A r \in Rings : released[r] <= read[r]
    BY Zenon DEF ReorderTypes, RingInv, RingAt
  <2>. HIDE DEF ReorderInv
  <2>. QED  BY <1>4, <2>1
<1>6. ReorderTypes'
  BY <1>1, <1>2, <1>3, <1>5, Zenon DEF ReorderTypes
<1>7. PhaseInv'
  BY <1>1, <1>2, <1>3, Zenon DEF PhaseInv
<1>8. RingInv'
  <2>1. CASE released' = released
    BY <1>1, <1>2, <2>1, Zenon DEF RingInv, RingAt
  <2>2. CASE ~Reorder
    <3>1. discarded = {}
      BY <2>2, Zenon DEF PhaseInv
    <3>. QED  BY <1>1, <1>2, <1>5, <2>2, <3>1, Zenon DEF RingInv, RingAt
  <2>. QED  BY <1>4, <2>1, <2>2, Zenon
<1>9. QueueInv'
  <2>1. Reorder => released' = released /\ rpc # "refill"
    BY <1>4
  <2>. QED  BY <1>1, <1>2, <1>3, <2>1, Zenon DEF QueueInv, InQueue
<1>10. DoneInv' /\ AheadInv' /\ DrainInv'
  BY <1>1, <1>2, <1>3, Zenon DEF DoneInv, AheadInv, DrainInv
<1>11. OrderInv'
  BY <1>1, <1>2, <1>3, Zenon DEF OrderInv, PerfOnly, Sorted
<1>. QED  BY <1>6, <1>7, <1>8, <1>9, <1>10, <1>11, Zenon

-----------------------------------------------------------------------------
(* Reading *)

\* The read cursor of ring buffer r moves to n.
LEMMA ReadMoves ==
  ASSUME ReorderTypes, RingInv, NEW r \in Rings, NEW n \in Nat, read[r] <= n, n <= Len(ring[r]),
         Reorder /\ Kind[r] = "perf" => n <= released[r] + 1,
         read' = [read EXCEPT ![r] = n],
         setup' = setup, ring' = ring, released' = released, discarded' = discarded, hup' = hup
  PROVE  /\ read' \in [Rings -> Nat] /\ read'[r] = n /\ \A q \in Rings : q # r => read'[q] = read[q]
         /\ RingInv'
<1>1. read' \in [Rings -> Nat] /\ read'[r] = n /\ \A q \in Rings : q # r => read'[q] = read[q]
  BY DEF ReorderTypes
<1>2. Rings' = Rings /\ Kind' = Kind /\ (Reorder' <=> Reorder)
  BY Zenon DEF Rings, Kind, Reorder
<1>3. ASSUME NEW q \in Rings PROVE RingAt(q)'
  <2>1. RingAt(q)
    BY <1>3, Zenon DEF RingInv
  <2>2. CASE q = r
    <3>1. released[r] <= n
      BY <2>1, <2>2 DEF RingAt, ReorderTypes
    <3>. QED  BY <1>1, <1>2, <2>1, <2>2, <3>1, Zenon DEF RingAt
  <2>3. CASE q # r
    BY <1>1, <1>2, <2>1, <2>3, Zenon DEF RingAt
  <2>. QED  BY <2>2, <2>3, Zenon
<1>. QED  BY <1>1, <1>2, <1>3, Zenon DEF RingInv

\* Where the loop over pes goes.
LEMMA NextRingIs ==
  ASSUME ReorderTypes, rpc = "dequeue", NextRing, setup' = setup
  PROVE  /\ i' \in Rings /\ rpc' \in {"dequeue", "process"}
         /\ \A r \in Rings : Visited(r)' => Visited(r) \/ r = i
<1>1. Len(Kind) \in Nat /\ 1 <= Len(Kind) /\ Rings = 1 .. Len(Kind) /\ i \in Rings
  BY Kinds, Zenon DEF ReorderTypes
<1>2. CASE i < Len(Kind)
  BY <1>1, <1>2 DEF NextRing, Visited
<1>3. CASE ~(i < Len(Kind))
  BY <1>1, <1>3 DEF NextRing, Visited
<1>. QED  BY <1>2, <1>3, Zenon

\* A step that reads ring buffer c up to n, where only n may be an event that
\* was not discarded, and which is then put into the queue.
LEMMA DequeueKeeps ==
  ASSUME ReorderInv, rpc = "dequeue", NEW c \in Rings, c = i,
         setup' = setup, clock' = clock, ring' = ring, released' = released, discarded' = discarded,
         top' = top, max_timestamp' = max_timestamp, stop' = stop, term' = term,
         processed' = processed, hup' = hup,
         NEW n \in Nat, read[c] <= n, n <= Len(ring[c]),
         Kind[c] = "perf" => n <= released[c] + 1,
         read' = [read EXCEPT ![c] = n],
         \/ /\ queue' = queue \cup {<<c, n>>} /\ read[c] < n /\ <<c, n>> \notin discarded
            /\ \A j \in Nat : read[c] < j /\ j < n => <<c, j>> \in discarded
            /\ events' = TRUE
         \/ /\ queue' = queue /\ events' = events
            /\ \A j \in Nat : read[c] < j /\ j <= n => <<c, j>> \in discarded,
         rpc' \in {"dequeue", "process"}, i' \in Rings,
         \A r \in Rings : Visited(r)' => Visited(r) \/ r = c,
         Visited(c)' => /\ Kind[c] = "mpsc" => AheadAt(c)'
                        /\ stop /\ ~events' => hup[c] <= n \/ (Kind[c] = "perf" /\ Queued(c)')
                        /\ PerfOnly => Waiting(c)'
  PROVE  ReorderInv'
<1>. USE DEF ReorderInv
<1>1. /\ Rings' = Rings /\ Kind' = Kind /\ (Reorder' <=> Reorder) /\ (Untimed' <=> Untimed)
      /\ Done' = Done /\ \A e : TimeOf(e)' = TimeOf(e)
  BY Zenon DEF Rings, Kind, Reorder, Untimed, Done, TimeOf
<1>2. c \in Rings /\ released[c] \in Nat /\ read[c] \in Nat /\ rpc \in Rounds /\ RingAt(c)
  BY DEF ReorderTypes, Rounds, RingInv
<1>3. Reorder
  BY <1>2, Zenon DEF PhaseInv
<1>4. /\ rpc' \in Rounds /\ rpc' \in Places /\ rpc' \notin {"open", "use"} /\ rpc' # "use"
      /\ rpc' \notin {"advance", "refill"} /\ rpc' # "advance" /\ rpc' # "refill" /\ rpc' # "poll"
      /\ rpc' \notin {"return", "exit"} /\ rpc' # "failed"
      /\ rpc # "advance" /\ rpc # "refill" /\ rpc # "failed"
  BY DEF Rounds, Places
<1>5. read' \in [Rings -> Nat] /\ read'[c] = n /\ (\A q \in Rings : q # c => read'[q] = read[q]) /\ RingInv'
  BY <1>2, ReadMoves, Zenon
<1>6. queue \subseteq queue' /\ queue' \subseteq queue \cup {<<c, n>>} /\ events' \in BOOLEAN /\ (~events' => ~events)
  BY Zenon DEF ReorderTypes
<1>7. ReorderTypes'
  <2>1. <<c, n>> \in Rings \X Nat
    BY <1>2
  <2>2. queue' \subseteq Rings \X Nat
    BY <1>6, <2>1, Zenon DEF ReorderTypes
  <2>. QED  BY <1>1, <1>4, <1>5, <1>6, <2>2, Zenon DEF ReorderTypes
<1>8. PhaseInv'
  BY <1>1, <1>2, <1>3, <1>4, Zenon DEF PhaseInv
<1>9. QueueInv'
  <2>1. SUFFICES ASSUME NEW r \in Rings, NEW k \in Nat PROVE <<r, k>> \in queue' <=> InQueue(r, k)'
    BY <1>1, Zenon DEF QueueInv
  <2>2. <<r, k>> \in queue <=> released[r] < k /\ k <= read[r] /\ <<r, k>> \notin discarded
    BY <1>3, <1>4, Zenon DEF QueueInv, InQueue
  <2>3. InQueue(r, k)' <=> released[r] < k /\ k <= read'[r] /\ <<r, k>> \notin discarded
    BY <1>4, Zenon DEF InQueue
  <2>4. CASE r # c
    <3>1. <<r, k>> # <<c, n>> /\ read'[r] = read[r]
      BY <1>5, <2>4
    <3>. QED  BY <1>6, <2>2, <2>3, <3>1, Zenon
  <2>5. CASE r = c
    <3>1. <<c, k>> = <<c, n>> <=> k = n
      OBVIOUS
    <3>2. released[c] <= read[c]
      BY <1>2, Zenon DEF RingAt
    <3>3. released[c] < k /\ k <= read[c] => k <= n
      BY <1>2
    <3>4. CASE /\ queue' = queue \cup {<<c, n>>} /\ read[c] < n /\ <<c, n>> \notin discarded
               /\ \A j \in Nat : read[c] < j /\ j < n => <<c, j>> \in discarded
      <4>1. k <= n => k = n \/ k < n
        OBVIOUS
      <4>2. k <= read[c] \/ read[c] < k
        BY <1>2
      <4>3. released[c] < n /\ n <= n
        BY <1>2, <3>2, <3>4
      <4>. QED  BY <1>5, <2>2, <2>3, <2>5, <3>1, <3>3, <3>4, <4>1, <4>2, <4>3, Zenon
    <3>5. CASE /\ queue' = queue
               /\ \A j \in Nat : read[c] < j /\ j <= n => <<c, j>> \in discarded
      <4>1. k <= read[c] \/ read[c] < k
        BY <1>2
      <4>. QED  BY <1>5, <2>2, <2>3, <2>5, <3>3, <3>5, <4>1, Zenon
    <3>. QED  BY <3>4, <3>5, Zenon
  <2>. QED  BY <2>4, <2>5, Zenon
<1>10. DoneInv'
  BY <1>1, <1>4, Zenon DEF DoneInv, Past
<1>11. \A q \in Rings : Queued(q) => Queued(q)'
  BY <1>6, Zenon DEF Queued
<1>12. AheadInv'
  <2>1. SUFFICES ASSUME NEW r \in Rings, Kind[r] = "mpsc", Visited(r)', r # c PROVE AheadAt(r)'
    BY <1>1, Zenon DEF AheadInv
  <2>2. AheadAt(r) /\ read'[r] = read[r]
    BY <1>5, <2>1, Zenon DEF AheadInv
  <2>. QED  BY <1>1, <1>6, <2>2, Zenon DEF AheadAt
<1>13. DrainInv'
  <2>1. ASSUME stop, ~events', NEW r \in Rings, Visited(r)'
        PROVE  hup[r] <= read'[r] \/ (Kind[r] = "perf" /\ Queued(r)')
    <3>1. CASE r = c
      BY <1>5, <2>1, <3>1, Zenon
    <3>2. CASE r # c
      BY <1>2, <1>5, <1>6, <1>11, <2>1, <3>2, Zenon DEF DrainInv
    <3>. QED  BY <3>1, <3>2, Zenon
  <2>. QED  BY <1>1, <1>4, <2>1, Zenon DEF DrainInv
<1>14. OrderInv'
  <2>1. ASSUME PerfOnly, NEW r \in Rings, Visited(r)' PROVE Waiting(r)'
    <3>1. CASE r = c
      BY <2>1, <3>1, Zenon
    <3>2. CASE r # c
      <4>1. Waiting(r)
        BY <2>1, <3>2, Zenon DEF OrderInv
      <4>. QED  BY <1>1, <1>11, <4>1, Zenon DEF Waiting, Unprocessed
    <3>. QED  BY <3>1, <3>2, Zenon
  <2>. QED  BY <1>1, <1>4, <2>1, Zenon DEF OrderInv, PerfOnly, Sorted, Settled, Unprocessed
<1>. QED  BY <1>5, <1>7, <1>8, <1>9, <1>10, <1>12, <1>13, <1>14, Zenon

\* The next event of a perf ring buffer that has none in the queue.
LEMMA DequeuePerfKeeps ==
  ASSUME ReorderInv, DequeuePerf
  PROVE  ReorderInv'
<1>. USE DEF ReorderInv
<1>1. /\ setup' = setup /\ clock' = clock /\ ring' = ring /\ released' = released
      /\ discarded' = discarded /\ top' = top /\ max_timestamp' = max_timestamp /\ stop' = stop
      /\ term' = term /\ processed' = processed /\ hup' = hup
      /\ rpc = "dequeue" /\ Kind[i] = "perf" /\ NextRing
  BY Zenon DEF DequeuePerf, rings
<1>0. PICK c \in Rings : c = i
  BY Zenon DEF ReorderTypes
<1>2. /\ c \in Rings /\ released[c] \in Nat /\ read[c] \in Nat /\ rpc \in Rounds /\ RingAt(c)
      /\ read \in [Rings -> Nat] /\ Len(ring[c]) \in Nat /\ Kind[c] = "perf" /\ Kind[c] # "mpsc"
  BY <1>0, <1>1, Times DEF ReorderTypes, Rounds, RingInv
<1>3. Reorder
  BY <1>2, Zenon DEF PhaseInv
<1>4. /\ i' \in Rings /\ rpc' \in {"dequeue", "process"}
      /\ \A r \in Rings : Visited(r)' => Visited(r) \/ r = c
  BY <1>0, <1>1, NextRingIs, Zenon
<1>5. Done' = Done /\ \A e : TimeOf(e)' = TimeOf(e)
  BY <1>1, Zenon DEF Done, TimeOf
<1>6. ASSUME NEW k \in Readable(c), read[c] = released[c], read' = [read EXCEPT ![c] = k],
             queue' = queue \cup {<<c, k>>}, events' = TRUE
      PROVE  ReorderInv'
  <2>1. /\ k \in Nat /\ read[c] < k /\ k <= Len(ring[c]) /\ <<c, k>> \notin discarded
        /\ \A j \in Nat : read[c] < j /\ j < k => <<c, j>> \in discarded
        /\ k = read[c] + 1
    BY <1>1, <1>2, <1>3, <1>6, Found, Zenon
  <2>2. read[c] <= k /\ k <= released[c] + 1
    BY <1>2, <1>6, <2>1
  <2>3. Queued(c)'
    BY <1>6, <2>1, Zenon DEF Queued
  <2>. QED  BY <1>0, <1>1, <1>2, <1>4, <1>6, <2>1, <2>2, <2>3, DequeueKeeps, Zenon DEF Waiting
<1>7. ASSUME read[c] # released[c] \/ Readable(c) = {}, read' = read, queue' = queue, events' = events
      PROVE  ReorderInv'
  <2>1. read' = [read EXCEPT ![c] = read[c]]
    BY <1>2, <1>7
  <2>2. /\ read[c] <= read[c] /\ read[c] <= Len(ring[c]) /\ read[c] <= released[c] + 1
        /\ \A j \in Nat : ~(read[c] < j /\ j <= read[c])
    BY <1>1, <1>2, <1>3 DEF RingAt
  <2>3. hup[c] <= read[c] \/ Queued(c)'
    <3>1. CASE Readable(c) = {}
      BY <1>1, <1>2, <1>3, <3>1, NotFound, Zenon DEF RingAt
    <3>2. CASE read[c] # released[c]
      BY <1>1, <1>2, <1>3, <1>7, <3>2 DEF RingAt, QueueInv, InQueue, Queued
    <3>. QED  BY <1>7, <3>1, <3>2, Zenon
  <2>4. Waiting(c)'
    <3>1. CASE read[c] = released[c]
      <4>1. read[c] = Len(ring[c])
        BY <1>1, <1>2, <1>3, <1>7, <3>1, NotFound, Zenon
      <4>2. ASSUME NEW k \in Nat, Unprocessed(c, k)' PROVE FALSE
        <5>1. k \in 1 .. Len(ring[c]) /\ <<c, k>> \notin Done
          BY <1>1, <1>2, <1>5, <4>2, Times DEF Unprocessed
        <5>2. Past(c, k) /\ rpc # "failed"
          BY <1>1, <1>2, <3>1, <4>1, <5>1 DEF Past
        <5>. QED  BY <1>2, <5>1, <5>2, Zenon DEF DoneInv
      <4>. QED  BY <4>2, Zenon DEF Waiting
    <3>2. CASE read[c] # released[c]
      <4>1. Queued(c)'
        BY <1>1, <1>2, <1>3, <1>7, <3>2 DEF RingAt, QueueInv, InQueue, Queued
      <4>. QED  BY <4>1, Zenon DEF Waiting
    <3>. QED  BY <3>1, <3>2, Zenon
  <2>. QED  BY <1>0, <1>1, <1>2, <1>4, <1>7, <2>1, <2>2, <2>3, <2>4, DequeueKeeps, Zenon
<1>. QED  BY <1>0, <1>6, <1>7, Zenon DEF DequeuePerf

\* An event of an MPSC ring buffer, or its end.
LEMMA DequeueMPSCKeeps ==
  ASSUME ReorderInv, DequeueMPSC
  PROVE  ReorderInv'
<1>. USE DEF ReorderInv
<1>1. /\ setup' = setup /\ clock' = clock /\ ring' = ring /\ released' = released
      /\ discarded' = discarded /\ top' = top /\ max_timestamp' = max_timestamp /\ stop' = stop
      /\ term' = term /\ processed' = processed /\ hup' = hup
      /\ rpc = "dequeue" /\ Kind[i] = "mpsc"
  BY Zenon DEF DequeueMPSC, rings
<1>2. PICK c \in Rings : c = i
  BY Zenon DEF ReorderTypes
<1>3. /\ released[c] \in Nat /\ read[c] \in Nat /\ rpc \in Rounds /\ RingAt(c)
      /\ read \in [Rings -> Nat] /\ Len(ring[c]) \in Nat /\ Kind[c] # "perf" /\ ~PerfOnly
  BY <1>1, <1>2, Times, Zenon DEF ReorderTypes, Rounds, RingInv, PerfOnly
<1>4. \A e : TimeOf(e)' = TimeOf(e)
  BY <1>1, Zenon DEF TimeOf
<1>5. ASSUME NEW k \in Readable(c), read' = [read EXCEPT ![c] = k],
             queue' = queue \cup {<<c, k>>}, events' = TRUE,
             IF TimeOf(<<c, k>>) > max_timestamp THEN NextRing ELSE UNCHANGED <<i, rpc>>
      PROVE  ReorderInv'
  <2>1. /\ k \in Nat /\ read[c] < k /\ k <= Len(ring[c]) /\ <<c, k>> \notin discarded
        /\ \A j \in Nat : read[c] < j /\ j < k => <<c, j>> \in discarded
    BY <1>5, Found, Zenon
  <2>2. read[c] <= k /\ read'[c] = k
    BY <1>3, <1>5, <2>1
  <2>3. CASE TimeOf(<<c, k>>) > max_timestamp
    <3>1. /\ i' \in Rings /\ rpc' \in {"dequeue", "process"}
          /\ \A r \in Rings : Visited(r)' => Visited(r) \/ r = c
      BY <1>1, <1>2, <1>5, <2>3, NextRingIs, Zenon
    <3>2. AheadAt(c)'
      <4>1. TimeOf(<<c, read[c]>>)' = TimeOf(<<c, k>>)
        BY <1>1, <2>2, Zenon DEF TimeOf
      <4>2. <<c, k>> \in queue'
        BY <1>5, Zenon
      <4>3. TimeOf(<<c, read[c]>>)' > max_timestamp'
        BY <1>1, <2>3, <4>1, Zenon
      <4>. QED  BY <2>2, <4>2, <4>3, Zenon DEF AheadAt
    <3>. QED  BY <1>1, <1>2, <1>3, <1>5, <2>1, <2>2, <3>1, <3>2, DequeueKeeps, Zenon
  <2>4. CASE ~(TimeOf(<<c, k>>) > max_timestamp)
    <3>1. i' = i /\ rpc' = rpc
      BY <1>5, <2>4, Zenon
    <3>2. /\ i' \in Rings /\ rpc' \in {"dequeue", "process"}
          /\ \A r \in Rings : Visited(r)' => Visited(r) \/ r = c
      BY <1>1, <1>2, <3>1, Zenon DEF Visited
    <3>3. ~Visited(c)'
      BY <1>1, <1>2, <3>1, Kinds DEF Visited
    <3>. QED  BY <1>1, <1>2, <1>3, <1>5, <2>1, <2>2, <3>2, <3>3, DequeueKeeps, Zenon
  <2>. QED  BY <2>3, <2>4, Zenon
<1>6. ASSUME Readable(c) = {}, read' = [read EXCEPT ![c] = Len(ring[c])], queue' = queue,
             events' = events, NextRing
      PROVE  ReorderInv'
  <2>1. /\ i' \in Rings /\ rpc' \in {"dequeue", "process"}
        /\ \A r \in Rings : Visited(r)' => Visited(r) \/ r = c
    BY <1>1, <1>2, <1>6, NextRingIs, Zenon
  <2>2. \A j \in Nat : read[c] < j /\ j <= Len(ring[c]) => <<c, j>> \in discarded
    BY <1>6, NotFound, Zenon
  <2>3. read[c] <= Len(ring[c]) /\ Len(ring[c]) <= Len(ring[c]) /\ hup[c] <= Len(ring[c])
    BY <1>3 DEF RingAt
  <2>4. AheadAt(c)'
    <3>1. read'[c] = Len(ring[c])
      BY <1>3, <1>6
    <3>2. \A k \in Nat : <<c, k>> \in discarded => k <= Len(ring[c])
      BY <1>3, Zenon DEF RingAt
    <3>. QED  BY <1>1, <3>1, <3>2, Zenon DEF AheadAt
  <2>. QED  BY <1>1, <1>2, <1>3, <1>6, <2>1, <2>2, <2>3, <2>4, DequeueKeeps, Zenon
<1>7. \/ \E k \in Readable(c) :
           /\ read' = [read EXCEPT ![c] = k]
           /\ queue' = queue \cup {<<c, k>>}
           /\ events' = TRUE
           /\ IF TimeOf(<<c, k>>) > max_timestamp THEN NextRing ELSE UNCHANGED <<i, rpc>>
      \/ /\ Readable(c) = {}
         /\ read' = [read EXCEPT ![c] = Len(ring[c])]
         /\ queue' = queue /\ events' = events
         /\ NextRing
  BY <1>2, Zenon DEF DequeueMPSC
<1>. QED  BY <1>5, <1>6, <1>7, Zenon

-----------------------------------------------------------------------------
(* Processing *)

\* The list of processed events grows by e.
LEMMA Appended ==
  ASSUME ReorderTypes, NEW e \in Rings \X Nat, processed' = Append(processed, e)
  PROVE  /\ processed' \in Seq(Rings \X Nat)
         /\ Done' = Done \cup {e}
         /\ e \notin Done /\ (\A m, n \in DOMAIN processed : processed[m] = processed[n] => m = n) =>
              \A m, n \in DOMAIN processed' : processed'[m] = processed'[n] => m = n
         /\ \A m \in DOMAIN processed' :
              \/ m \in DOMAIN processed /\ processed'[m] = processed[m]
              \/ processed'[m] = e /\ \A n \in DOMAIN processed' : ~(m < n)
<1>1. processed \in Seq(Rings \X Nat)
  BY DEF ReorderTypes
<1>2. /\ processed' \in Seq(Rings \X Nat) /\ Len(processed) \in Nat
      /\ DOMAIN processed = 1 .. Len(processed) /\ DOMAIN processed' = 1 .. Len(processed) + 1
      /\ \A m \in 1 .. Len(processed) : processed'[m] = processed[m]
      /\ processed'[Len(processed) + 1] = e
  BY <1>1
<1>3. ASSUME NEW m \in DOMAIN processed'
      PROVE  \/ m \in DOMAIN processed /\ processed'[m] = processed[m]
             \/ processed'[m] = e /\ m = Len(processed) + 1
  BY <1>2
<1>4. Done' = Done \cup {e}
  <2>1. Done' \subseteq Done \cup {e}
    BY <1>3, Zenon DEF Done
  <2>2. Done \subseteq Done'
    <3>1. \A m \in DOMAIN processed : m \in DOMAIN processed' /\ processed'[m] = processed[m]
      BY <1>2
    <3>. QED  BY <3>1, Zenon DEF Done
  <2>3. e \in Done'
    <3>1. Len(processed) + 1 \in DOMAIN processed'
      BY <1>2
    <3>. QED  BY <1>2, <3>1, Zenon DEF Done
  <2>. QED  BY <2>1, <2>2, <2>3, Zenon
<1>5. ASSUME e \notin Done, \A m, n \in DOMAIN processed : processed[m] = processed[n] => m = n,
             NEW m \in DOMAIN processed', NEW n \in DOMAIN processed', processed'[m] = processed'[n]
      PROVE  m = n
  <2>1. \A x \in DOMAIN processed : processed[x] # e
    BY <1>5, Zenon DEF Done
  <2>. QED  BY <1>3, <1>5, <2>1, Zenon
<1>6. \A m \in DOMAIN processed' : m = Len(processed) + 1 => \A n \in DOMAIN processed' : ~(m < n)
  BY <1>2
<1>. QED  BY <1>2, <1>3, <1>4, <1>5, <1>6, Zenon

\* The top of the queue is processed.  It was not before; and in a round without
\* MPSC ring buffers there is no event left, or to come, that belongs before it.
LEMMA ProcessKeeps ==
  ASSUME ReorderInv, NEW e \in queue, Process(e)
  PROVE  ReorderInv'
<1>. USE DEF ReorderInv
<1>1. /\ setup' = setup /\ clock' = clock /\ ring' = ring /\ read' = read /\ released' = released
      /\ discarded' = discarded /\ i' = i /\ queue' = queue /\ max_timestamp' = max_timestamp
      /\ events' = events /\ stop' = stop /\ term' = term /\ hup' = hup
      /\ rpc = "process" /\ rpc' = "advance" /\ top' = e
      /\ processed' = Append(processed, e) /\ TimeOf(e) <= max_timestamp
      /\ \A f \in queue : TimeOf(e) <= TimeOf(f)
  BY Zenon DEF Process, IsTop, rings, cursors
<1>2. /\ Rings' = Rings /\ Kind' = Kind /\ (Reorder' <=> Reorder) /\ (Untimed' <=> Untimed)
      /\ \A f : TimeOf(f)' = TimeOf(f)
  BY <1>1, Zenon DEF Rings, Kind, Reorder, Untimed, TimeOf
<1>3. /\ rpc' \in Rounds /\ rpc \in Rounds /\ rpc' \in Places /\ rpc' \notin {"open", "use"}
      /\ rpc' # "use" /\ rpc' # "refill" /\ rpc' # "poll" /\ rpc' \notin {"return", "exit"}
      /\ rpc' # "failed" /\ rpc # "failed" /\ rpc # "advance" /\ rpc # "refill"
      /\ \A r : Visited(r) /\ Visited(r)'
  BY <1>1 DEF Rounds, Places, Visited
<1>4. /\ Reorder /\ e = <<e[1], e[2]>> /\ e[1] \in Rings /\ e[2] \in Nat /\ e[2] \in 1 .. Len(ring[e[1]])
      /\ TimeOf(e) \in Nat /\ e \in Rings \X Nat
  BY InRing, Zenon DEF ReorderTypes
<1>5. e \notin Done
  <2>1. released[e[1]] < e[2] /\ <<e[1], e[2]>> \notin discarded
    BY <1>3, <1>4, Zenon DEF QueueInv, InQueue
  <2>2. ~Past(e[1], e[2])
    <3>1. ~(e[2] <= released[e[1]])
      BY <1>4, <2>1 DEF ReorderTypes
    <3>. QED  BY <1>3, <2>1, <3>1, Zenon DEF Past
  <2>. QED  BY <1>3, <1>4, <2>2, Zenon DEF DoneInv
<1>6. /\ processed' \in Seq(Rings \X Nat) /\ Done' = Done \cup {e}
      /\ \A m, n \in DOMAIN processed' : processed'[m] = processed'[n] => m = n
      /\ \A m \in DOMAIN processed' :
           \/ m \in DOMAIN processed /\ processed'[m] = processed[m]
           \/ processed'[m] = e /\ \A n \in DOMAIN processed' : ~(m < n)
  BY <1>1, <1>4, <1>5, Appended, Zenon DEF DoneInv
<1>7. ReorderTypes'
  BY <1>1, <1>2, <1>3, <1>6, Zenon DEF ReorderTypes
<1>8. PhaseInv'
  BY <1>1, <1>2, <1>3, Zenon DEF PhaseInv
<1>9. RingInv' /\ QueueInv' /\ AheadInv' /\ DrainInv'
  BY <1>1, <1>2, <1>3, Zenon DEF RingInv, RingAt, QueueInv, InQueue, AheadInv, AheadAt, DrainInv, Queued
<1>10. DoneInv'
  <2>1. \A r \in Rings, k \in Nat : Past(r, k)' <=> Past(r, k) \/ <<r, k>> = e
    BY <1>1, <1>3, Zenon DEF Past
  <2>2. \A r \in Rings, k \in Nat : <<r, k>> = e => k \in 1 .. Len(ring[r])
    BY <1>4
  <2>. QED  BY <1>1, <1>2, <1>3, <1>6, <2>1, <2>2, Zenon DEF DoneInv
<1>11. ASSUME PerfOnly PROVE Sorted' /\ (\A f \in Done' : Settled(f)') /\ \A r \in Rings : Waiting(r)'
  <2>1. /\ Sorted /\ (\A f \in Done : Settled(f)) /\ \A r \in Rings : Waiting(r)
    BY <1>3, <1>11, Zenon DEF OrderInv
  <2>2. \A r \in Rings, k \in Nat : Unprocessed(r, k)' => Unprocessed(r, k)
    BY <1>1, <1>6, Zenon DEF Unprocessed
  <2>3. \A f \in Done : TimeOf(f) <= TimeOf(e)
    <3>1. Unprocessed(e[1], e[2])
      BY <1>4, <1>5, Times, Zenon DEF Unprocessed
    <3>. QED  BY <1>4, <2>1, <3>1, Zenon DEF Settled
  <2>4. Sorted'
    <3>1. SUFFICES ASSUME NEW m \in DOMAIN processed', NEW n \in DOMAIN processed', m < n
                   PROVE  TimeOf(processed'[m]) <= TimeOf(processed'[n])
      BY <1>2, Zenon DEF Sorted
    <3>2. m \in DOMAIN processed /\ processed'[m] = processed[m] /\ processed[m] \in Done
      BY <1>6, <3>1, Zenon DEF Done
    <3>. QED  BY <1>6, <2>1, <2>3, <3>1, <3>2, Zenon DEF Sorted
  <2>5. Settled(e)'
    <3>1. TimeOf(e) <= clock - Latency
      <4>1. max_timestamp <= clock - Latency
        BY <1>3, <1>11, Zenon DEF PhaseInv, PerfOnly
      <4>. QED  BY <1>1, <1>4, <4>1, TimeAssumption DEF ReorderTypes
    <3>2. ASSUME NEW r \in Rings, NEW k \in Nat, Unprocessed(r, k)
          PROVE  TimeOf(e) <= TimeOf(<<r, k>>)
      <4>1. k \in 1 .. Len(ring[r]) /\ <<r, k>> \notin Done /\ TimeOf(<<r, k>>) \in Nat
        BY <3>2, Times DEF Unprocessed
      <4>2. CASE Queued(r)
        <5>1. PICK j \in Nat : <<r, j>> \in queue
          BY <4>2, Zenon DEF Queued
        <5>2. InQueue(r, j) /\ RingAt(r) /\ Kind[r] = "perf" /\ ~Past(r, k)
          BY <1>3, <1>4, <1>11, <4>1, <5>1, Zenon DEF QueueInv, RingInv, PerfOnly, DoneInv
        <5>3. released[r] < j /\ j <= read[r] /\ read[r] <= released[r] + 1 /\ ~(1 <= k /\ k <= released[r])
          BY <1>3, <1>4, <5>2, Zenon DEF InQueue, RingAt, Past
        <5>4. released[r] \in Nat /\ read[r] \in Nat /\ read[r] <= Len(ring[r]) /\ Len(ring[r]) \in Nat
          BY <5>2, Times DEF ReorderTypes, RingAt
        <5>5. j <= k /\ j \in 1 .. Len(ring[r])
          BY <4>1, <5>3, <5>4
        <5>6. ring[r][j] <= ring[r][k]
          BY <1>4, <4>1, <5>2, <5>5, Times, Zenon DEF RingAt
        <5>7. TimeOf(e) <= ring[r][j] /\ ring[r][j] \in Nat /\ ring[r][k] \in Nat /\ TimeOf(<<r, k>>) = ring[r][k]
          BY <1>1, <4>1, <5>1, <5>5, Times
        <5>. QED  BY <1>4, <5>6, <5>7
      <4>3. CASE ~Queued(r)
        <5>1. max_timestamp <= TimeOf(<<r, k>>)
          BY <2>1, <3>2, <4>3, Zenon DEF Waiting
        <5>. QED  BY <1>1, <1>4, <4>1, <5>1 DEF ReorderTypes
      <4>. QED  BY <4>2, <4>3, Zenon
    <3>. QED  BY <1>1, <1>2, <2>2, <3>1, <3>2, Zenon DEF Settled
  <2>6. \A f \in Done' : Settled(f)'
    BY <1>1, <1>2, <1>6, <2>1, <2>2, <2>5, Zenon DEF Settled
  <2>7. \A r \in Rings : Waiting(r)'
    BY <1>1, <1>2, <2>1, <2>2, Zenon DEF Waiting, Queued
  <2>. QED  BY <2>4, <2>6, <2>7, Zenon
<1>12. OrderInv'
  BY <1>1, <1>2, <1>11, Zenon DEF OrderInv, PerfOnly
<1>. QED  BY <1>7, <1>8, <1>9, <1>10, <1>12, Zenon

\* What a step within a round keeps that leaves the times, the processed events
\* and the round alone, and takes at most the processed event from the queue.
LEMMA OrderStays ==
  ASSUME ReorderInv, rpc \in {"advance", "refill"}, rpc' \in {"process", "refill"},
         setup' = setup, clock' = clock, ring' = ring, max_timestamp' = max_timestamp,
         stop' = stop, processed' = processed,
         \A r \in Rings : Queued(r)' \/ Waiting(r)' \/ ~Queued(r)
  PROVE  OrderInv'
<1>. USE DEF ReorderInv
<1>1. /\ Rings' = Rings /\ Kind' = Kind /\ (Reorder' <=> Reorder)
      /\ Done' = Done /\ \A e : TimeOf(e)' = TimeOf(e)
  BY Zenon DEF Rings, Kind, Reorder, Done, TimeOf
<1>2. rpc # "failed" /\ \A r : Visited(r)
  BY DEF Visited
<1>3. ASSUME PerfOnly, NEW r \in Rings PROVE Waiting(r)'
  <2>1. Waiting(r)
    BY <1>2, <1>3, Zenon DEF OrderInv
  <2>. QED  BY <1>1, <2>1, Zenon DEF Waiting, Unprocessed
<1>. QED  BY <1>1, <1>2, <1>3, Zenon DEF OrderInv, PerfOnly, Sorted, Settled, Unprocessed

\* perf_rb_advance: the event processed is the only one that was read.
LEMMA AdvancePerfKeeps ==
  ASSUME ReorderInv, Advance, Kind[top[1]] = "perf"
  PROVE  ReorderInv'
<1>. USE DEF ReorderInv
<1>1. /\ setup' = setup /\ clock' = clock /\ ring' = ring /\ read' = read
      /\ discarded' = discarded /\ i' = i /\ queue' = queue /\ top' = top
      /\ max_timestamp' = max_timestamp /\ events' = events /\ stop' = stop /\ term' = term
      /\ processed' = processed /\ hup' = hup /\ rpc = "advance" /\ rpc' = "refill"
      /\ released' = [released EXCEPT ![top[1]] = read[top[1]]]
  BY Zenon DEF Advance, rings
<1>2. /\ Rings' = Rings /\ Kind' = Kind /\ (Reorder' <=> Reorder) /\ (Untimed' <=> Untimed)
      /\ Done' = Done /\ \A e : TimeOf(e)' = TimeOf(e)
  BY <1>1, Zenon DEF Rings, Kind, Reorder, Untimed, Done, TimeOf
<1>3. /\ rpc' \in Rounds /\ rpc \in Rounds /\ rpc' \in Places /\ rpc' \notin {"open", "use"}
      /\ rpc' # "use" /\ rpc' # "advance" /\ rpc' # "poll" /\ rpc' \notin {"return", "exit"}
      /\ rpc' # "failed" /\ rpc # "failed" /\ rpc # "refill"
      /\ \A r : Visited(r) /\ Visited(r)'
  BY <1>1 DEF Rounds, Places, Visited
<1>4. top \in queue
  BY <1>1 DEF PhaseInv
<1>5. PICK c \in Rings, k \in Nat : top = <<c, k>> /\ c = top[1] /\ k = top[2]
  BY <1>4, QueuePair, Zenon
<1>6. Reorder /\ InQueue(c, k) /\ RingAt(c) /\ Kind[c] = "perf"
  BY <1>3, <1>4, <1>5, Zenon DEF PhaseInv, QueueInv, RingInv
<1>7. /\ read[c] \in Nat /\ released[c] \in Nat /\ k = read[c] /\ read[c] = released[c] + 1
  BY <1>3, <1>6 DEF InQueue, RingAt, ReorderTypes
<1>8. /\ released' \in [Rings -> Nat] /\ released'[c] = read[c]
      /\ \A r \in Rings : r # c => released'[r] = released[r]
  BY <1>1, <1>5 DEF ReorderTypes
<1>9. ReorderTypes'
  BY <1>1, <1>2, <1>3, <1>8, Zenon DEF ReorderTypes
<1>10. PhaseInv'
  <2>1. /\ Kind'[top'[1]] = "perf" /\ 1 <= top'[2]
        /\ top'[2] = read'[top'[1]] /\ released'[top'[1]] = read'[top'[1]]
    BY <1>1, <1>2, <1>5, <1>6, <1>7, <1>8
  <2>. QED  BY <1>1, <1>2, <1>3, <1>4, <2>1, Zenon DEF PhaseInv
<1>11. ASSUME NEW r \in Rings PROVE RingAt(r)'
  <2>1. RingAt(r)
    BY <1>11, Zenon DEF RingInv
  <2>2. CASE r # c
    BY <1>1, <1>2, <1>8, <2>1, <2>2, Zenon DEF RingAt
  <2>3. CASE r = c
    <3>1. \A j \in Nat : <<c, j>> \notin discarded
      BY <1>6, Zenon DEF RingAt
    <3>2. read[c] <= read[c] /\ read[c] <= read[c] + 1
      BY <1>7
    <3>. QED  BY <1>1, <1>2, <1>8, <2>1, <2>3, <3>1, <3>2, Zenon DEF RingAt
  <2>. QED  BY <2>2, <2>3, Zenon
<1>12. RingInv'
  BY <1>2, <1>11, Zenon DEF RingInv
<1>13. QueueInv'
  <2>1. SUFFICES ASSUME NEW r \in Rings, NEW j \in Nat PROVE <<r, j>> \in queue <=> InQueue(r, j)'
    BY <1>1, <1>2, Zenon DEF QueueInv
  <2>2. <<r, j>> \in queue <=> released[r] < j /\ j <= read[r] /\ <<r, j>> \notin discarded
    BY <1>3, <1>6, Zenon DEF QueueInv, InQueue
  <2>3. InQueue(r, j)' <=> (released'[r] < j /\ j <= read[r] /\ <<r, j>> \notin discarded) \/ <<c, k>> = <<r, j>>
    BY <1>1, <1>3, <1>5, Zenon DEF InQueue
  <2>4. CASE r # c
    <3>1. <<c, k>> # <<r, j>>
      BY <2>4
    <3>. QED  BY <1>8, <2>2, <2>3, <2>4, <3>1, Zenon
  <2>5. CASE r = c
    <3>1. <<c, k>> = <<r, j>> <=> j = k
      BY <2>5
    <3>2. <<c, j>> \notin discarded
      BY <1>6, Zenon DEF RingAt
    <3>3. (released[c] < j /\ j <= read[c]) <=> j = k
      BY <1>7
    <3>4. ~(read[c] < j /\ j <= read[c])
      BY <1>7
    <3>. QED  BY <1>8, <2>2, <2>3, <2>5, <3>1, <3>2, <3>3, <3>4, Zenon
  <2>. QED  BY <2>4, <2>5, Zenon
<1>14. DoneInv'
  <2>1. ASSUME NEW r \in Rings, NEW j \in Nat PROVE Past(r, j)' <=> Past(r, j)
    <3>1. Past(r, j)' <=> (1 <= j /\ j <= released'[r]) \/ <<r, j>> \in discarded
      BY <1>1, <1>3, Zenon DEF Past
    <3>2. Past(r, j) <=> (1 <= j /\ j <= released[r]) \/ <<r, j>> \in discarded \/ <<c, k>> = <<r, j>>
      BY <1>1, <1>5, Zenon DEF Past
    <3>3. CASE r # c
      <4>1. <<c, k>> # <<r, j>>
        BY <3>3
      <4>. QED  BY <1>8, <3>1, <3>2, <3>3, <4>1, Zenon
    <3>4. CASE r = c
      <4>1. <<c, k>> = <<r, j>> <=> j = k
        BY <3>4
      <4>2. (1 <= j /\ j <= read[c]) <=> (1 <= j /\ j <= released[c]) \/ j = k
        BY <1>7
      <4>. QED  BY <1>8, <3>1, <3>2, <3>4, <4>1, <4>2, Zenon
    <3>. QED  BY <3>3, <3>4, Zenon
  <2>. QED  BY <1>1, <1>2, <1>3, <2>1, Zenon DEF DoneInv
<1>15. AheadInv' /\ DrainInv'
  BY <1>1, <1>2, <1>3, Zenon DEF AheadInv, AheadAt, DrainInv, Queued
<1>16. OrderInv'
  <2>1. \A r \in Rings : Queued(r)' <=> Queued(r)
    BY <1>1, Zenon DEF Queued
  <2>2. rpc \in {"advance", "refill"} /\ rpc' \in {"process", "refill"}
    BY <1>1
  <2>. QED  BY <1>1, <2>1, <2>2, OrderStays, Zenon
<1>. QED  BY <1>9, <1>10, <1>12, <1>13, <1>14, <1>15, <1>16, Zenon

\* mpsc_rb_advance_if_possible: the event is discarded, and the discarded events
\* at the head are released.
LEMMA AdvanceMPSCKeeps ==
  ASSUME ReorderInv, Advance, Kind[top[1]] # "perf"
  PROVE  ReorderInv'
<1>. USE DEF ReorderInv
<1>1. /\ setup' = setup /\ clock' = clock /\ ring' = ring /\ read' = read /\ i' = i
      /\ max_timestamp' = max_timestamp /\ events' = events /\ stop' = stop /\ term' = term
      /\ processed' = processed /\ hup' = hup /\ rpc = "advance" /\ rpc' = "process"
      /\ queue' = queue \ {top}
  BY Zenon DEF Advance, rings
<1>2. /\ Rings' = Rings /\ Kind' = Kind /\ (Reorder' <=> Reorder) /\ (Untimed' <=> Untimed)
      /\ Done' = Done /\ \A e : TimeOf(e)' = TimeOf(e)
  BY <1>1, Zenon DEF Rings, Kind, Reorder, Untimed, Done, TimeOf
<1>3. /\ rpc' \in Rounds /\ rpc \in Rounds /\ rpc' \in Places /\ rpc' \notin {"open", "use"}
      /\ rpc' \notin {"advance", "refill"} /\ rpc' # "refill"
      /\ rpc' # "use" /\ rpc' # "advance" /\ rpc' # "poll" /\ rpc' \notin {"return", "exit"}
      /\ rpc' # "failed" /\ rpc # "failed" /\ rpc # "refill"
      /\ \A r : Visited(r) /\ Visited(r)'
  BY <1>1 DEF Rounds, Places, Visited
<1>4. top \in queue /\ TimeOf(top) <= max_timestamp
  BY <1>1 DEF PhaseInv
<1>5. PICK c \in Rings, k \in Nat : top = <<c, k>> /\ c = top[1] /\ k = top[2]
  BY <1>4, QueuePair, Zenon
<1>6. Reorder /\ InQueue(c, k) /\ RingAt(c) /\ Kind[c] = "mpsc" /\ Kind[c] # "perf" /\ TimeOf(top) \in Nat
  BY <1>3, <1>4, <1>5, Kinds, InRing DEF PhaseInv, QueueInv, RingInv
<1>7. released[c] < k /\ k <= read[c] /\ <<c, k>> \notin discarded
  BY <1>3, <1>6, Zenon DEF InQueue
<1>8. PICK n, done : done = discarded \cup {top} /\ n = ReleaseUpTo(c, done)
  BY Zenon
<1>9. /\ released' = [released EXCEPT ![c] = n]
      /\ discarded' = {e \in discarded \cup {top} : e[1] = c => e[2] > n}
  BY <1>5, <1>6, <1>8, Zenon DEF Advance
<1>10. /\ n \in Nat /\ released[c] <= n /\ n <= Len(ring[c])
       /\ \A j \in Nat : released[c] < j /\ j <= n => <<c, j>> \in discarded \cup {top}
       /\ n < Len(ring[c]) => <<c, n + 1>> \notin discarded \cup {top}
  <2>. HIDE DEF ReorderInv
  <2>1. ReorderTypes /\ RingInv
    BY Zenon DEF ReorderInv
  <2>2. /\ n \in Nat /\ released[c] <= n /\ n <= Len(ring[c])
        /\ \A j \in Nat : released[c] < j /\ j <= n => <<c, j>> \in done
        /\ n < Len(ring[c]) => <<c, n + 1>> \notin done
    BY <1>8, <2>1, Release, Zenon
  <2>. QED  BY <1>8, <2>2, Zenon
<1>11. /\ released' \in [Rings -> Nat] /\ released'[c] = n
       /\ \A r \in Rings : r # c => released'[r] = released[r]
  BY <1>9, <1>10 DEF ReorderTypes
<1>12. /\ \A r \in Rings, j \in Nat : r # c => (<<r, j>> \in discarded' <=> <<r, j>> \in discarded)
       /\ \A j \in Nat : <<c, j>> \in discarded' <=> (<<c, j>> \in discarded \/ j = k) /\ j > n
       /\ discarded' \subseteq discarded \cup {top}
  BY <1>5, <1>9
<1>13. /\ read[c] \in Nat /\ released[c] \in Nat /\ Len(ring[c]) \in Nat /\ read[c] <= Len(ring[c])
       /\ released[c] <= read[c]
  BY <1>6, Times DEF RingAt, ReorderTypes
<1>14. \A j \in Nat : <<c, j>> \in discarded \cup {top} <=> <<c, j>> \in discarded \/ j = k
  BY <1>5
<1>15. n <= read[c]
  <2>1. SUFFICES ASSUME read[c] < n PROVE FALSE
    BY <1>10, <1>13
  <2>2. released[c] < read[c]
    BY <1>7, <1>13
  <2>3. AheadAt(c)
    BY <1>3, <1>6, Zenon DEF AheadInv
  <2>4. read[c] + 1 \in Nat /\ read[c] + 1 <= n /\ released[c] < read[c] + 1 /\ read[c] + 1 # k /\ ~(read[c] + 1 <= read[c])
    BY <1>7, <1>10, <1>13, <2>1
  <2>5. <<c, read[c] + 1>> \in discarded
    BY <1>10, <1>14, <2>4, Zenon
  <2>6. <<c, read[c]>> \in queue /\ TimeOf(<<c, read[c]>>) > max_timestamp
    BY <2>3, <2>4, <2>5, Zenon DEF AheadAt
  <2>7. <<c, read[c]>> \notin discarded
    BY <1>3, <1>6, <1>13, <2>6, Zenon DEF QueueInv, InQueue
  <2>8. read[c] <= n
    BY <1>10, <1>13, <2>1
  <2>9. read[c] = k
    BY <1>10, <1>13, <1>14, <2>2, <2>7, <2>8, Zenon
  <2>10. TimeOf(top) > max_timestamp
    BY <1>5, <2>6, <2>9, Zenon
  <2>. QED  BY <1>4, <1>6, <2>10 DEF ReorderTypes
<1>16. ReorderTypes'
  <2>1. discarded' \subseteq Rings \X Nat /\ queue' \subseteq Rings \X Nat
    BY <1>1, <1>4, <1>12, Zenon DEF ReorderTypes
  <2>. QED  BY <1>1, <1>2, <1>3, <1>11, <2>1, Zenon DEF ReorderTypes
<1>17. PhaseInv'
  BY <1>1, <1>2, <1>3, <1>6, Zenon DEF PhaseInv
<1>18. ASSUME NEW r \in Rings PROVE RingAt(r)'
  <2>1. RingAt(r)
    BY <1>18, Zenon DEF RingInv
  <2>2. CASE r # c
    BY <1>1, <1>2, <1>11, <1>12, <2>1, <2>2, Zenon DEF RingAt
  <2>3. CASE r = c
    <3>1. \A j \in Nat : <<c, j>> \in discarded' => n < j /\ j <= Len(ring[c])
      BY <1>6, <1>7, <1>10, <1>12, <1>13 DEF RingAt
    <3>. QED  BY <1>1, <1>2, <1>6, <1>11, <1>15, <2>1, <2>3, <3>1, Zenon DEF RingAt
  <2>. QED  BY <2>2, <2>3, Zenon
<1>19. RingInv'
  BY <1>2, <1>18, Zenon DEF RingInv
<1>20. QueueInv'
  <2>1. SUFFICES ASSUME NEW r \in Rings, NEW j \in Nat PROVE <<r, j>> \in queue' <=> InQueue(r, j)'
    BY <1>2, Zenon DEF QueueInv
  <2>2. <<r, j>> \in queue <=> released[r] < j /\ j <= read[r] /\ <<r, j>> \notin discarded
    BY <1>3, <1>6, Zenon DEF QueueInv, InQueue
  <2>3. InQueue(r, j)' <=> released'[r] < j /\ j <= read[r] /\ <<r, j>> \notin discarded'
    BY <1>1, <1>3, Zenon DEF InQueue
  <2>4. CASE r # c
    <3>1. <<r, j>> # top
      BY <1>5, <2>4
    <3>. QED  BY <1>1, <1>11, <1>12, <2>2, <2>3, <2>4, <3>1, Zenon
  <2>5. CASE r = c
    <3>1. <<r, j>> = top <=> j = k
      BY <1>5, <2>5
    <3>2. <<r, j>> \in queue' <=> released[c] < j /\ j <= read[c] /\ <<c, j>> \notin discarded /\ j # k
      BY <1>1, <2>2, <2>5, <3>1, Zenon
    <3>3. InQueue(r, j)' <=> n < j /\ j <= read[c] /\ ~((<<c, j>> \in discarded \/ j = k) /\ j > n)
      BY <1>11, <1>12, <2>3, <2>5, Zenon
    <3>4. released[c] < j /\ j <= n => <<c, j>> \in discarded \/ j = k
      BY <1>10, <1>14, Zenon
    <3>. HIDE DEF ReorderInv
    <3>. QED  BY <1>10, <1>13, <3>2, <3>3, <3>4
  <2>. QED  BY <2>4, <2>5, Zenon
<1>21. DoneInv'
  <2>1. ASSUME NEW r \in Rings, NEW j \in Nat PROVE Past(r, j)' <=> Past(r, j)
    <3>1. Past(r, j)' <=> (1 <= j /\ j <= released'[r]) \/ <<r, j>> \in discarded'
      BY <1>1, <1>3, Zenon DEF Past
    <3>2. Past(r, j) <=> (1 <= j /\ j <= released[r]) \/ <<r, j>> \in discarded \/ <<r, j>> = top
      BY <1>1, Zenon DEF Past
    <3>3. CASE r # c
      <4>1. <<r, j>> # top
        BY <1>5, <3>3
      <4>. QED  BY <1>11, <1>12, <3>1, <3>2, <3>3, <4>1, Zenon
    <3>4. CASE r = c
      <4>1. <<r, j>> = top <=> j = k
        BY <1>5, <3>4
      <4>2. Past(r, j) <=> (1 <= j /\ j <= released[c]) \/ <<c, j>> \in discarded \/ j = k
        BY <3>2, <3>4, <4>1, Zenon
      <4>3. Past(r, j)' <=> (1 <= j /\ j <= n) \/ ((<<c, j>> \in discarded \/ j = k) /\ j > n)
        BY <1>11, <1>12, <3>1, <3>4, Zenon
      <4>4. released[c] < j /\ j <= n => <<c, j>> \in discarded \/ j = k
        BY <1>10, <1>14, Zenon
      <4>5. <<c, j>> \in discarded => released[c] < j
        BY <1>6, Zenon DEF RingAt
      <4>. HIDE DEF ReorderInv
      <4>. QED  BY <1>7, <1>10, <1>13, <4>2, <4>3, <4>4, <4>5
    <3>. QED  BY <3>3, <3>4, Zenon
  <2>. QED  BY <1>1, <1>2, <1>3, <2>1, Zenon DEF DoneInv
<1>22. AheadInv'
  <2>1. SUFFICES ASSUME NEW r \in Rings, Kind[r] = "mpsc" PROVE AheadAt(r)'
    BY <1>2, Zenon DEF AheadInv
  <2>2. AheadAt(r)
    BY <1>3, <2>1, Zenon DEF AheadInv
  <2>3. CASE <<r, read[r]>> \in queue /\ TimeOf(<<r, read[r]>>) > max_timestamp
    <3>1. <<r, read[r]>> # top
      <4>1. SUFFICES ASSUME <<r, read[r]>> = top PROVE FALSE
        BY Zenon
      <4>2. TimeOf(top) > max_timestamp
        BY <2>3, <4>1, Zenon
      <4>. QED  BY <1>4, <1>6, <4>2 DEF ReorderTypes
    <3>. QED  BY <1>1, <1>2, <2>3, <3>1, Zenon DEF AheadAt
  <2>4. CASE \A j \in Nat : <<r, j>> \in discarded => j <= read[r]
    <3>1. \A j \in Nat : <<r, j>> \in discarded' => j <= read[r]
      <4>1. CASE r # c
        BY <1>12, <2>4, <4>1, Zenon
      <4>2. CASE r = c
        BY <1>7, <1>12, <2>4, <4>2, Zenon
      <4>. QED  BY <4>1, <4>2, Zenon
    <3>. QED  BY <1>1, <3>1, Zenon DEF AheadAt
  <2>. QED  BY <2>2, <2>3, <2>4, Zenon DEF AheadAt
<1>23. \A r \in Rings : r # c /\ Queued(r) => Queued(r)'
  BY <1>1, <1>5 DEF Queued
<1>24. DrainInv'
  BY <1>1, <1>2, <1>3, <1>6, <1>23, Zenon DEF DrainInv
<1>25. OrderInv'
  <2>1. ~PerfOnly
    BY <1>6, Zenon DEF PerfOnly
  <2>. QED  BY <1>1, <1>2, <2>1, Zenon DEF OrderInv, PerfOnly
<1>. QED  BY <1>16, <1>17, <1>19, <1>20, <1>21, <1>22, <1>24, <1>25, Zenon

\* The next event of the perf ring buffer takes the place of the one processed,
\* which it does not precede; or there is none.
LEMMA RefillKeeps ==
  ASSUME ReorderInv, Refill
  PROVE  ReorderInv'
<1>. USE DEF ReorderInv
<1>1. /\ setup' = setup /\ clock' = clock /\ ring' = ring /\ released' = released
      /\ discarded' = discarded /\ i' = i
      /\ max_timestamp' = max_timestamp /\ events' = events /\ stop' = stop /\ term' = term
      /\ processed' = processed /\ hup' = hup /\ rpc = "refill" /\ rpc' = "process"
  BY Zenon DEF Refill, rings
<1>2. /\ Rings' = Rings /\ Kind' = Kind /\ (Reorder' <=> Reorder) /\ (Untimed' <=> Untimed)
      /\ Done' = Done /\ \A e : TimeOf(e)' = TimeOf(e)
  BY <1>1, Zenon DEF Rings, Kind, Reorder, Untimed, Done, TimeOf
<1>3. /\ rpc' \in Rounds /\ rpc \in Rounds /\ rpc' \in Places /\ rpc' \notin {"open", "use"}
      /\ rpc' \notin {"advance", "refill"} /\ rpc' # "refill" /\ rpc # "advance"
      /\ rpc' # "use" /\ rpc' # "advance" /\ rpc' # "poll" /\ rpc' \notin {"return", "exit"}
      /\ rpc' # "failed" /\ rpc # "failed"
      /\ \A r : Visited(r) /\ Visited(r)'
  BY <1>1 DEF Rounds, Places, Visited
<1>4. top \in queue
  BY <1>1 DEF PhaseInv
<1>5. PICK c \in Rings, k \in Nat : top = <<c, k>> /\ c = top[1] /\ k = top[2]
  BY <1>4, QueuePair, Zenon
<1>6. Reorder /\ RingAt(c) /\ Kind[c] = "perf" /\ Kind[c] # "mpsc" /\ k = read[c] /\ released[c] = read[c]
      /\ k \in 1 .. Len(ring[c])
  BY <1>1, <1>3, <1>4, <1>5, InRing DEF PhaseInv, RingInv
<1>7. /\ read[c] \in Nat /\ released[c] \in Nat /\ Len(ring[c]) \in Nat /\ read[c] <= Len(ring[c])
      /\ \A j \in Nat : <<c, j>> \notin discarded
  BY <1>6, Times, Zenon DEF RingAt, ReorderTypes
<1>8. ASSUME NEW n \in Nat, read[c] <= n, n <= read[c] + 1, n <= Len(ring[c]),
             read' = [read EXCEPT ![c] = n],
             queue' = IF n = k THEN queue \ {top} ELSE (queue \ {top}) \cup {<<c, n>>},
             n = k => read[c] = Len(ring[c])
      PROVE  ReorderInv'
  <2>1. /\ read' \in [Rings -> Nat] /\ read'[c] = n /\ (\A q \in Rings : q # c => read'[q] = read[q])
        /\ RingInv'
    BY <1>1, <1>6, <1>8, ReadMoves, Zenon
  <2>2. \A r \in Rings, j \in Nat : r # c => (<<r, j>> \in queue' <=> <<r, j>> \in queue)
    BY <1>5, <1>8
  <2>3. \A j \in Nat : <<c, j>> \in queue <=> j = k
    <3>1. SUFFICES ASSUME NEW j \in Nat PROVE <<c, j>> \in queue <=> j = k
      BY Zenon
    <3>2. ~(released[c] < j /\ j <= read[c])
      BY <1>6, <1>7
    <3>3. top = <<c, j>> <=> j = k
      BY <1>5
    <3>. QED  BY <1>1, <1>6, <3>2, <3>3, Zenon DEF QueueInv, InQueue
  <2>4. \A j \in Nat : <<c, j>> \in queue' <=> j = n /\ n # k
    BY <1>5, <1>8, <2>3
  <2>5. ReorderTypes'
    <3>1. <<c, n>> \in Rings \X Nat
      OBVIOUS
    <3>2. queue' \subseteq Rings \X Nat
      BY <1>8, <3>1, Zenon DEF ReorderTypes
    <3>. QED  BY <1>1, <1>2, <1>3, <2>1, <3>2, Zenon DEF ReorderTypes
  <2>6. PhaseInv'
    BY <1>1, <1>2, <1>3, <1>6, Zenon DEF PhaseInv
  <2>7. QueueInv'
    <3>1. SUFFICES ASSUME NEW r \in Rings, NEW j \in Nat PROVE <<r, j>> \in queue' <=> InQueue(r, j)'
      BY <1>2, Zenon DEF QueueInv
    <3>2. InQueue(r, j)' <=> released[r] < j /\ j <= read'[r] /\ <<r, j>> \notin discarded
      BY <1>1, <1>3, Zenon DEF InQueue
    <3>3. CASE r # c
      <4>1. top # <<r, j>>
        BY <1>5, <3>3
      <4>2. <<r, j>> \in queue <=> released[r] < j /\ j <= read[r] /\ <<r, j>> \notin discarded
        BY <1>6, <4>1, Zenon DEF QueueInv, InQueue
      <4>. QED  BY <2>1, <2>2, <3>2, <3>3, <4>2, Zenon
    <3>4. CASE r = c
      <4>1. (released[c] < j /\ j <= n) <=> j = n /\ n # k
        BY <1>6, <1>7, <1>8
      <4>. QED  BY <1>7, <2>1, <2>4, <3>2, <3>4, <4>1, Zenon
    <3>. QED  BY <3>3, <3>4, Zenon
  <2>8. DoneInv'
    BY <1>1, <1>2, <1>3, Zenon DEF DoneInv, Past
  <2>9. AheadInv'
    <3>1. SUFFICES ASSUME NEW r \in Rings, Kind[r] = "mpsc" PROVE AheadAt(r)'
      BY <1>2, Zenon DEF AheadInv
    <3>2. AheadAt(r) /\ r # c /\ read[r] \in Nat
      BY <1>3, <1>6, <3>1, Zenon DEF AheadInv, ReorderTypes
    <3>3. read'[r] = read[r] /\ (<<r, read[r]>> \in queue' <=> <<r, read[r]>> \in queue)
      BY <2>1, <2>2, <3>2, Zenon
    <3>. QED  BY <1>1, <1>2, <3>2, <3>3, Zenon DEF AheadAt
  <2>10. /\ \A r \in Rings : r # c /\ Queued(r) => Queued(r)'
         /\ n # k => Queued(c)'
    BY <2>2, <2>4, Zenon DEF Queued
  <2>11. DrainInv'
    <3>1. ASSUME stop, ~events, NEW r \in Rings
          PROVE  hup[r] <= read'[r] \/ (Kind[r] = "perf" /\ Queued(r)')
      <4>1. CASE r # c
        BY <1>3, <2>1, <2>10, <3>1, <4>1, Zenon DEF DrainInv
      <4>2. CASE r = c /\ n # k
        BY <1>6, <2>10, <4>2, Zenon
      <4>3. CASE r = c /\ n = k
        BY <1>6, <1>8, <2>1, <4>3, Zenon DEF RingAt
      <4>. QED  BY <4>1, <4>2, <4>3, Zenon
    <3>. QED  BY <1>1, <1>2, <1>3, <3>1, Zenon DEF DrainInv
  <2>12. OrderInv'
    <3>1. ASSUME n = k PROVE Waiting(c)'
      <4>1. ASSUME NEW j \in Nat, Unprocessed(c, j)' PROVE FALSE
        <5>1. j \in 1 .. Len(ring[c]) /\ <<c, j>> \notin Done
          BY <1>1, <1>2, <4>1, Times DEF Unprocessed
        <5>2. 1 <= j /\ j <= released[c]
          BY <1>6, <1>7, <1>8, <3>1, <5>1
        <5>. QED  BY <1>3, <5>1, <5>2, Zenon DEF DoneInv, Past
      <4>. QED  BY <4>1, Zenon DEF Waiting
    <3>2. \A r \in Rings : Queued(r)' \/ Waiting(r)' \/ ~Queued(r)
      BY <2>10, <3>1, Zenon
    <3>3. rpc \in {"advance", "refill"} /\ rpc' \in {"process", "refill"}
      BY <1>1
    <3>. QED  BY <1>1, <3>2, <3>3, OrderStays, Zenon
  <2>. QED  BY <2>1, <2>5, <2>6, <2>7, <2>8, <2>9, <2>11, <2>12, Zenon
<1>9. ASSUME NEW n \in Readable(c), read' = [read EXCEPT ![c] = n],
             queue' = IF TimeOf(<<c, n>>) < TimeOf(top) THEN queue ELSE (queue \ {top}) \cup {<<c, n>>}
      PROVE  ReorderInv'
  <2>1. n \in Nat /\ n <= Len(ring[c]) /\ n = read[c] + 1
    BY <1>6, <1>9, Found, Zenon
  <2>2. /\ read[c] <= n /\ n <= read[c] + 1 /\ n # k /\ k <= n
        /\ n \in 1 .. Len(ring[c])
    BY <1>6, <1>7, <2>1
  <2>3. ring[c][k] <= ring[c][n] /\ ring[c][k] \in Nat /\ ring[c][n] \in Nat
    BY <1>6, <2>2, Times DEF RingAt
  <2>4. TimeOf(<<c, n>>) = ring[c][n] /\ TimeOf(top) = ring[c][k]
    BY <1>5, <2>1, Times
  <2>5. ~(TimeOf(<<c, n>>) < TimeOf(top))
    BY <2>3, <2>4
  <2>. QED  BY <1>8, <1>9, <2>1, <2>2, <2>5, Zenon
<1>10. ASSUME Readable(c) = {}, queue' = queue \ {top}, read' = read
       PROVE  ReorderInv'
  <2>1. read[c] = Len(ring[c])
    BY <1>6, <1>10, NotFound, Zenon
  <2>2. read' = [read EXCEPT ![c] = k]
    BY <1>6, <1>10 DEF ReorderTypes
  <2>3. read[c] <= k /\ k <= read[c] + 1 /\ k <= Len(ring[c])
    BY <1>6, <1>7
  <2>. QED  BY <1>8, <1>10, <2>1, <2>2, <2>3, Zenon
<1>11. \/ \E n \in Readable(c) :
            /\ read' = [read EXCEPT ![c] = n]
            /\ queue' = IF TimeOf(<<c, n>>) < TimeOf(top) THEN queue ELSE (queue \ {top}) \cup {<<c, n>>}
       \/ Readable(c) = {} /\ queue' = queue \ {top} /\ read' = read
  BY <1>5, Zenon DEF Refill
<1>. QED  BY <1>9, <1>10, <1>11, Zenon

-----------------------------------------------------------------------------
(* Without reordering *)

\* A reader is opened: all that is in the ring buffer is available.
LEMMA OpenKeeps ==
  ASSUME ReorderInv, OpenReader
  PROVE  ReorderInv'
<1>. USE DEF ReorderInv
<1>1. /\ setup' = setup /\ clock' = clock /\ ring' = ring /\ released' = released
      /\ discarded' = discarded /\ i' = i /\ queue' = queue /\ top' = top
      /\ max_timestamp' = max_timestamp /\ stop' = stop /\ term' = term
      /\ processed' = processed /\ hup' = hup /\ rpc = "open" /\ rpc' = "use"
      /\ read' = [read EXCEPT ![i] = Len(ring[i])]
      /\ events' = (events \/ Len(ring[i]) > read[i])
  BY Zenon DEF OpenReader, rings
<1>2. /\ Rings' = Rings /\ Kind' = Kind /\ (Reorder' <=> Reorder) /\ (Untimed' <=> Untimed) /\ Done' = Done
  BY <1>1, Zenon DEF Rings, Kind, Reorder, Untimed, Done
<1>3. /\ rpc' \notin Rounds /\ rpc' \in Places /\ rpc' \in {"open", "use"} /\ rpc \in {"open", "use"}
      /\ rpc' \notin {"advance", "refill"} /\ rpc' # "advance" /\ rpc' # "refill" /\ rpc # "advance"
      /\ rpc' # "poll" /\ rpc' \notin {"return", "exit"} /\ rpc' # "failed" /\ rpc # "failed"
      /\ \A r : ~Visited(r)'
  BY <1>1 DEF Rounds, Places, Visited
<1>4. ~Reorder /\ i \in Rings
  BY <1>3, Zenon DEF PhaseInv, ReorderTypes
<1>5. /\ Len(ring[i]) \in Nat /\ read[i] <= Len(ring[i]) /\ Len(ring[i]) <= Len(ring[i]) /\ hup[i] <= Len(ring[i])
  BY <1>4, Times DEF RingInv, RingAt
<1>6. /\ read' \in [Rings -> Nat] /\ read'[i] = Len(ring[i]) /\ RingInv'
  BY <1>1, <1>4, <1>5, ReadMoves, Zenon
<1>7. events' \in BOOLEAN
  BY <1>1
<1>8. ReorderTypes'
  BY <1>1, <1>2, <1>3, <1>6, <1>7, Zenon DEF ReorderTypes
<1>9. PhaseInv' /\ QueueInv' /\ DoneInv' /\ AheadInv' /\ OrderInv'
  BY <1>1, <1>2, <1>3, <1>4, Zenon DEF PhaseInv, QueueInv, DoneInv, Past, AheadInv, OrderInv, PerfOnly
<1>10. DrainInv'
  BY <1>1, <1>2, <1>3, <1>5, <1>6, Zenon DEF DrainInv
<1>. QED  BY <1>6, <1>8, <1>9, <1>10, Zenon

\* An event is processed and released.
LEMMA UseKeeps ==
  ASSUME ReorderInv, UseNext
  PROVE  ReorderInv'
<1>. USE DEF ReorderInv
<1>1. /\ setup' = setup /\ clock' = clock /\ ring' = ring /\ read' = read
      /\ discarded' = discarded /\ i' = i /\ queue' = queue /\ top' = top
      /\ max_timestamp' = max_timestamp /\ events' = events /\ stop' = stop /\ term' = term
      /\ hup' = hup /\ rpc = "use" /\ rpc' = "use" /\ read[i] > released[i]
      /\ processed' = Append(processed, <<i, released[i] + 1>>)
      /\ released' = [released EXCEPT ![i] = @ + 1]
  BY Zenon DEF UseNext, rings, round
<1>2. /\ Rings' = Rings /\ Kind' = Kind /\ (Reorder' <=> Reorder) /\ (Untimed' <=> Untimed)
  BY <1>1, Zenon DEF Rings, Kind, Reorder, Untimed
<1>3. /\ rpc' \notin Rounds /\ rpc' \in Places /\ rpc' \in {"open", "use"} /\ rpc \in {"open", "use"}
      /\ rpc' \notin {"advance", "refill"} /\ rpc' # "advance" /\ rpc' # "refill" /\ rpc # "advance"
      /\ rpc' # "poll" /\ rpc' \notin {"return", "exit"} /\ rpc' # "failed" /\ rpc # "failed"
      /\ \A r : ~Visited(r)'
  BY <1>1 DEF Rounds, Places, Visited
<1>4. /\ ~Reorder /\ i \in Rings /\ discarded = {} /\ RingAt(i)
  BY <1>3, Zenon DEF PhaseInv, ReorderTypes, RingInv
<1>5. PICK n \in Nat : n = released[i] + 1
  BY <1>4 DEF ReorderTypes
<1>6. /\ 1 <= n /\ n <= read[i] /\ n \in 1 .. Len(ring[i]) /\ released[i] \in Nat /\ <<i, n>> \in Rings \X Nat
      /\ ~(n <= released[i])
  <2>1. Len(ring[i]) \in Nat /\ released[i] \in Nat /\ read[i] \in Nat
    BY <1>4, Times DEF ReorderTypes
  <2>2. read[i] <= Len(ring[i])
    BY <1>4, Zenon DEF RingAt
  <2>3. 1 <= n /\ n <= read[i] /\ n \in 1 .. Len(ring[i]) /\ ~(n <= released[i])
    BY <1>1, <1>5, <2>1, <2>2
  <2>. QED  BY <1>4, <2>1, <2>3
<1>7. <<i, n>> \notin Done
  BY <1>3, <1>4, <1>6, Zenon DEF DoneInv, Past
<1>8. /\ processed' \in Seq(Rings \X Nat) /\ Done' = Done \cup {<<i, n>>}
      /\ \A x, y \in DOMAIN processed' : processed'[x] = processed'[y] => x = y
  BY <1>1, <1>5, <1>6, <1>7, Appended, Zenon DEF DoneInv
<1>9. /\ released' \in [Rings -> Nat] /\ released'[i] = n
      /\ \A r \in Rings : r # i => released'[r] = released[r]
  BY <1>1, <1>5 DEF ReorderTypes
<1>10. ReorderTypes'
  BY <1>1, <1>2, <1>3, <1>8, <1>9, Zenon DEF ReorderTypes
<1>11. RingInv'
  <2>1. \A r \in Rings : released'[r] <= read[r]
    BY <1>6, <1>9, Zenon DEF RingInv, RingAt
  <2>. QED  BY <1>1, <1>2, <1>4, <2>1, Zenon DEF RingInv, RingAt
<1>12. PhaseInv' /\ QueueInv' /\ AheadInv' /\ OrderInv'
  BY <1>1, <1>2, <1>3, <1>4, Zenon DEF PhaseInv, QueueInv, AheadInv, OrderInv, PerfOnly
<1>13. DoneInv'
  <2>1. \A r \in Rings, k \in Nat : <<r, k>> = <<i, n>> => k \in 1 .. Len(ring[r])
    BY <1>6
  <2>2. ASSUME NEW r \in Rings, NEW k \in Nat
        PROVE  Past(r, k)' <=> Past(r, k) \/ <<r, k>> = <<i, n>>
    <3>1. /\ Past(r, k)' <=> 1 <= k /\ k <= released'[r]
          /\ Past(r, k) <=> 1 <= k /\ k <= released[r]
      BY <1>1, <1>3, <1>4, Zenon DEF Past
    <3>2. CASE r # i
      BY <1>9, <3>1, <3>2
    <3>3. CASE r = i
      BY <1>5, <1>6, <1>9, <3>1, <3>3
    <3>. QED  BY <3>2, <3>3, Zenon
  <2>. QED  BY <1>1, <1>2, <1>3, <1>8, <2>1, <2>2, Zenon DEF DoneInv
<1>14. DrainInv'
  <2>1. \A r \in Rings : hup[r] <= released[r] => hup[r] <= released'[r]
    <3>1. SUFFICES ASSUME NEW r \in Rings, hup[r] <= released[r] PROVE hup[r] <= released'[r]
      BY Zenon
    <3>2. CASE r = i
      <4>1. hup[r] \in Nat
        BY DEF ReorderTypes
      <4>. QED  BY <1>5, <1>6, <1>9, <3>1, <3>2, <4>1
    <3>3. CASE r # i
      BY <1>9, <3>1, <3>3, Zenon
    <3>. QED  BY <3>2, <3>3, Zenon
  <2>. QED  BY <1>1, <1>2, <1>3, <2>1, Zenon DEF DrainInv
<1>. QED  BY <1>10, <1>11, <1>12, <1>13, <1>14, Zenon

\* A reader is closed; after the last one all ring buffers have been emptied.
LEMMA CloseKeeps ==
  ASSUME ReorderInv, CloseReader
  PROVE  ReorderInv'
<1>. USE DEF ReorderInv
<1>1. /\ setup' = setup /\ clock' = clock /\ ring' = ring /\ read' = read /\ released' = released
      /\ discarded' = discarded /\ queue' = queue /\ top' = top
      /\ max_timestamp' = max_timestamp /\ stop' = stop /\ term' = term
      /\ processed' = processed /\ hup' = hup /\ rpc = "use" /\ read[i] = released[i]
  BY Zenon DEF CloseReader, rings, cursors
<1>2. /\ Rings' = Rings /\ Kind' = Kind /\ (Reorder' <=> Reorder) /\ (Untimed' <=> Untimed) /\ Done' = Done
  BY <1>1, Zenon DEF Rings, Kind, Reorder, Untimed, Done
<1>3. \/ i < Len(Kind) /\ i' = i + 1 /\ rpc' = "open" /\ events' = events
      \/ ~(i < Len(Kind)) /\ i' = 1 /\ rpc' \in {"return", "open"} /\ events' = FALSE
  BY DEF CloseReader
<1>4. rpc' \in {"open", "return"} /\ rpc \in {"open", "use"}
  BY <1>1, <1>3
<1>5. /\ rpc' \notin Rounds /\ rpc' \in Places /\ rpc' # "use"
      /\ rpc' \notin {"advance", "refill"} /\ rpc' # "advance" /\ rpc' # "refill" /\ rpc # "advance"
      /\ rpc' # "poll" /\ rpc' # "failed" /\ rpc # "failed"
      /\ \A r : ~Visited(r)'
  BY <1>1, <1>4 DEF Rounds, Places, Visited
<1>6. ~Reorder /\ i \in Rings
  BY <1>4, Zenon DEF PhaseInv, ReorderTypes
<1>7. /\ Len(Kind) \in Nat /\ 1 <= Len(Kind) /\ Rings = 1 .. Len(Kind)
  BY Kinds
<1>8. i' \in Rings /\ events' \in BOOLEAN
  <2>1. events \in BOOLEAN
    BY Zenon DEF ReorderTypes
  <2>2. CASE i < Len(Kind) /\ i' = i + 1 /\ events' = events
    <3>1. i + 1 \in 1 .. Len(Kind)
      BY <1>6, <1>7, <2>2
    <3>. QED  BY <1>7, <2>1, <2>2, <3>1, Zenon
  <2>3. CASE i' = 1 /\ events' = FALSE
    <3>1. 1 \in 1 .. Len(Kind)
      BY <1>7
    <3>. QED  BY <1>7, <2>3, <3>1, Zenon
  <2>. QED  BY <1>3, <2>2, <2>3, Zenon
<1>9. ReorderTypes'
  BY <1>1, <1>2, <1>5, <1>8, Zenon DEF ReorderTypes
<1>10. PhaseInv' /\ RingInv' /\ QueueInv' /\ DoneInv' /\ AheadInv' /\ OrderInv'
  BY <1>1, <1>2, <1>5, <1>6, Zenon DEF PhaseInv, RingInv, RingAt, QueueInv, DoneInv, Past, AheadInv,
       OrderInv, PerfOnly
<1>11. ASSUME stop PROVE \A r \in Rings : r <= i => hup[r] <= released[r]
  <2>1. SUFFICES ASSUME NEW r \in Rings, r <= i PROVE hup[r] <= released[r]
    BY Zenon
  <2>2. r < i \/ r = i
    BY <1>6, <1>7, <2>1
  <2>. QED  BY <1>1, <1>4, <1>11, <2>2, Zenon DEF DrainInv
<1>12. ASSUME stop, rpc' = "open", NEW r \in Rings, r < i' PROVE hup[r] <= released[r]
  <2>1. r <= i
    BY <1>3, <1>6, <1>7, <1>12
  <2>. QED  BY <1>11, <1>12, <2>1, Zenon
<1>13. ASSUME stop, rpc' = "return" PROVE Drained
  <2>1. SUFFICES ASSUME NEW r \in Rings, NEW k \in Nat, 1 <= k, k <= hup[r] PROVE <<r, k>> \in Done
    BY Zenon DEF Drained
  <2>2. r <= i
    BY <1>3, <1>6, <1>7, <1>13
  <2>3. hup[r] <= released[r]
    BY <1>11, <1>13, <2>2, Zenon
  <2>4. k <= released[r]
    BY <2>1, <2>3 DEF ReorderTypes
  <2>. QED  BY <1>5, <2>1, <2>4, Zenon DEF DoneInv, Past
<1>14. DrainInv'
  <2>1. rpc' # "exit"
    BY <1>4
  <2>2. stop /\ rpc' = "return" => Drained'
    BY <1>1, <1>2, <1>13, Zenon DEF Drained
  <2>. QED  BY <1>1, <1>2, <1>4, <1>5, <1>12, <2>1, <2>2 DEF DrainInv
<1>. QED  BY <1>9, <1>10, <1>14, Zenon

-----------------------------------------------------------------------------
(* Results *)

\* The worker starts with nothing read.
LEMMA ReorderInitInv ==
  ASSUME TimedSetups, ReorderInit
  PROVE  ReorderInv
<1>. USE DEF ReorderInit
<1>1. /\ Rings = 1 .. Len(Kind) /\ Len(Kind) \in Nat /\ 1 <= Len(Kind) /\ 1 \in Rings
  BY SetupsAssumption DEF Rings, Kind
<1>2. Done = {} /\ DOMAIN processed = {}
  BY DEF Done
<1>3. ReorderTypes
  <2>1. clock \in Nat /\ Latency <= clock /\ max_timestamp \in Nat
    BY TimeAssumption
  <2>2. ring \in [Rings -> Seq(0 .. MaxTime)] /\ processed \in Seq(Rings \X Nat)
    BY DEF ReorderTypes
  <2>3. read \in [Rings -> Nat] /\ released \in [Rings -> Nat] /\ hup \in [Rings -> Nat]
    OBVIOUS
  <2>4. rpc \in Places /\ i \in Rings
    BY <1>1 DEF Places
  <2>. QED  BY <2>1, <2>2, <2>3, <2>4, Zenon DEF ReorderTypes
<1>4. PhaseInv
  BY DEF PhaseInv, TimedSetups, Reorder, Untimed, Rounds
<1>5. RingInv
  BY DEF RingInv, RingAt
<1>6. QueueInv /\ DoneInv
  BY <1>2 DEF QueueInv, InQueue, DoneInv, Past
<1>7. AheadInv /\ DrainInv /\ OrderInv
  BY <1>2 DEF AheadInv, DrainInv, OrderInv, Visited, Sorted, Rounds
<1>. QED  BY <1>3, <1>4, <1>5, <1>6, <1>7 DEF ReorderInv

\* Every step keeps the invariant.
LEMMA ReorderStep ==
  ASSUME ReorderInv, [ReorderNext]_reorderVars
  PROVE  ReorderInv'
<1>1. ASSUME NEW r \in Rings, NEW t \in 1 .. MaxTime, Write(r, t) PROVE ReorderInv'
  <2>1. t \in 0 .. MaxTime /\ clock - Latency <= t
    BY <1>1, TimeAssumption DEF Write, ReorderInv, ReorderTypes
  <2>. QED  BY <1>1, <2>1, WriteKeeps, Zenon DEF Write
<1>2. ASSUME NEW r \in Rings, WriteUntimed(r) PROVE ReorderInv'
  <2>1. ~Reorder
    BY <1>2, Zenon DEF WriteUntimed, ReorderInv, PhaseInv
  <2>2. 0 \in 0 .. MaxTime
    BY TimeAssumption
  <2>. QED  BY <1>2, <2>1, <2>2, WriteKeeps, Zenon DEF WriteUntimed
<1>3. CASE Advance
  BY <1>3, AdvancePerfKeeps, AdvanceMPSCKeeps, Zenon
<1>4. CASE UNCHANGED reorderVars
  <2>1. /\ setup' = setup /\ clock' = clock /\ ring' = ring /\ read' = read /\ released' = released
        /\ discarded' = discarded /\ rpc' = rpc /\ i' = i /\ queue' = queue /\ top' = top
        /\ max_timestamp' = max_timestamp /\ events' = events /\ stop' = stop /\ term' = term
        /\ processed' = processed /\ hup' = hup
    BY <1>4, Zenon DEF reorderVars, rings, cursors, round
  <2>2. /\ Rings' = Rings /\ Kind' = Kind /\ (Reorder' <=> Reorder) /\ (Untimed' <=> Untimed)
        /\ Done' = Done /\ \A e : TimeOf(e)' = TimeOf(e)
    BY <2>1, Zenon DEF Rings, Kind, Reorder, Untimed, Done, TimeOf
  <2>3. ReorderTypes'
    BY <2>1, <2>2, Zenon DEF ReorderInv, ReorderTypes
  <2>4. PhaseInv' /\ RingInv' /\ QueueInv'
    BY <2>1, <2>2, Zenon DEF ReorderInv, PhaseInv, RingInv, RingAt, QueueInv, InQueue
  <2>5. DoneInv' /\ AheadInv' /\ DrainInv'
    BY <2>1, <2>2, Zenon DEF ReorderInv, DoneInv, Past, AheadInv, AheadAt, DrainInv, Visited, Queued, Drained
  <2>6. OrderInv'
    BY <2>1, <2>2, Zenon DEF ReorderInv, OrderInv, PerfOnly, Sorted, Settled, Visited, Waiting, Queued,
         Unprocessed
  <2>. QED  BY <2>3, <2>4, <2>5, <2>6, Zenon DEF ReorderInv
<1>. QED
  BY <1>1, <1>2, <1>3, <1>4, TickKeeps, TerminateKeeps, FailsKeeps, PollKeeps, ReturnKeeps, ExitKeeps,
     DequeuePerfKeeps, DequeueMPSCKeeps, ProcessKeeps, RefillKeeps, EndRoundKeeps, NextRoundKeeps,
     OpenKeeps, UseKeeps, CloseKeeps, Zenon DEF ReorderNext, LoopStep

\* The invariant holds when hdr_time knows the records a reordering worker meets.
THEOREM ReorderInvariant == TimedSetups => (ReorderSpec => []ReorderInv)
<1>1. TimedSetups /\ ReorderInit => ReorderInv
  BY ReorderInitInv
<1>2. ReorderInv /\ [ReorderNext]_reorderVars => ReorderInv'
  BY ReorderStep
<1>. QED  BY <1>1, <1>2, PTL DEF ReorderSpec

\* No event is processed twice, and none is released unprocessed.
THEOREM ProcessedOnce == TimedSetups => (ReorderSpec => []ExactlyOnce)
<1>1. ReorderInv => ExactlyOnce
  <2>1. SUFFICES ASSUME ReorderInv PROVE ExactlyOnce
    BY Zenon
  <2>2. ASSUME rpc # "failed", NEW r \in Rings, NEW k \in 1 .. released[r]
        PROVE  \E m \in DOMAIN processed : processed[m] = <<r, k>>
    <3>1. k \in Nat /\ 1 <= k /\ k <= released[r]
      BY <2>1, <2>2 DEF ReorderInv, ReorderTypes
    <3>2. <<r, k>> \in Done
      BY <2>1, <2>2, <3>1, Zenon DEF ReorderInv, DoneInv, Past
    <3>. QED  BY <3>2, Zenon DEF Done
  <2>. QED  BY <2>1, <2>2, Zenon DEF ExactlyOnce, ReorderInv, DoneInv
<1>. QED  BY <1>1, ReorderInvariant, PTL

\* Events of perf ring buffers are processed in the order of their timestamps.
THEOREM ProcessedInOrder == TimedSetups => (ReorderSpec => []InOrder)
<1>1. ReorderInv => InOrder
  BY Zenon DEF ReorderInv, OrderInv, PerfOnly, Sorted, InOrder
<1>. QED  BY <1>1, ReorderInvariant, PTL

\* A worker that leaves after a hangup has processed all there was.
THEOREM DrainsAll == TimedSetups => (ReorderSpec => []DrainComplete)
<1>1. ReorderInv => DrainComplete
  <2>1. SUFFICES ASSUME ReorderInv, rpc = "exit", stop, ~term, NEW r \in Rings, NEW k \in 1 .. hup[r]
                 PROVE  \E m \in DOMAIN processed : processed[m] = <<r, k>>
    BY Zenon DEF DrainComplete
  <2>2. k \in Nat /\ 1 <= k /\ k <= hup[r]
    BY <2>1 DEF ReorderInv, ReorderTypes
  <2>3. <<r, k>> \in Done
    BY <2>1, <2>2, Zenon DEF ReorderInv, DrainInv, Drained
  <2>. QED  BY <2>3, Zenon DEF Done
<1>. QED  BY <1>1, ReorderInvariant, PTL

\* What the queue points to has been read and is not released.
THEOREM EventsStayValid == TimedSetups => (ReorderSpec => []EventWrapperValid)
<1>1. ReorderInv => EventWrapperValid
  <2>1. SUFFICES ASSUME ReorderInv, rpc \in {"dequeue", "process"}, NEW e \in queue
                 PROVE  released[e[1]] < e[2] /\ e[2] <= read[e[1]]
    BY Zenon DEF EventWrapperValid
  <2>2. e = <<e[1], e[2]>> /\ e[1] \in Rings /\ e[2] \in Nat
    BY <2>1 DEF ReorderInv, ReorderTypes
  <2>3. Reorder /\ rpc # "refill"
    BY <2>1 DEF ReorderInv, PhaseInv
  <2>. QED  BY <2>1, <2>2, <2>3, Zenon DEF ReorderInv, QueueInv, InQueue
<1>. QED  BY <1>1, ReorderInvariant, PTL

=============================================================================
