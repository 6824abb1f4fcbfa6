--------------------------- MODULE LiveHeapProofs ---------------------------
(***************************************************************************)
(* What the worker shows as live is what the processes have, for any       *)
(* number of processes, threads, addresses and stacks.                     *)
(*                                                                         *)
(* The first part is the worker's record by itself (LiveAllocation): no    *)
(* address points to a stack that was erased, and the count of a stack is  *)
(* the number of its addresses.  The second part sets the record beside    *)
(* the hooks and the ring between them (LiveHeap): the inductive invariant *)
(* speaks of what will be shown once the ring is read, and of what each    *)
(* thread in a hook has entered or taken out and not yet reported.         *)
(***************************************************************************)
EXTENDS LiveHeap, FiniteSetTheorems, TLAPS

(* The record of the worker *)

\* StacksCounted for one process.
Counted(h) ==
  /\ \A a \in Addrs : h.value[a] = 0 <=> h.unique_stack[a] = NoStack
  /\ \A s \in Stacks :
       /\ h.count[s] = Cardinality(AddrsOf(h, s))
       /\ s \in h.unique_stacks <=> AddrsOf(h, s) # {}

HeapOK(h) == h \in PidStacks /\ Counted(h)

LiveInv ==
  /\ LiveTypeOK
  /\ \A p \in Pids : HeapOK(live[p])
  /\ LiveProcessKnown

-----------------------------------------------------------------------------
\* A set of addresses is finite, and it is empty exactly when it has
\* cardinality 0.
LEMMA AddrsFinite ==
  ASSUME NEW S \in SUBSET Addrs
  PROVE  /\ IsFiniteSet(S)
         /\ Cardinality(S) \in Nat
         /\ Cardinality(S) = 0 <=> S = {}
<1>1. IsFiniteSet(S)
  BY ProcessesAssumption, FS_Subset, Zenon
<1> QED
  BY <1>1, FS_CardinalityType, FS_EmptySet, Zenon

\* One address more changes the cardinality by one.
LEMMA OneMore ==
  ASSUME NEW S \in SUBSET Addrs, NEW a \in Addrs, a \notin S
  PROVE  Cardinality(S \cup {a}) = Cardinality(S) + 1
  BY AddrsFinite, FS_AddElement, Zenon

\* One address less changes the cardinality by one.
LEMMA OneLess ==
  ASSUME NEW S \in SUBSET Addrs, NEW a \in S
  PROVE  Cardinality(S \ {a}) = Cardinality(S) - 1
  BY AddrsFinite, FS_RemoveElement, Zenon

-----------------------------------------------------------------------------
\* The empty record is consistent.
LEMMA NoAllocationsOK == HeapOK(NoAllocations)
<1>1. NoAllocations \in PidStacks
  BY DEF NoAllocations, PidStacks
<1>2. \A s \in Stacks : AddrsOf(NoAllocations, s) = {}
  BY LiveAssumption, Zenon DEF NoAllocations, AddrsOf
<1>3. Counted(NoAllocations)
  BY <1>2, FS_EmptySet, Zenon DEF NoAllocations, Counted
<1> QED
  BY <1>1, <1>3, Zenon DEF HeapOK

\* The stack of a registered address has been counted.
LEMMA CountedStack ==
  ASSUME NEW h, HeapOK(h), NEW a \in Addrs, h.unique_stack[a] \in Stacks
  PROVE  h.count[h.unique_stack[a]] # 0
<1> DEFINE s == h.unique_stack[a]
<1>1. a \in AddrsOf(h, s) /\ AddrsOf(h, s) \in SUBSET Addrs
  BY Zenon DEF AddrsOf
<1>2. Cardinality(AddrsOf(h, s)) # 0
  BY <1>1, AddrsFinite, Zenon
<1> QED
  BY <1>2, Zenon DEF HeapOK, Counted

\* Detach leaves the address map alone and takes one off the count of the
\* address's stack.
LEMMA DetachFields ==
  ASSUME NEW h \in PidStacks, NEW a \in Addrs, NEW keep,
         h.unique_stack[a] \in Stacks, h.count[h.unique_stack[a]] # 0
  PROVE  LET s == h.unique_stack[a]
             d == Detach(h, a, keep)
             erase == h.count[s] = 1 /\ s # keep
         IN  /\ d \in PidStacks
             /\ d.value = h.value
             /\ d.unique_stack = h.unique_stack
             /\ d.count = [h.count EXCEPT ![s] = h.count[s] - 1]
             /\ d.unique_stacks = IF erase THEN h.unique_stacks \ {s}
                                           ELSE h.unique_stacks
<1> DEFINE s == h.unique_stack[a]
<1> DEFINE d == Detach(h, a, keep)
<1>1. h \in PidStacks /\ s \in Stacks
  BY Zenon
<1>2. h.count[s] \in Nat /\ h.count[s] # 0
  BY <1>1, Zenon DEF PidStacks
<1> DEFINE erase == h.count[s] = 1 /\ s # keep
<1>3. d = [h EXCEPT !.sum[s] = IF erase THEN 0 ELSE h.sum[s] - h.value[a],
                    !.count[s] = h.count[s] - 1,
                    !.unique_stacks = IF erase THEN h.unique_stacks \ {s}
                                               ELSE h.unique_stacks]
  BY <1>1, <1>2 DEF Detach, PidStacks
<1>4. h.value[a] \in Int /\ h.sum[s] \in Int
  <2>1. h.value \in [Addrs -> Values \cup {0}] /\ h.sum \in [Stacks -> Int]
    BY <1>1, Zenon DEF PidStacks
  <2>2. Values \cup {0} \subseteq Int
    BY LiveAssumption
  <2> QED
    BY <1>1, <2>1, <2>2, Zenon
<1>5. h.count[s] - 1 \in Nat
  BY <1>2
<1>6. /\ d.value = h.value
      /\ d.unique_stack = h.unique_stack
      /\ d.count = [h.count EXCEPT ![s] = h.count[s] - 1]
      /\ d.unique_stacks = IF erase THEN h.unique_stacks \ {s}
                                    ELSE h.unique_stacks
  BY <1>1, <1>3, Zenon DEF PidStacks
<1>7. d \in PidStacks
  <2> DEFINE newsum == IF erase THEN 0 ELSE h.sum[s] - h.value[a]
  <2> DEFINE newstacks == IF erase THEN h.unique_stacks \ {s}
                                   ELSE h.unique_stacks
  <2>1. newsum \in Int
    BY <1>4
  <2>2. newstacks \in SUBSET Stacks
    BY <1>1, Zenon DEF PidStacks
  <2>3. d = [h EXCEPT !.sum[s] = newsum, !.count[s] = h.count[s] - 1,
                      !.unique_stacks = newstacks]
    BY <1>3, Zenon
  <2> HIDE DEF newsum, newstacks, d
  <2> QED
    BY <1>1, <1>5, <2>1, <2>2, <2>3, Zenon DEF PidStacks
<1> QED
  BY <1>6, <1>7, Zenon

\* A deallocation, of a registered address or of any other, leaves a
\* consistent record.
LEMMA RegisterDeallocationOK ==
  ASSUME NEW h, HeapOK(h), NEW a \in Addrs
  PROVE  /\ HeapOK(RegisterDeallocation(h, a))
         /\ LiveAddrs(RegisterDeallocation(h, a)) \subseteq LiveAddrs(h)
<1> DEFINE s == h.unique_stack[a]
<1> DEFINE d == Detach(h, a, NoStack)
<1> DEFINE r == RegisterDeallocation(h, a)
<1>1. h \in PidStacks /\ Counted(h)
  BY Zenon DEF HeapOK
<1>2. s \in Stacks \cup {NoStack}
  BY <1>1, Zenon DEF PidStacks
<1>3. CASE s = NoStack
  BY <1>3, Zenon DEF RegisterDeallocation
<1>4. CASE s \in Stacks
  <2>1. s # NoStack
    BY <1>4, LiveAssumption, Zenon
  <2>2. h.count[s] # 0
    BY <1>4, CountedStack, Zenon
  <2>3. /\ d \in PidStacks
        /\ d.value = h.value
        /\ d.unique_stack = h.unique_stack
        /\ d.count = [h.count EXCEPT ![s] = h.count[s] - 1]
        /\ d.unique_stacks = IF h.count[s] = 1 THEN h.unique_stacks \ {s}
                                               ELSE h.unique_stacks
    BY <1>1, <1>4, <2>1, <2>2, DetachFields
  <2>4. r = [d EXCEPT !.value[a] = 0, !.unique_stack[a] = NoStack]
    BY <2>1, Zenon DEF RegisterDeallocation
  <2> HIDE DEF d, r
  <2>5. /\ r \in PidStacks
        /\ r.value = [h.value EXCEPT ![a] = 0]
        /\ r.unique_stack = [h.unique_stack EXCEPT ![a] = NoStack]
        /\ r.count = d.count
        /\ r.unique_stacks = d.unique_stacks
    BY <2>3, <2>4, Zenon DEF PidStacks
  <2>6. /\ h.value \in [Addrs -> Values \cup {0}]
        /\ h.unique_stack \in [Addrs -> Stacks \cup {NoStack}]
        /\ h.count \in [Stacks -> Nat]
    BY <1>1, Zenon DEF PidStacks
  <2>7. AddrsOf(r, s) = AddrsOf(h, s) \ {a}
    BY <2>1, <2>5, <2>6, Zenon DEF AddrsOf
  <2>8. \A u \in Stacks \ {s} : AddrsOf(r, u) = AddrsOf(h, u)
    BY <2>5, <2>6, LiveAssumption DEF AddrsOf
  <2>9. LiveAddrs(r) \subseteq LiveAddrs(h)
    BY <2>5, <2>6, Zenon DEF LiveAddrs
  <2>10. \A b \in Addrs : r.value[b] = 0 <=> r.unique_stack[b] = NoStack
    BY <1>1, <2>5, <2>6, Zenon DEF Counted
  <2>11. /\ a \in AddrsOf(h, s) /\ AddrsOf(h, s) \in SUBSET Addrs
         /\ h.count[s] = Cardinality(AddrsOf(h, s))
         /\ s \in h.unique_stacks
    BY <1>1, <1>4, Zenon DEF AddrsOf, Counted
  <2>12. r.count[s] = Cardinality(AddrsOf(r, s))
    <3>1. Cardinality(AddrsOf(r, s)) = Cardinality(AddrsOf(h, s)) - 1
      BY <2>7, <2>11, OneLess, Zenon
    <3> QED
      BY <1>4, <2>3, <2>5, <2>6, <2>11, <3>1
  <2>13. s \in r.unique_stacks <=> AddrsOf(r, s) # {}
    <3>1. AddrsOf(r, s) # {} <=> Cardinality(AddrsOf(r, s)) # 0
      BY <2>7, <2>11, AddrsFinite, Zenon
    <3>2. r.count[s] = h.count[s] - 1 /\ h.count[s] \in Nat
      BY <1>4, <2>3, <2>5, <2>6
    <3> QED
      BY <2>3, <2>5, <2>11, <2>12, <3>1, <3>2
  <2>14. ASSUME NEW u \in Stacks \ {s}
         PROVE  /\ r.count[u] = Cardinality(AddrsOf(r, u))
                /\ u \in r.unique_stacks <=> AddrsOf(r, u) # {}
    <3>1. r.count[u] = h.count[u]
      BY <2>3, <2>5, <2>6
    <3>2. u \in r.unique_stacks <=> u \in h.unique_stacks
      BY <2>3, <2>5, Zenon
    <3> QED
      BY <1>1, <2>8, <3>1, <3>2, Zenon DEF Counted
  <2>15. Counted(r)
    BY <2>10, <2>12, <2>13, <2>14, Zenon DEF Counted
  <2> QED
    BY <2>5, <2>9, <2>15, Zenon DEF HeapOK, r
<1> QED
  BY <1>2, <1>3, <1>4, Zenon

\* An allocation leaves a consistent record: of a new address, of an address
\* whose deallocation was missed, and of one that was allocated by the same
\* stack before.
LEMMA RegisterAllocationOK ==
  ASSUME NEW h, HeapOK(h), NEW uo \in Stacks \cup {NoStack},
         NEW a \in Addrs, NEW v \in Values
  PROVE  HeapOK(RegisterAllocation(h, uo, a, v))
<1> DEFINE old == h.unique_stack[a]
<1> DEFINE found == [h EXCEPT !.unique_stacks = @ \cup {uo}]
<1> DEFINE cleaned == IF h.value[a] # 0 THEN Detach(found, a, uo) ELSE found
<1> DEFINE r == RegisterAllocation(h, uo, a, v)
<1>1. h \in PidStacks /\ Counted(h)
  BY Zenon DEF HeapOK
<1>2. CASE uo = NoStack
  BY <1>2, Zenon DEF RegisterAllocation
<1>3. CASE uo \in Stacks
  <2>1. /\ h.value \in [Addrs -> Values \cup {0}]
        /\ h.unique_stack \in [Addrs -> Stacks \cup {NoStack}]
        /\ h.unique_stacks \in SUBSET Stacks
        /\ h.count \in [Stacks -> Nat]
    BY <1>1, Zenon DEF PidStacks
  <2>2. /\ found \in PidStacks
        /\ found.value = h.value
        /\ found.unique_stack = h.unique_stack
        /\ found.count = h.count
        /\ found.unique_stacks = h.unique_stacks \cup {uo}
    BY <1>1, <1>3, Zenon DEF PidStacks
  <2>3. uo # NoStack /\ v # 0 /\ v \in Int
    BY <1>3, LiveAssumption
  <2>4. r = [cleaned EXCEPT !.value[a] = v, !.unique_stack[a] = uo,
                            !.sum[uo] = @ + v, !.count[uo] = @ + 1]
    BY <2>3, Zenon DEF RegisterAllocation
  <2>5. h.value[a] = 0 <=> old = NoStack
    BY <1>1, Zenon DEF Counted
  <2> HIDE DEF found
  <2>6. /\ cleaned \in PidStacks
        /\ cleaned.value = h.value
        /\ cleaned.unique_stack = h.unique_stack
        /\ old = NoStack => /\ cleaned.count = h.count
                            /\ cleaned.unique_stacks = h.unique_stacks \cup {uo}
        /\ old # NoStack =>
             /\ old \in Stacks /\ h.count[old] # 0
             /\ cleaned.count = [h.count EXCEPT ![old] = h.count[old] - 1]
             /\ cleaned.unique_stacks =
                  IF h.count[old] = 1 /\ old # uo
                  THEN (h.unique_stacks \cup {uo}) \ {old}
                  ELSE h.unique_stacks \cup {uo}
    <3>1. CASE old = NoStack
      BY <2>2, <2>5, <3>1, Zenon
    <3>2. CASE old # NoStack
      <4>1. old \in Stacks /\ h.count[old] # 0
        BY <2>1, <3>2, CountedStack, Zenon
      <4>2. cleaned = Detach(found, a, uo)
        BY <2>5, <3>2, Zenon
      <4>3. /\ found.unique_stack[a] \in Stacks
            /\ found.count[found.unique_stack[a]] # 0
        BY <2>2, <4>1, Zenon
      <4>4. ASSUME NEW g \in PidStacks, g.unique_stack[a] = old,
                   g.count[old] # 0
            PROVE  /\ Detach(g, a, uo) \in PidStacks
                   /\ Detach(g, a, uo).value = g.value
                   /\ Detach(g, a, uo).unique_stack = g.unique_stack
                   /\ Detach(g, a, uo).count =
                        [g.count EXCEPT ![old] = g.count[old] - 1]
                   /\ Detach(g, a, uo).unique_stacks =
                        IF g.count[old] = 1 /\ old # uo
                        THEN g.unique_stacks \ {old}
                        ELSE g.unique_stacks
        BY <4>1, <4>4, DetachFields
      <4>5. /\ Detach(found, a, uo) \in PidStacks
            /\ Detach(found, a, uo).value = found.value
            /\ Detach(found, a, uo).unique_stack = found.unique_stack
            /\ Detach(found, a, uo).count =
                 [found.count EXCEPT ![old] = found.count[old] - 1]
            /\ Detach(found, a, uo).unique_stacks =
                 IF found.count[old] = 1 /\ old # uo
                 THEN found.unique_stacks \ {old}
                 ELSE found.unique_stacks
        BY <2>2, <4>1, <4>3, <4>4, Zenon
      <4> QED
        BY <2>2, <3>2, <4>1, <4>2, <4>5, Zenon
    <3> QED
      BY <3>1, <3>2, Zenon
  <2> HIDE DEF cleaned, r
  <2>7. /\ r.value = [h.value EXCEPT ![a] = v]
        /\ r.unique_stack = [h.unique_stack EXCEPT ![a] = uo]
        /\ r.count = [cleaned.count EXCEPT ![uo] = cleaned.count[uo] + 1]
        /\ r.unique_stacks = cleaned.unique_stacks
    BY <2>4, <2>6, Zenon DEF PidStacks
  <2>8. r \in PidStacks
    <3>1. cleaned.sum[uo] + v \in Int /\ cleaned.count[uo] + 1 \in Nat
      BY <1>3, <2>3, <2>6 DEF PidStacks
    <3>2. r = [cleaned EXCEPT !.value[a] = v, !.unique_stack[a] = uo,
                              !.sum[uo] = cleaned.sum[uo] + v,
                              !.count[uo] = cleaned.count[uo] + 1]
      BY <2>4, <2>6, Zenon DEF PidStacks
    <3> QED
      BY <1>3, <2>6, <3>1, <3>2, Zenon DEF PidStacks
  <2>9. \A b \in Addrs : r.value[b] = 0 <=> r.unique_stack[b] = NoStack
    BY <1>1, <2>1, <2>3, <2>7, Zenon DEF Counted
  <2>10. /\ AddrsOf(r, uo) = AddrsOf(h, uo) \cup {a}
         /\ \A u \in Stacks \ {uo} : AddrsOf(r, u) = AddrsOf(h, u) \ {a}
    BY <1>3, <2>1, <2>7 DEF AddrsOf
  <2>11. \A u \in Stacks : /\ AddrsOf(h, u) \in SUBSET Addrs
                           /\ a \in AddrsOf(h, u) <=> u = old
                           /\ h.count[u] = Cardinality(AddrsOf(h, u))
                           /\ u \in h.unique_stacks <=> AddrsOf(h, u) # {}
    BY <1>1, Zenon DEF AddrsOf, Counted
  <2>12. r.count[uo] = Cardinality(AddrsOf(r, uo))
    <3>1. CASE old = uo
      <4>1. AddrsOf(r, uo) = AddrsOf(h, uo)
        BY <1>3, <2>10, <2>11, <3>1
      <4>2. r.count[uo] = h.count[uo]
        BY <1>3, <2>1, <2>3, <2>6, <2>7, <3>1
      <4> QED
        BY <1>3, <2>11, <4>1, <4>2, Zenon
    <3>2. CASE old # uo
      <4>1. Cardinality(AddrsOf(r, uo)) = Cardinality(AddrsOf(h, uo)) + 1
        BY <1>3, <2>10, <2>11, <3>2, OneMore, Zenon
      <4>2. r.count[uo] = h.count[uo] + 1
        BY <1>3, <2>1, <2>6, <2>7, <3>2
      <4> QED
        BY <1>3, <2>11, <4>1, <4>2, Zenon
    <3> QED
      BY <3>1, <3>2, Zenon
  <2>13. uo \in r.unique_stacks /\ AddrsOf(r, uo) # {}
    BY <2>6, <2>7, <2>10, Zenon
  <2>14. ASSUME NEW u \in Stacks \ {uo}
         PROVE  /\ r.count[u] = Cardinality(AddrsOf(r, u))
                /\ u \in r.unique_stacks <=> AddrsOf(r, u) # {}
    <3>1. CASE u = old
      <4>1. r.count[u] = h.count[u] - 1 /\ h.count[u] \in Nat
        BY <2>1, <2>3, <2>6, <2>7, <3>1, LiveAssumption
      <4>2. Cardinality(AddrsOf(r, u)) = Cardinality(AddrsOf(h, u)) - 1
        BY <2>10, <2>11, <3>1, OneLess
      <4>3. AddrsOf(r, u) # {} <=> Cardinality(AddrsOf(r, u)) # 0
        BY <2>10, <2>11, AddrsFinite, Zenon
      <4>4. u \in h.unique_stacks
        BY <2>11, <3>1, Zenon
      <4>5. u # NoStack
        BY LiveAssumption, Zenon
      <4>6. u \in r.unique_stacks <=> h.count[u] # 1
        BY <2>6, <2>7, <3>1, <4>4, <4>5, Zenon
      <4> QED
        BY <2>11, <4>1, <4>2, <4>3, <4>6
    <3>2. CASE u # old
      <4>1. AddrsOf(r, u) = AddrsOf(h, u)
        <5>1. AddrsOf(r, u) = AddrsOf(h, u) \ {a}
          BY <2>10, Zenon
        <5>2. a \notin AddrsOf(h, u)
          BY <2>11, <3>2, Zenon
        <5> QED
          BY <5>1, <5>2, Zenon
      <4>2. r.count[u] = h.count[u]
        BY <1>3, <2>1, <2>6, <2>7, <3>2
      <4>3. u \in r.unique_stacks <=> u \in h.unique_stacks
        BY <2>6, <2>7, <3>2, Zenon
      <4> QED
        BY <2>11, <4>1, <4>2, <4>3, Zenon
    <3> QED
      BY <3>1, <3>2, Zenon
  <2>15. Counted(r)
    BY <2>9, <2>12, <2>13, <2>14, Zenon DEF Counted
  <2> QED
    BY <2>8, <2>15, Zenon DEF HeapOK, r
<1> QED
  BY <1>2, <1>3, Zenon

-----------------------------------------------------------------------------
\* Forgetting processes keeps the invariant, if the processes with live
\* allocations were known before.
LEMMA FreeInv ==
  ASSUME NEW ps \in SUBSET Pids, NEW heaps, NEW known \in SUBSET Pids,
         heaps \in [Pids -> PidStacks], \A p \in Pids : HeapOK(heaps[p]),
         \A p \in Pids : LiveAddrs(heaps[p]) # {} => p \in known,
         visited' \in SUBSET Pids,
         worker_pid_free(ps, heaps, known)
  PROVE  LiveInv'
<1>1. /\ live' = [p \in Pids |-> IF p \in ps THEN NoAllocations ELSE heaps[p]]
      /\ process_map' = known \ ps
  BY Zenon DEF worker_pid_free
<1>2. NoAllocations \in PidStacks /\ HeapOK(NoAllocations)
  BY NoAllocationsOK, Zenon DEF HeapOK
<1>3. LiveAddrs(NoAllocations) = {}
  BY Zenon DEF LiveAddrs, NoAllocations
<1>4. LiveTypeOK'
  BY <1>1, <1>2, Zenon DEF LiveTypeOK
<1>5. ASSUME NEW p \in Pids PROVE HeapOK(live'[p])
  BY <1>1, <1>2, Zenon
<1>6. ASSUME NEW p \in Pids, LiveAddrs(live'[p]) # {} PROVE p \in process_map'
  BY <1>1, <1>3, <1>6, Zenon
<1>7. (\A p \in Pids : HeapOK(live[p]))'
  BY <1>5, Zenon
<1>8. LiveProcessKnown'
  BY <1>6, Zenon DEF LiveProcessKnown
<1> QED
  BY <1>4, <1>7, <1>8, Zenon DEF LiveInv

\* Every event handler, the export cycle and a restart of the worker keep the
\* invariant.
LEMMA LiveStep == LiveInv /\ [LiveNext]_liveVars => LiveInv'
<1> SUFFICES ASSUME LiveInv, [LiveNext]_liveVars PROVE LiveInv'
  BY Zenon
<1>1. /\ live \in [Pids -> PidStacks]
      /\ process_map \in SUBSET Pids /\ visited \in SUBSET Pids
      /\ \A p \in Pids : HeapOK(live[p])
      /\ \A p \in Pids : LiveAddrs(live[p]) # {} => p \in process_map
  BY Zenon DEF LiveInv, LiveTypeOK, LiveProcessKnown
<1>2. ASSUME NEW p \in Pids, NEW a \in Addrs \cup {Null},
             NEW uo \in Stacks \cup {NoStack}, NEW v \in Values,
             NEW inconsistent \in BOOLEAN,
             ddprof_pr_sample(p, a, uo, v, inconsistent)
      PROVE  LiveInv'
  <2> DEFINE heaps ==
        IF a = Null THEN live
        ELSE [live EXCEPT ![p] = RegisterAllocation(live[p], uo, a, v)]
  <2> DEFINE ps == IF inconsistent THEN {p} ELSE {}
  <2>1. visited' = visited \cup {p}
        /\ worker_pid_free(ps, heaps, process_map \cup {p})
    BY <1>2, Zenon DEF ddprof_pr_sample
  <2>2. a # Null => HeapOK(RegisterAllocation(live[p], uo, a, v))
    BY <1>1, RegisterAllocationOK, Zenon
  <2>3. heaps \in [Pids -> PidStacks] /\ \A q \in Pids : HeapOK(heaps[q])
    BY <1>1, <2>2, Zenon DEF HeapOK
  <2>4. \A q \in Pids : LiveAddrs(heaps[q]) # {} => q \in process_map \cup {p}
    BY <1>1, Zenon
  <2>5. ps \in SUBSET Pids /\ visited' \in SUBSET Pids
        /\ process_map \cup {p} \in SUBSET Pids
    BY <1>1, <2>1, Zenon
  <2> HIDE DEF heaps, ps
  <2> QED
    BY <2>1, <2>3, <2>4, <2>5, FreeInv, Zenon
<1>3. ASSUME NEW p \in Pids, NEW a \in Addrs, ddprof_pr_deallocation(p, a)
      PROVE  LiveInv'
  <2> DEFINE r == RegisterDeallocation(live[p], a)
  <2>1. live' = [live EXCEPT ![p] = r]
        /\ process_map' = process_map /\ visited' = visited
    BY <1>3, Zenon DEF ddprof_pr_deallocation
  <2>2. HeapOK(r) /\ LiveAddrs(r) \subseteq LiveAddrs(live[p])
    BY <1>1, RegisterDeallocationOK, Zenon
  <2> HIDE DEF r
  <2>3. LiveTypeOK'
    BY <1>1, <2>1, <2>2, Zenon DEF LiveTypeOK, HeapOK
  <2>4. ASSUME NEW q \in Pids
        PROVE  HeapOK(live'[q]) /\ (LiveAddrs(live'[q]) # {} => q \in process_map')
    <3>1. CASE q = p
      <4>1. live'[q] = r
        BY <1>1, <2>1, <3>1, Zenon
      <4> QED
        BY <1>1, <2>1, <2>2, <3>1, <4>1, Zenon
    <3>2. CASE q # p
      <4>1. live'[q] = live[q]
        BY <1>1, <2>1, <3>2, Zenon
      <4> QED
        BY <1>1, <2>1, <4>1, Zenon
    <3> QED
      BY <3>1, <3>2, Zenon
  <2>5. (\A q \in Pids : HeapOK(live[q]))'
    BY <2>4, Zenon
  <2>6. LiveProcessKnown'
    BY <2>4, Zenon DEF LiveProcessKnown
  <2> QED
    BY <2>3, <2>5, <2>6, Zenon DEF LiveInv
<1>4. ASSUME NEW p \in Pids, ddprof_pr_mmap(p)
      PROVE  LiveInv'
  <2>1. live' = live /\ process_map' = process_map /\ visited' = visited \cup {p}
    BY <1>4, Zenon DEF ddprof_pr_mmap
  <2> QED
    BY <1>1, <2>1, Zenon DEF LiveInv, LiveTypeOK, LiveProcessKnown
<1>5. ASSUME NEW p \in Pids, ddprof_pr_comm(p)
      PROVE  LiveInv'
  <2>1. worker_pid_free({p}, live, process_map) /\ visited' = visited
    BY <1>5, Zenon DEF ddprof_pr_comm
  <2> QED
    BY <1>1, <2>1, FreeInv, Zenon
<1>6. ASSUME NEW p \in Pids, ddprof_pr_fork(p)
      PROVE  LiveInv'
  <2>1. /\ worker_pid_free({p}, live, process_map)
        /\ visited' = visited \cup {p}
    BY <1>6, Zenon DEF ddprof_pr_fork
  <2> QED
    BY <1>1, <2>1, FreeInv, Zenon
<1>7. CASE clear_unvisited_pids
  <2>1. /\ worker_pid_free(process_map \ visited, live, process_map)
        /\ visited' = {}
    BY <1>7, Zenon DEF clear_unvisited_pids
  <2> QED
    BY <1>1, <2>1, FreeInv, Zenon
<1>8. CASE WorkerRestart
  <2>1. /\ worker_pid_free(Pids, live, process_map)
        /\ visited' = {}
    BY <1>1, <1>8, Zenon DEF WorkerRestart, worker_pid_free
  <2> QED
    BY <1>1, <2>1, FreeInv, Zenon
<1>9. CASE UNCHANGED liveVars
  BY <1>9, Zenon DEF liveVars, LiveInv, LiveTypeOK, LiveProcessKnown
<1> QED
  BY <1>2, <1>3, <1>4, <1>5, <1>6, <1>7, <1>8, <1>9, Zenon DEF LiveNext

\* Before the first sample, the record of every process is empty.
LEMMA LiveInitInv == LiveInit => LiveInv
<1> SUFFICES ASSUME LiveInit PROVE LiveInv
  BY Zenon
<1>1. live = [p \in Pids |-> NoAllocations] /\ process_map = {} /\ visited = {}
  BY Zenon DEF LiveInit
<1>2. NoAllocations \in PidStacks /\ HeapOK(NoAllocations)
  BY NoAllocationsOK, Zenon DEF HeapOK
<1>3. LiveAddrs(NoAllocations) = {}
  BY Zenon DEF LiveAddrs, NoAllocations
<1> QED
  BY <1>1, <1>2, <1>3, Zenon DEF LiveInv, LiveTypeOK, LiveProcessKnown

\* The record of live allocations and the process table keep their types:
\* every address of the map has a positive value, every count is a natural.
THEOREM LiveTypeCorrect == LiveSpec => []LiveTypeOK
<1>1. LiveInv => LiveTypeOK
  BY Zenon DEF LiveInv
<1> QED
  BY <1>1, LiveInitInv, LiveStep, PTL DEF LiveSpec

\* For any processes, addresses and stacks, no address of the map points to a
\* stack that register_allocation, register_deallocation or clear_pid has
\* erased, no stack stays without an address, and the counts are exact.
THEOREM LiveStacksCounted == LiveSpec => []StacksCounted
<1>1. LiveInv => StacksCounted
  BY Zenon DEF LiveInv, HeapOK, Counted, StacksCounted
<1> QED
  BY <1>1, LiveInitInv, LiveStep, PTL DEF LiveSpec

\* Whatever the order of events, cycles and restarts, a process with live
\* allocations is in the table that clear_unvisited_pids goes through.
THEOREM LiveKnown == LiveSpec => []LiveProcessKnown
<1>1. LiveInv => LiveProcessKnown
  BY Zenon DEF LiveInv
<1> QED
  BY <1>1, LiveInitInv, LiveStep, PTL DEF LiveSpec
-----------------------------------------------------------------------------
(* The hooks, the ring and the worker together *)

\* What the ring buffer can hold.
Events ==
  [type : {"sample"}, pid : Pids, addr : Addrs \cup {Null}, sample : Samples]
    \cup [type : {"deallocation"}, pid : Pids, addr : Addrs]

\* The types of what the hooks and the worker have.
HeapType ==
  /\ proc \in [Threads -> Pids \cup {None}] /\ started \subseteq Pids
  /\ in_use \in [Pids -> SUBSET Addrs] /\ tracked \in [Pids -> SUBSET Addrs]
  /\ track_deallocations \in [Pids -> BOOLEAN] /\ pid \in [Pids -> Pids]
  /\ pc \in [Threads -> {"idle", "add", "push_alloc", "pushed", "remove", "push_dealloc", "ref"}]
  /\ op \in [Threads -> {"none", "alloc", "free", "dallocx", "realloc"}]
  /\ ptr \in [Threads -> Addrs \cup {Null}] /\ addr \in [Threads -> Addrs \cup {Null}]
  /\ res \in [Threads -> {"ok", "warn", "error"}]
  /\ ring \in Seq(Events)
  /\ unreported \in [Pids -> SUBSET Addrs] /\ forgotten \in [Pids -> SUBSET Addrs]
  /\ announced \subseteq Pids

\* t has a block of its process: it is in use, and no other thread has it.
Holds(t) == pc[t] # "idle" /\ op[t] # "dallocx" /\ ptr[t] # Null

\* Where a thread is in its hook says what it is doing and with which block, and no
\* two threads have the same one.
HookInv ==
  /\ \A t \in Threads :
       /\ proc[t] = None => pc[t] = "idle"
       /\ proc[t] # None => proc[t] \in started
       /\ pc[t] \in {"add", "push_alloc"} => op[t] = "alloc"
       /\ pc[t] \in {"remove", "push_dealloc", "ref"} => op[t] # "alloc"
       /\ pc[t] # "idle" /\ op[t] # "alloc" =>
            op[t] \in {"free", "dallocx", "realloc"} /\ ptr[t] # Null
       /\ pc[t] = "idle" => op[t] = "none"
       /\ addr[t] \in IF op[t] = "alloc" THEN {ptr[t], Null} ELSE {Null}
       /\ Holds(t) => ptr[t] \in in_use[proc[t]]
  /\ \A t, u \in Threads :
       proc[t] = proc[u] /\ Holds(t) /\ Holds(u) /\ ptr[t] = ptr[u] => t = u

\* The processes that report under their own identifier.
Own == {p \in started : pid[p] = p}

\* A child that has not been told to start anew reports under the identifier of the
\* process it came from, so the worker knows only processes that have their own.
PidInv ==
  /\ \A p \in Pids : IF p \in started THEN pid[p] \in Own ELSE pid[p] = p
  /\ \A i \in 1 .. Len(ring) : ring[i].pid \in Own
  /\ \A p \in Pids : LiveAddrs(live[p]) # {} => p \in Own

\* Event e is of this type, process and address.
Is(e, type, p, a) == e.type = type /\ e.pid = p /\ e.addr = a

\* The worker will show a as live when it has read the ring.
Shown(p, a) ==
  \/ a \in LiveAddrs(live[p]) /\ \A j \in 1 .. Len(ring) : ~ Is(ring[j], "deallocation", p, a)
  \/ \E i \in 1 .. Len(ring) :
       /\ Is(ring[i], "sample", p, a)
       /\ \A j \in i + 1 .. Len(ring) : ~ Is(ring[j], "deallocation", p, a)

\* Thread t of p has entered a in the set and not reported it, or not with success.
Adding(t, p, a) ==
  /\ proc[t] = p /\ op[t] = "alloc" /\ addr[t] = a
  /\ pc[t] = "push_alloc" \/ (pc[t] = "pushed" /\ res[t] # "ok")

\* What will be shown is in the set, or its deallocation is on its way, or was lost.
\* While a thread has yet to report an address, only an older report can show it.
PhantomInv ==
  \A p \in Pids : track_deallocations[p] =>
    /\ \A a \in Addrs : Shown(p, a) => a \in tracked[p] \cup unreported[p] \cup BeingRemoved(p)
    /\ \A t \in Threads, a \in Addrs : Adding(t, p, a) =>
         /\ Shown(p, a) => a \in unreported[p] \cup BeingRemoved(p)
         /\ pc[t] = "push_alloc" => a \in tracked[p] \cup unreported[p]

\* What is in the set will be shown, unless its allocation is on its way, or was lost.
MissingInv ==
  \A p \in Pids : track_deallocations[p] =>
    \A a \in tracked[p] : a \in forgotten[p] \cup BeingAdded(p) \/ Shown(p, a)

-----------------------------------------------------------------------------
\* The worker's record does not change.
LEMMA ShownKept ==
  ASSUME UNCHANGED <<ring, live>>, NEW p, NEW a
  PROVE  Shown(p, a)' <=> Shown(p, a)
BY Zenon DEF Shown

\* A sample that is appended will show its address.
LEMMA SampleAppended ==
  ASSUME HeapType, NEW e \in Events, e.type = "sample", ring' = Append(ring, e),
         UNCHANGED live, NEW p \in Pids, NEW a \in Addrs
  PROVE  Shown(p, a)' <=> Shown(p, a) \/ (e.pid = p /\ e.addr = a)
<1>. DEFINE n == Len(ring)
<1>1. /\ n \in Nat /\ Len(ring') = n + 1 /\ ring'[n + 1] = e
      /\ \A i \in 1 .. n : ring'[i] = ring[i]
  BY DEF HeapType
<1>2. ~ Is(e, "deallocation", p, a) /\ (Is(e, "sample", p, a) <=> e.pid = p /\ e.addr = a)
  BY Zenon DEF Is
<1>3. (\A j \in 1 .. n + 1 : ~ Is(ring'[j], "deallocation", p, a))
        <=> \A j \in 1 .. n : ~ Is(ring[j], "deallocation", p, a)
  BY <1>1, <1>2
<1>4. ASSUME NEW i \in 1 .. n
      PROVE  (\A j \in i + 1 .. n + 1 : ~ Is(ring'[j], "deallocation", p, a))
               <=> \A j \in i + 1 .. n : ~ Is(ring[j], "deallocation", p, a)
  BY <1>1, <1>2
<1>5. \A i \in 1 .. n + 1 : i \in 1 .. n \/ i = n + 1
  BY <1>1
<1>6. (n + 1) + 1 .. n + 1 = {} /\ n + 1 \in 1 .. n + 1 /\ 1 .. n \subseteq 1 .. n + 1
  BY <1>1
<1>7. Shown(p, a)' <=>
        \/ a \in LiveAddrs(live[p]) /\ \A j \in 1 .. n + 1 : ~ Is(ring'[j], "deallocation", p, a)
        \/ \E i \in 1 .. n + 1 :
             /\ Is(ring'[i], "sample", p, a)
             /\ \A j \in i + 1 .. n + 1 : ~ Is(ring'[j], "deallocation", p, a)
  BY <1>1 DEF Shown, LiveAddrs, Is
<1>. HIDE DEF n
<1>8. Shown(p, a) <=>
        \/ a \in LiveAddrs(live[p]) /\ \A j \in 1 .. n : ~ Is(ring[j], "deallocation", p, a)
        \/ \E i \in 1 .. n :
             /\ Is(ring[i], "sample", p, a)
             /\ \A j \in i + 1 .. n : ~ Is(ring[j], "deallocation", p, a)
  BY Zenon DEF Shown, n
<1>. QED  BY <1>1, <1>2, <1>3, <1>4, <1>5, <1>6, <1>7, <1>8

\* A deallocation that is appended will hide it.
LEMMA DeallocationAppended ==
  ASSUME HeapType, NEW e \in Events, e.type = "deallocation", ring' = Append(ring, e),
         UNCHANGED live, NEW p \in Pids, NEW a \in Addrs
  PROVE  Shown(p, a)' <=> Shown(p, a) /\ ~ (e.pid = p /\ e.addr = a)
<1>. DEFINE n == Len(ring)
            here == e.pid = p /\ e.addr = a
<1>1. /\ n \in Nat /\ Len(ring') = n + 1 /\ ring'[n + 1] = e
      /\ \A i \in 1 .. n : ring'[i] = ring[i]
  BY DEF HeapType
<1>2. ~ Is(e, "sample", p, a) /\ (Is(e, "deallocation", p, a) <=> here)
  BY Zenon DEF Is
<1>3. (\A j \in 1 .. n + 1 : ~ Is(ring'[j], "deallocation", p, a))
        <=> ~ here /\ \A j \in 1 .. n : ~ Is(ring[j], "deallocation", p, a)
  BY <1>1, <1>2
<1>4. ASSUME NEW i \in 1 .. n
      PROVE  (\A j \in i + 1 .. n + 1 : ~ Is(ring'[j], "deallocation", p, a))
               <=> ~ here /\ \A j \in i + 1 .. n : ~ Is(ring[j], "deallocation", p, a)
  BY <1>1, <1>2
<1>5. \A i \in 1 .. n + 1 : i \in 1 .. n \/ i = n + 1
  BY <1>1
<1>6. 1 .. n \subseteq 1 .. n + 1
  BY <1>1
<1>7. Shown(p, a)' <=>
        \/ a \in LiveAddrs(live[p]) /\ \A j \in 1 .. n + 1 : ~ Is(ring'[j], "deallocation", p, a)
        \/ \E i \in 1 .. n + 1 :
             /\ Is(ring'[i], "sample", p, a)
             /\ \A j \in i + 1 .. n + 1 : ~ Is(ring'[j], "deallocation", p, a)
  BY <1>1 DEF Shown, LiveAddrs, Is
<1>. HIDE DEF n, here
<1>8. Shown(p, a) <=>
        \/ a \in LiveAddrs(live[p]) /\ \A j \in 1 .. n : ~ Is(ring[j], "deallocation", p, a)
        \/ \E i \in 1 .. n :
             /\ Is(ring[i], "sample", p, a)
             /\ \A j \in i + 1 .. n : ~ Is(ring[j], "deallocation", p, a)
  BY Zenon DEF Shown, n
<1>9. Shown(p, a)' <=> Shown(p, a) /\ ~ here
  BY <1>1, <1>2, <1>3, <1>4, <1>5, <1>6, <1>7, <1>8
<1>. QED  BY <1>9, Zenon DEF here
-----------------------------------------------------------------------------
(* What the worker does with the ring *)

\* The worker shows a after the first n events of the ring.
ShownAfter(n, p, a) ==
  \/ a \in LiveAddrs(live[p]) /\ \A j \in 1 .. n : ~ Is(ring[j], "deallocation", p, a)
  \/ \E i \in 1 .. n :
       /\ Is(ring[i], "sample", p, a)
       /\ \A j \in i + 1 .. n : ~ Is(ring[j], "deallocation", p, a)

\* One of the others hides a, and one of them shows it.
Hidden(n, p, a) == \E j \in n + 1 .. Len(ring) : Is(ring[j], "deallocation", p, a)

Later(n, p, a) ==
  \E i \in n + 1 .. Len(ring) :
    /\ Is(ring[i], "sample", p, a)
    /\ \A j \in i + 1 .. Len(ring) : ~ Is(ring[j], "deallocation", p, a)

\* What is shown in the end follows from the first n events and the others.
LEMMA ShownSplit ==
  ASSUME HeapType, NEW n \in 0 .. Len(ring), NEW p, NEW a
  PROVE  Shown(p, a) <=> (ShownAfter(n, p, a) /\ ~ Hidden(n, p, a)) \/ Later(n, p, a)
<1>. DEFINE m == Len(ring)
            D(j) == Is(ring[j], "deallocation", p, a)
            S(i) == Is(ring[i], "sample", p, a)
<1>1. m \in Nat /\ n \in Nat /\ n <= m
  BY DEF HeapType
<1>2. /\ Shown(p, a) <=> \/ a \in LiveAddrs(live[p]) /\ \A j \in 1 .. m : ~ D(j)
                         \/ \E i \in 1 .. m : S(i) /\ \A j \in i + 1 .. m : ~ D(j)
      /\ ShownAfter(n, p, a) <=> \/ a \in LiveAddrs(live[p]) /\ \A j \in 1 .. n : ~ D(j)
                                 \/ \E i \in 1 .. n : S(i) /\ \A j \in i + 1 .. n : ~ D(j)
      /\ Hidden(n, p, a) <=> \E j \in n + 1 .. m : D(j)
      /\ Later(n, p, a) <=> \E i \in n + 1 .. m : S(i) /\ \A j \in i + 1 .. m : ~ D(j)
  BY Zenon DEF Shown, ShownAfter, Hidden, Later
<1>. HIDE DEF m, D, S
<1>3. (\A j \in 1 .. m : ~ D(j)) <=> (\A j \in 1 .. n : ~ D(j)) /\ \A j \in n + 1 .. m : ~ D(j)
  BY <1>1
<1>4. ASSUME NEW i \in 1 .. n
      PROVE  (\A j \in i + 1 .. m : ~ D(j))
               <=> (\A j \in i + 1 .. n : ~ D(j)) /\ \A j \in n + 1 .. m : ~ D(j)
  BY <1>1
<1>5. \A i : i \in 1 .. m <=> i \in 1 .. n \/ i \in n + 1 .. m
  BY <1>1
<1>. QED  BY <1>2, <1>3, <1>4, <1>5, Zenon

\* The ring without its first n events.
Consumed(n) ==
  /\ Len(ring') = Len(ring) - n
  /\ \A i \in 1 .. Len(ring) - n : ring'[i] = ring[n + i]

\* When the first n events are read, the others decide with what is live then.
LEMMA ShownRest ==
  ASSUME HeapType, NEW n \in 0 .. Len(ring), Consumed(n), NEW p, NEW a
  PROVE  /\ Shown(p, a)' <=> (a \in LiveAddrs(live'[p]) /\ ~ Hidden(n, p, a)) \/ Later(n, p, a)
         /\ Later(n, p, a) => a \in Reported(ring', "sample", p)
<1>. DEFINE m == Len(ring)
            D(j) == Is(ring[j], "deallocation", p, a)
            S(i) == Is(ring[i], "sample", p, a)
            E(j) == Is(ring'[j], "deallocation", p, a)
            R(i) == Is(ring'[i], "sample", p, a)
<1>1. m \in Nat /\ n \in Nat /\ n <= m /\ m - n \in Nat
  BY DEF HeapType
<1>2. \A i \in 1 .. m - n : (E(i) <=> D(n + i)) /\ (R(i) <=> S(n + i))
  BY Zenon DEF Consumed
<1>3. /\ Shown(p, a)' <=> \/ a \in LiveAddrs(live'[p]) /\ \A j \in 1 .. m - n : ~ E(j)
                          \/ \E i \in 1 .. m - n : R(i) /\ \A j \in i + 1 .. m - n : ~ E(j)
      /\ Hidden(n, p, a) <=> \E j \in n + 1 .. m : D(j)
      /\ Later(n, p, a) <=> \E i \in n + 1 .. m : S(i) /\ \A j \in i + 1 .. m : ~ D(j)
  BY Zenon DEF Shown, Hidden, Later, Consumed, LiveAddrs, Is
<1>4. (\E i \in 1 .. m - n : R(i)) => a \in Reported(ring', "sample", p)
  BY Zenon DEF Reported, Is, Consumed
<1>. HIDE DEF m, D, S, E, R
<1>5. \A j \in n + 1 .. m : j - n \in 1 .. m - n /\ n + (j - n) = j
  BY <1>1
<1>6. \A j \in 1 .. m - n : n + j \in n + 1 .. m
  BY <1>1
<1>7. (\A j \in 1 .. m - n : ~ E(j)) <=> \A j \in n + 1 .. m : ~ D(j)
  BY <1>2, <1>5, <1>6
<1>8. ASSUME NEW i \in 1 .. m - n
      PROVE  (\A j \in i + 1 .. m - n : ~ E(j)) <=> \A j \in n + i + 1 .. m : ~ D(j)
  <2>1. \A j \in n + i + 1 .. m : j - n \in i + 1 .. m - n /\ n + (j - n) = j
    BY <1>1
  <2>2. \A j \in i + 1 .. m - n : n + j \in n + i + 1 .. m /\ j \in 1 .. m - n
    BY <1>1
  <2>. QED  BY <1>2, <2>1, <2>2
<1>9. (\E i \in 1 .. m - n : R(i) /\ \A j \in i + 1 .. m - n : ~ E(j))
        <=> \E i \in n + 1 .. m : S(i) /\ \A j \in i + 1 .. m : ~ D(j)
  <2>1. ASSUME NEW i \in 1 .. m - n, R(i), \A j \in i + 1 .. m - n : ~ E(j)
        PROVE  \E k \in n + 1 .. m : S(k) /\ \A j \in k + 1 .. m : ~ D(j)
    <3>1. n + i \in n + 1 .. m /\ S(n + i) /\ \A j \in (n + i) + 1 .. m : ~ D(j)
      BY <1>2, <1>6, <1>8, <2>1, Zenon
    <3>. QED  BY <3>1, Zenon
  <2>2. ASSUME NEW k \in n + 1 .. m, S(k), \A j \in k + 1 .. m : ~ D(j)
        PROVE  \E i \in 1 .. m - n : R(i) /\ \A j \in i + 1 .. m - n : ~ E(j)
    <3>1. k - n \in 1 .. m - n /\ n + (k - n) = k
      BY <1>5, Zenon
    <3>2. R(k - n) /\ \A j \in (k - n) + 1 .. m - n : ~ E(j)
      BY <1>2, <1>8, <2>2, <3>1, Zenon
    <3>. QED  BY <3>1, <3>2, Zenon
  <2>. QED  BY <2>1, <2>2, Zenon
<1>. QED  BY <1>3, <1>4, <1>7, <1>9, Zenon

\* What a step of the worker does to what the properties are about.
WorkerEffect ==
  /\ UNCHANGED <<proc, started, in_use, tracker, hook>>
  /\ ring' \in Seq(Events) /\ announced' \subseteq Pids
  /\ unreported' \in [Pids -> SUBSET Addrs] /\ forgotten' \in [Pids -> SUBSET Addrs]
  /\ \A i \in 1 .. Len(ring') : ring'[i].pid \in Own
  /\ \A p \in Pids : LiveAddrs(live'[p]) # {} => p \in Own
  /\ \A p \in Pids : forgotten[p] \subseteq forgotten'[p]
  /\ \A p \in Pids, a \in Addrs :
       /\ Shown(p, a)' => Shown(p, a)
       /\ Shown(p, a) => Shown(p, a)' \/ a \in forgotten'[p]
       /\ a \in unreported[p] /\ (Shown(p, a)' \/ a \in BeingAdded(p)) => a \in unreported'[p]

\* It has this effect if it reads the first n events, registers what they say
\* or counts it as forgotten, and forgets only what is not shown any more.
LEMMA WorkerReads ==
  ASSUME HeapType, PidInv, NEW n \in 0 .. Len(ring), NEW ps \in SUBSET Pids,
         UNCHANGED <<proc, started, in_use, tracker, hook>>,
         ring' \in Seq(Events), Consumed(n), announced' \subseteq Pids,
         forgotten' \in [Pids -> SUBSET Addrs],
         \A p \in Pids : forgotten[p] \subseteq forgotten'[p],
         unreported' = [p \in Pids |->
           IF p \in ps THEN unreported[p] \cap (Reported(ring', "sample", p) \cup BeingAdded(p))
                       ELSE unreported[p]],
         \A p \in ps : LiveAddrs(live'[p]) = {},
         \A p \in Pids, a \in Addrs :
           /\ a \in LiveAddrs(live'[p]) => ShownAfter(n, p, a)
           /\ ShownAfter(n, p, a) => a \in LiveAddrs(live'[p]) \/ a \in forgotten'[p]
  PROVE  WorkerEffect
<1>1. n \in Nat /\ Len(ring) \in Nat /\ n <= Len(ring)
  BY DEF HeapType
<1>2. \A i \in 1 .. Len(ring') : n + i \in 1 .. Len(ring) /\ ring'[i] = ring[n + i]
  BY <1>1 DEF Consumed
<1>3. \A i \in 1 .. Len(ring') : ring'[i].pid \in Own
  BY <1>2, Zenon DEF PidInv
<1>4. ASSUME NEW p \in Pids, LiveAddrs(live'[p]) # {}  PROVE p \in Own
  <2>1. PICK a \in Addrs : ShownAfter(n, p, a)
    BY <1>4, Zenon DEF LiveAddrs
  <2>2. CASE a \in LiveAddrs(live[p])
    BY <2>2, Zenon DEF PidInv
  <2>3. CASE \E i \in 1 .. n : Is(ring[i], "sample", p, a)
    <3>1. PICK i \in 1 .. n : ring[i].pid = p
      BY <2>3, Zenon DEF Is
    <3>2. i \in 1 .. Len(ring)
      BY <1>1
    <3>. QED  BY <3>1, <3>2, Zenon DEF PidInv
  <2>. QED  BY <2>1, <2>2, <2>3, Zenon DEF ShownAfter
<1>5. unreported' \in [Pids -> SUBSET Addrs]
  BY Zenon DEF HeapType
<1>6. ASSUME NEW p \in Pids, NEW a \in Addrs
      PROVE  /\ Shown(p, a)' => Shown(p, a)
             /\ Shown(p, a) => Shown(p, a)' \/ a \in forgotten'[p]
             /\ a \in unreported[p] /\ (Shown(p, a)' \/ a \in BeingAdded(p)) => a \in unreported'[p]
  <2>1. /\ Shown(p, a)' <=> (a \in LiveAddrs(live'[p]) /\ ~ Hidden(n, p, a)) \/ Later(n, p, a)
        /\ Later(n, p, a) => a \in Reported(ring', "sample", p)
    BY ShownRest, Zenon
  <2>2. Shown(p, a) <=> (ShownAfter(n, p, a) /\ ~ Hidden(n, p, a)) \/ Later(n, p, a)
    BY ShownSplit, Zenon
  <2>3. p \in ps /\ Shown(p, a)' => a \in Reported(ring', "sample", p)
    BY <2>1, Zenon
  <2>4. a \in unreported[p] /\ (Shown(p, a)' \/ a \in BeingAdded(p)) => a \in unreported'[p]
    BY <2>3, Zenon
  <2>. QED  BY <2>1, <2>2, <2>4, Zenon
<1>. QED  BY <1>3, <1>4, <1>5, <1>6, Zenon DEF WorkerEffect

\* What registering an allocation or a deallocation does to the live addresses.
LEMMA RegisteredAddrs ==
  ASSUME NEW h, HeapOK(h), NEW uo \in Stacks \cup {NoStack}, NEW a \in Addrs, NEW v \in Values
  PROVE  LiveAddrs(RegisterAllocation(h, uo, a, v))
           = LiveAddrs(h) \cup IF uo = NoStack THEN {} ELSE {a}
<1>1. h \in PidStacks /\ Counted(h)
  BY Zenon DEF HeapOK
<1>2. CASE uo = NoStack
  BY <1>2, Zenon DEF RegisterAllocation
<1>3. CASE uo # NoStack
  <2>. DEFINE found == [h EXCEPT !.unique_stacks = @ \cup {uo}]
              cleaned == IF h.value[a] # 0 THEN Detach(found, a, uo) ELSE found
  <2>1. found \in PidStacks /\ found.unique_stack = h.unique_stack
    BY <1>1, <1>3, Zenon DEF PidStacks
  <2>2. /\ Detach(found, a, uo).unique_stack = found.unique_stack
        /\ DOMAIN Detach(found, a, uo) = DOMAIN found
    BY <2>1, Zenon DEF Detach, PidStacks
  <2>3. cleaned.unique_stack = h.unique_stack /\ "unique_stack" \in DOMAIN cleaned
    BY <2>1, <2>2, Zenon DEF PidStacks
  <2>. HIDE DEF cleaned
  <2>4. RegisterAllocation(h, uo, a, v)
          = [cleaned EXCEPT !.value[a] = v, !.unique_stack[a] = uo, !.sum[uo] = @ + v,
                            !.count[uo] = @ + 1]
    BY <1>3, Zenon DEF RegisterAllocation, cleaned
  <2>5. RegisterAllocation(h, uo, a, v).unique_stack = [h.unique_stack EXCEPT ![a] = uo]
    BY <2>3, <2>4, Zenon
  <2>6. h.unique_stack \in [Addrs -> Stacks \cup {NoStack}]
    BY <1>1, Zenon DEF PidStacks
  <2>. QED  BY <1>3, <2>5, <2>6, Zenon DEF LiveAddrs
<1>. QED  BY <1>2, <1>3, Zenon

\* A deallocation takes its address out, and no other.
LEMMA UnregisteredAddrs ==
  ASSUME NEW h, HeapOK(h), NEW a \in Addrs
  PROVE  LiveAddrs(RegisterDeallocation(h, a)) = LiveAddrs(h) \ {a}
<1>1. h \in PidStacks /\ Counted(h) /\ h.unique_stack \in [Addrs -> Stacks \cup {NoStack}]
  BY Zenon DEF HeapOK, PidStacks
<1>2. CASE h.unique_stack[a] = NoStack
  BY <1>2, Zenon DEF RegisterDeallocation, LiveAddrs
<1>3. CASE h.unique_stack[a] # NoStack
  <2>. DEFINE d == Detach(h, a, NoStack)
  <2>1. d.unique_stack = h.unique_stack /\ DOMAIN d = DOMAIN h
    BY <1>1, Zenon DEF Detach, PidStacks
  <2>2. d.unique_stack = h.unique_stack /\ "unique_stack" \in DOMAIN d
    BY <1>1, <2>1, Zenon DEF PidStacks
  <2>. HIDE DEF d
  <2>3. RegisterDeallocation(h, a) = [d EXCEPT !.value[a] = 0, !.unique_stack[a] = NoStack]
    BY <1>3, Zenon DEF RegisterDeallocation, d
  <2>4. RegisterDeallocation(h, a).unique_stack = [h.unique_stack EXCEPT ![a] = NoStack]
    BY <2>2, <2>3, Zenon
  <2>. QED  BY <1>1, <2>4, Zenon DEF LiveAddrs
<1>. QED  BY <1>2, <1>3, Zenon

\* Events are records of these fields.
LEMMA EventFields ==
  ASSUME NEW e \in Events
  PROVE  /\ e.type \in {"sample", "deallocation"} /\ e.pid \in Pids
         /\ e.addr \in Addrs \cup {Null} /\ (e.type = "deallocation" => e.addr \in Addrs)
         /\ e.type = "sample" =>
              e.sample.stack \in Stacks \cup {NoStack} /\ e.sample.value \in Values
BY SamplesAssumption, Zenon DEF Events

\* The first event of the ring is the one that is read.
LEMMA FirstEvent ==
  ASSUME HeapType, ring # <<>>
  PROVE  /\ Head(ring) \in Events /\ Head(ring) = ring[1] /\ Tail(ring) \in Seq(Events)
         /\ 1 \in 0 .. Len(ring) /\ (ring' = Tail(ring) => Consumed(1))
<1>1. ring \in Seq(Events)
  BY Zenon DEF HeapType
<1>. QED  BY <1>1 DEF Consumed

\* The addresses of a part of the ring that is a single event.
LEMMA OneEvent ==
  ASSUME NEW e, NEW p
  PROVE  /\ Reported(<<e>>, "sample", p) = IF e.type = "sample" /\ e.pid = p THEN {e.addr} ELSE {}
         /\ Frameless(<<e>>, p) = IF e.type = "sample" /\ e.pid = p /\ e.sample.stack = NoStack
                                    THEN {e.addr} ELSE {}
<1>1. 1 .. Len(<<e>>) = {1} /\ <<e>>[1] = e
  OBVIOUS
<1>. QED  BY <1>1, Zenon DEF Reported, Frameless

\* An empty part of the ring has none.
LEMMA NoEvent ==
  \A p : Reported(<<>>, "sample", p) = {} /\ Frameless(<<>>, p) = {}
<1>1. 1 .. Len(<<>>) = {}
  OBVIOUS
<1>. QED  BY <1>1, Zenon DEF Reported, Frameless

\* The state after no event, and after the first one.
LEMMA AfterNone ==
  ASSUME NEW p, NEW a
  PROVE  ShownAfter(0, p, a) <=> a \in LiveAddrs(live[p])
<1>1. 1 .. 0 = {}
  OBVIOUS
<1>. QED  BY <1>1, Zenon DEF ShownAfter

\* After the first event, its address is shown or hidden by it.
LEMMA AfterOne ==
  ASSUME NEW p, NEW a
  PROVE  ShownAfter(1, p, a) <=>
           \/ a \in LiveAddrs(live[p]) /\ ~ Is(ring[1], "deallocation", p, a)
           \/ Is(ring[1], "sample", p, a)
<1>1. 1 .. 1 = {1} /\ 1 + 1 .. 1 = {}
  OBVIOUS
<1>. QED  BY <1>1, Zenon DEF ShownAfter

\* The addresses reported by events are addresses of blocks or null.
LEMMA ReportedAddrs ==
  ASSUME NEW s \in Seq(Events), NEW p
  PROVE  /\ Reported(s, "sample", p) \ {Null} \subseteq Addrs
         /\ Frameless(s, p) \ {Null} \subseteq Addrs
<1>1. \A i \in 1 .. Len(s) : s[i] \in Events
  OBVIOUS
<1>2. \A i \in 1 .. Len(s) : s[i].addr \in Addrs \cup {Null}
  BY <1>1, EventFields, Zenon
<1>. QED  BY <1>2, Zenon DEF Reported, Frameless

\* The addresses that the worker loses are added to those it had lost.
LEMMA ForgetTyped ==
  ASSUME HeapType, NEW ps \in SUBSET Pids, NEW s \in Seq(Events), Forget(ps, s)
  PROVE  /\ forgotten' \in [Pids -> SUBSET Addrs]
         /\ \A p \in Pids : forgotten[p] \subseteq forgotten'[p]
         /\ unreported' = [p \in Pids |->
              IF p \in ps THEN unreported[p] \cap (Reported(ring', "sample", p) \cup BeingAdded(p))
                          ELSE unreported[p]]
<1>. DEFINE new(p) == IF p \in ps
                      THEN LiveAddrs(live[p]) \cup (Reported(s, "sample", p) \ {Null})
                      ELSE Frameless(s, p) \ (LiveAddrs(live[p]) \cup {Null})
<1>1. \A p \in Pids : new(p) \subseteq Addrs
  BY ReportedAddrs, Zenon DEF LiveAddrs
<1>2. forgotten' = [p \in Pids |-> forgotten[p] \cup new(p)]
  BY Zenon DEF Forget
<1>3. forgotten \in [Pids -> SUBSET Addrs]
  BY Zenon DEF HeapType
<1>. HIDE DEF new
<1>4. /\ forgotten' \in [Pids -> SUBSET Addrs]
      /\ \A p \in Pids : forgotten[p] \subseteq forgotten'[p]
  BY <1>1, <1>2, <1>3, Zenon
<1>. QED  BY <1>4, Zenon DEF Forget

\* Processes are forgotten and nothing is read.
LEMMA WorkerForgets ==
  ASSUME HeapType, PidInv, LiveInv, NEW ps \in SUBSET Pids,
         UNCHANGED <<proc, started, in_use, tracker, hook, ring>>, announced' \subseteq Pids,
         live' = [p \in Pids |-> IF p \in ps THEN NoAllocations ELSE live[p]],
         Forget(ps, <<>>)
  PROVE  WorkerEffect
<1>1. 0 \in 0 .. Len(ring) /\ Consumed(0) /\ ring' \in Seq(Events) /\ <<>> \in Seq(Events)
  BY DEF HeapType, Consumed
<1>2. LiveAddrs(NoAllocations) = {}
  BY Zenon DEF LiveAddrs, NoAllocations
<1>3. \A p \in Pids : live'[p] = IF p \in ps THEN NoAllocations ELSE live[p]
  BY Zenon
<1>4. \A p \in ps : LiveAddrs(live[p]) \subseteq forgotten'[p]
  BY Zenon DEF Forget
<1>5. \A p \in Pids, a \in Addrs :
        /\ a \in LiveAddrs(live'[p]) => ShownAfter(0, p, a)
        /\ ShownAfter(0, p, a) => a \in LiveAddrs(live'[p]) \/ a \in forgotten'[p]
  BY <1>2, <1>3, <1>4, AfterNone, Zenon
<1>6. \A p \in ps : LiveAddrs(live'[p]) = {}
  BY <1>2, <1>3, Zenon
<1>7. /\ forgotten' \in [Pids -> SUBSET Addrs]
      /\ \A p \in Pids : forgotten[p] \subseteq forgotten'[p]
      /\ unreported' = [p \in Pids |->
           IF p \in ps THEN unreported[p] \cap (Reported(ring', "sample", p) \cup BeingAdded(p))
                       ELSE unreported[p]]
  BY <1>1, ForgetTyped, Zenon
<1>. QED  BY <1>1, <1>5, <1>6, <1>7, WorkerReads, Zenon

\* A sample is registered, unless its stack is empty or its process is forgotten.
LEMMA ReadSampleEffect ==
  ASSUME HeapType, PidInv, LiveInv, ReadSample
  PROVE  WorkerEffect
<1>. DEFINE e == Head(ring)
            r == RegisterAllocation(live[e.pid], e.sample.stack, e.addr, e.sample.value)
            heaps == IF e.addr = Null THEN live ELSE [live EXCEPT ![e.pid] = r]
<1>1. PICK inconsistent \in BOOLEAN :
        /\ ddprof_pr_sample(e.pid, e.addr, e.sample.stack, e.sample.value, inconsistent)
        /\ Forget(IF inconsistent THEN {e.pid} ELSE {}, <<e>>)
        /\ UNCHANGED <<proc, started, in_use, tracker, hook>>
  BY Zenon DEF ReadSample, Worker
<1>2. ring # <<>> /\ e.type = "sample" /\ ring' = Tail(ring) /\ UNCHANGED announced
  BY Zenon DEF ReadSample
<1>3. /\ e \in Events /\ e = ring[1] /\ ring' \in Seq(Events)
      /\ 1 \in 0 .. Len(ring) /\ Consumed(1)
  BY <1>2, FirstEvent, Zenon
<1>4. /\ e.pid \in Pids /\ e.addr \in Addrs \cup {Null}
      /\ e.sample.stack \in Stacks \cup {NoStack} /\ e.sample.value \in Values
  BY <1>2, <1>3, EventFields, Zenon
<1>5. live \in [Pids -> PidStacks] /\ HeapOK(live[e.pid])
  BY <1>4, Zenon DEF LiveInv, LiveTypeOK
<1>6. e.addr # Null =>
        LiveAddrs(r) = LiveAddrs(live[e.pid]) \cup IF e.sample.stack = NoStack THEN {} ELSE {e.addr}
  BY <1>4, <1>5, RegisteredAddrs
<1>. DEFINE ps == IF inconsistent THEN {e.pid} ELSE {}
<1>7. live' = [p \in Pids |-> IF p \in ps THEN NoAllocations ELSE heaps[p]]
  BY <1>1, Zenon DEF ddprof_pr_sample, worker_pid_free
<1>8. Reported(<<e>>, "sample", e.pid) = {e.addr}
      /\ Frameless(<<e>>, e.pid) = IF e.sample.stack = NoStack THEN {e.addr} ELSE {}
  BY <1>2, OneEvent, Zenon
<1>9. \A p \in Pids : forgotten'[p] = forgotten[p] \cup
        IF p \in ps THEN LiveAddrs(live[p]) \cup (Reported(<<e>>, "sample", p) \ {Null})
        ELSE Frameless(<<e>>, p) \ (LiveAddrs(live[p]) \cup {Null})
  BY <1>1, Zenon DEF Forget
<1>10. ps \in SUBSET Pids /\ <<e>> \in Seq(Events)
  BY <1>3, <1>4
<1>11. \A p \in Pids, a \in Addrs : ShownAfter(1, p, a) <=>
         a \in LiveAddrs(live[p]) \/ (p = e.pid /\ a = e.addr)
  BY <1>2, <1>3, AfterOne, Zenon DEF Is
<1>12. LiveAddrs(NoAllocations) = {}
  BY Zenon DEF LiveAddrs, NoAllocations
<1>13. announced' \subseteq Pids
  BY <1>2, Zenon DEF HeapType
<1>. HIDE DEF r, e
<1>14. \A p \in Pids : live'[p] = IF p \in ps THEN NoAllocations
                                  ELSE IF p = e.pid /\ e.addr # Null THEN r ELSE live[p]
  BY <1>4, <1>5, <1>7, Zenon
<1>. HIDE DEF heaps
<1>15. \A p \in Pids, a \in Addrs :
        /\ a \in LiveAddrs(live'[p]) => ShownAfter(1, p, a)
        /\ ShownAfter(1, p, a) => a \in LiveAddrs(live'[p]) \/ a \in forgotten'[p]
  <2>. TAKE p \in Pids, a \in Addrs
  <2>. a # Null
    BY ProcessesAssumption, Zenon
  <2>1. CASE p \in ps
    <3>1. p = e.pid /\ LiveAddrs(live'[p]) = {}
      BY <1>12, <1>14, <2>1, Zenon
    <3>. QED  BY <1>8, <1>9, <1>11, <2>1, <3>1, Zenon
  <2>2. CASE p \notin ps /\ p = e.pid /\ e.addr # Null
    <3>1. LiveAddrs(live'[p])
            = LiveAddrs(live[p]) \cup IF e.sample.stack = NoStack THEN {} ELSE {e.addr}
      BY <1>6, <1>14, <2>2, Zenon
    <3>2. forgotten'[p] = forgotten[p] \cup
            ((IF e.sample.stack = NoStack THEN {e.addr} ELSE {}) \ (LiveAddrs(live[p]) \cup {Null}))
      BY <1>8, <1>9, <2>2, Zenon
    <3>. QED  BY <1>11, <2>2, <3>1, <3>2, Zenon
  <2>3. CASE p \notin ps /\ ~ (p = e.pid /\ e.addr # Null)
    <3>1. live'[p] = live[p]
      BY <1>14, <2>3, Zenon
    <3>. QED  BY <1>11, <2>3, <3>1, Zenon
  <2>. QED  BY <2>1, <2>2, <2>3, Zenon
<1>16. \A p \in ps : LiveAddrs(live'[p]) = {}
  BY <1>10, <1>12, <1>14, Zenon
<1>17. Forget(ps, <<e>>)
  BY <1>1, Zenon
<1>. HIDE DEF ps
<1>18. /\ forgotten' \in [Pids -> SUBSET Addrs]
       /\ \A p \in Pids : forgotten[p] \subseteq forgotten'[p]
       /\ unreported' = [p \in Pids |->
            IF p \in ps THEN unreported[p] \cap (Reported(ring', "sample", p) \cup BeingAdded(p))
                        ELSE unreported[p]]
  BY <1>10, <1>17, ForgetTyped, Zenon
<1>. QED  BY <1>1, <1>3, <1>10, <1>13, <1>15, <1>16, <1>18, WorkerReads, Zenon

\* A deallocation takes its address off the record.
LEMMA ReadDeallocationEffect ==
  ASSUME HeapType, PidInv, LiveInv, ReadDeallocation
  PROVE  WorkerEffect
<1>. DEFINE e == Head(ring)
            r == RegisterDeallocation(live[e.pid], e.addr)
            ps == {}
<1>1. /\ live' = [live EXCEPT ![e.pid] = r]
      /\ UNCHANGED <<proc, started, in_use, tracker, hook, announced, unreported, forgotten>>
  BY Zenon DEF ReadDeallocation, Worker, ddprof_pr_deallocation, history
<1>2. ring # <<>> /\ e.type = "deallocation" /\ ring' = Tail(ring)
  BY Zenon DEF ReadDeallocation
<1>3. /\ e \in Events /\ e = ring[1] /\ ring' \in Seq(Events)
      /\ 1 \in 0 .. Len(ring) /\ Consumed(1)
  BY <1>2, FirstEvent, Zenon
<1>4. e.pid \in Pids /\ e.addr \in Addrs
  BY <1>2, <1>3, EventFields, Zenon
<1>5. live \in [Pids -> PidStacks] /\ HeapOK(live[e.pid])
  BY <1>4, Zenon DEF LiveInv, LiveTypeOK
<1>6. LiveAddrs(r) = LiveAddrs(live[e.pid]) \ {e.addr}
  BY <1>4, <1>5, UnregisteredAddrs, Zenon
<1>7. \A p \in Pids, a \in Addrs : ShownAfter(1, p, a) <=>
        a \in LiveAddrs(live[p]) /\ ~ (p = e.pid /\ a = e.addr)
  BY <1>2, <1>3, AfterOne DEF Is
<1>. HIDE DEF r, e
<1>8. \A p \in Pids : live'[p] = IF p = e.pid THEN r ELSE live[p]
  BY <1>1, <1>4, <1>5, Zenon
<1>9. \A p \in Pids, a \in Addrs : a \in LiveAddrs(live'[p]) <=> ShownAfter(1, p, a)
  <2>. TAKE p \in Pids, a \in Addrs
  <2>1. CASE p = e.pid
    BY <1>6, <1>7, <1>8, <2>1, Zenon
  <2>2. CASE p # e.pid
    BY <1>7, <1>8, <2>2, Zenon
  <2>. QED  BY <2>1, <2>2, Zenon
<1>10. /\ announced' \subseteq Pids /\ forgotten' \in [Pids -> SUBSET Addrs]
       /\ unreported \in [Pids -> SUBSET Addrs]
  BY <1>1, Zenon DEF HeapType
<1>11. unreported' = [p \in Pids |->
         IF p \in ps THEN unreported[p] \cap (Reported(ring', "sample", p) \cup BeingAdded(p))
                     ELSE unreported[p]]
  BY <1>1, <1>10, Zenon
<1>12. ps \in SUBSET Pids /\ (\A p \in ps : LiveAddrs(live'[p]) = {})
       /\ \A p \in Pids : forgotten[p] \subseteq forgotten'[p]
  BY <1>1, Zenon
<1>13. \A p \in Pids, a \in Addrs :
         /\ a \in LiveAddrs(live'[p]) => ShownAfter(1, p, a)
         /\ ShownAfter(1, p, a) => a \in LiveAddrs(live'[p]) \/ a \in forgotten'[p]
  BY <1>9, Zenon
<1>. HIDE DEF ps
<1>. QED  BY <1>1, <1>3, <1>10, <1>11, <1>12, <1>13, WorkerReads, Zenon

\* A restart loses the record, and the events that the old worker had read.
LEMMA RestartEffect ==
  ASSUME HeapType, PidInv, LiveInv, Restart
  PROVE  WorkerEffect
<1>1. PICK n \in 0 .. Len(ring) :
        /\ ring' = SubSeq(ring, n + 1, Len(ring))
        /\ live' = [p \in Pids |-> NoAllocations]
        /\ Forget(Pids, SubSeq(ring, 1, n))
        /\ UNCHANGED <<proc, started, in_use, tracker, hook, announced>>
  BY Zenon DEF Restart, Worker, WorkerRestart
<1>2. ring \in Seq(Events) /\ announced' \subseteq Pids /\ Len(ring) \in Nat /\ n \in Nat
  BY <1>1 DEF HeapType
<1>. DEFINE s == SubSeq(ring, 1, n)
<1>3. /\ s \in Seq(Events) /\ Len(s) = n /\ \A i \in 1 .. n : s[i] = ring[i]
  BY <1>2
<1>4. ring' \in Seq(Events) /\ Consumed(n)
  BY <1>1, <1>2 DEF Consumed
<1>5. LiveAddrs(NoAllocations) = {}
  BY Zenon DEF LiveAddrs, NoAllocations
<1>6. \A p \in Pids : LiveAddrs(live'[p]) = {}
  BY <1>1, <1>5, Zenon
<1>7. \A p \in Pids : forgotten'[p]
        = forgotten[p] \cup LiveAddrs(live[p]) \cup (Reported(s, "sample", p) \ {Null})
  BY <1>1, Zenon DEF Forget
<1>8. ASSUME NEW p \in Pids, NEW a \in Addrs, ShownAfter(n, p, a)
      PROVE  a \in forgotten'[p]
  <2>1. CASE a \in LiveAddrs(live[p])
    BY <1>7, <2>1, Zenon
  <2>2. CASE \E i \in 1 .. n : Is(ring[i], "sample", p, a)
    <3>1. a \in Reported(s, "sample", p)
      BY <1>3, <2>2, Zenon DEF Reported, Is
    <3>2. a # Null
      BY ProcessesAssumption, Zenon
    <3>. QED  BY <1>7, <3>1, <3>2, Zenon
  <2>. QED  BY <1>8, <2>1, <2>2, Zenon DEF ShownAfter
<1>9. \A p \in Pids, a \in Addrs :
        /\ a \in LiveAddrs(live'[p]) => ShownAfter(n, p, a)
        /\ ShownAfter(n, p, a) => a \in LiveAddrs(live'[p]) \/ a \in forgotten'[p]
  BY <1>6, <1>8, Zenon
<1>. HIDE DEF s
<1>10. /\ forgotten' \in [Pids -> SUBSET Addrs]
       /\ \A p \in Pids : forgotten[p] \subseteq forgotten'[p]
       /\ unreported' = [p \in Pids |->
            IF p \in Pids THEN unreported[p] \cap (Reported(ring', "sample", p) \cup BeingAdded(p))
                          ELSE unreported[p]]
  <2>1. Forget(Pids, s) /\ Pids \in SUBSET Pids
    BY <1>1, Zenon DEF s
  <2>. QED  BY <1>3, <2>1, ForgetTyped, Zenon
<1>11. Pids \in SUBSET Pids
  BY Zenon
<1>. QED  BY <1>1, <1>2, <1>4, <1>6, <1>9, <1>10, <1>11, WorkerReads, Zenon

\* The other steps read nothing from the ring.
LEMMA OtherWorkerEffect ==
  ASSUME HeapType, PidInv, LiveInv,
         \/ Cycle
         \/ \E p \in Pids : OtherSample(p) \/ NewMapping(p) \/ ForkRecord(p)
  PROVE  WorkerEffect
<1>1. live = [p \in Pids |-> live[p]] /\ process_map \subseteq Pids /\ announced \subseteq Pids
  BY Zenon DEF LiveInv, LiveTypeOK, HeapType
<1>2. CASE Cycle
  <2>1. /\ live' = [p \in Pids |-> IF p \in process_map \ visited THEN NoAllocations ELSE live[p]]
        /\ Forget(process_map \ visited, <<>>)
        /\ UNCHANGED <<proc, started, in_use, tracker, hook, ring, announced>>
    BY <1>2, Zenon DEF Cycle, Worker, clear_unvisited_pids, worker_pid_free
  <2>2. process_map \ visited \in SUBSET Pids
    BY <1>1, Zenon
  <2>. QED  BY <1>1, <2>1, <2>2, WorkerForgets, Zenon
<1>3. ASSUME NEW p \in Pids, OtherSample(p)  PROVE WorkerEffect
  <2>1. PICK inconsistent \in BOOLEAN, s \in Samples :
          /\ ddprof_pr_sample(p, Null, s.stack, s.value, inconsistent)
          /\ Forget(IF inconsistent THEN {p} ELSE {}, <<>>)
          /\ UNCHANGED <<proc, started, in_use, tracker, hook, ring, announced>>
    BY <1>3, Zenon DEF OtherSample, Worker
  <2>. DEFINE ps == IF inconsistent THEN {p} ELSE {}
  <2>2. live' = [q \in Pids |-> IF q \in ps THEN NoAllocations ELSE live[q]]
    BY <2>1, Zenon DEF ddprof_pr_sample, worker_pid_free
  <2>3. ps \in SUBSET Pids /\ Forget(ps, <<>>)
    BY <2>1, Zenon
  <2>. HIDE DEF ps
  <2>. QED  BY <1>1, <2>1, <2>2, <2>3, WorkerForgets, Zenon
<1>4. ASSUME NEW p \in Pids, NewMapping(p)  PROVE WorkerEffect
  <2>1. UNCHANGED <<proc, started, in_use, tracker, hook, ring, announced, live, forgotten,
                    unreported>>
    BY <1>4, Zenon DEF NewMapping, Worker, ddprof_pr_mmap, history
  <2>2. \A q \in Pids, a \in Addrs : Shown(q, a)' <=> Shown(q, a)
    BY <2>1, ShownKept, Zenon
  <2>3. /\ ring' \in Seq(Events) /\ announced' \subseteq Pids
        /\ unreported' \in [Pids -> SUBSET Addrs] /\ forgotten' \in [Pids -> SUBSET Addrs]
    BY <2>1, Zenon DEF HeapType
  <2>4. /\ \A i \in 1 .. Len(ring') : ring'[i].pid \in Own
        /\ \A q \in Pids : LiveAddrs(live'[q]) # {} => q \in Own
    BY <2>1, Zenon DEF PidInv
  <2>. QED  BY <2>1, <2>2, <2>3, <2>4, Zenon DEF WorkerEffect
<1>5. ASSUME NEW p \in Pids, ForkRecord(p)  PROVE WorkerEffect
  <2>1. /\ live' = [q \in Pids |-> IF q \in {p} THEN NoAllocations ELSE live[q]]
        /\ Forget({p}, <<>>) /\ announced' = announced \ {p}
        /\ UNCHANGED <<proc, started, in_use, tracker, hook, ring>>
    BY <1>5, Zenon DEF ForkRecord, Worker, ddprof_pr_fork, worker_pid_free
  <2>. QED  BY <1>1, <2>1, WorkerForgets, Zenon
<1>. QED  BY <1>2, <1>3, <1>4, <1>5, Zenon
-----------------------------------------------------------------------------
(* The inductive invariant, and the steps of the worker *)

\* The inductive invariant.
HeapInv == HeapType /\ HookInv /\ PidInv /\ PhantomInv /\ MissingInv

\* A step of the worker keeps it: the effect of the step is one that hides nothing
\* without counting it as forgotten, and shows nothing new.
LEMMA WorkerKeeps ==
  ASSUME HeapInv, WorkerEffect
  PROVE  HeapInv'
<1>1. /\ proc' = proc /\ started' = started /\ in_use' = in_use /\ tracked' = tracked
      /\ track_deallocations' = track_deallocations /\ pid' = pid
      /\ pc' = pc /\ op' = op /\ ptr' = ptr /\ addr' = addr /\ res' = res
  BY Zenon DEF WorkerEffect, tracker, hook
<1>2. HeapType'
  BY <1>1, Zenon DEF HeapInv, HeapType, WorkerEffect
<1>3. HookInv'
  BY <1>1, Zenon DEF HeapInv, HookInv, Holds
<1>4. Own' = Own
  BY <1>1, Zenon DEF Own
<1>5. PidInv'
  BY <1>1, <1>4, Zenon DEF HeapInv, PidInv, WorkerEffect
<1>6. /\ \A p : BeingRemoved(p)' = BeingRemoved(p)
      /\ \A p : BeingAdded(p)' = BeingAdded(p)
      /\ \A t, p, a : Adding(t, p, a)' <=> Adding(t, p, a)
  BY <1>1, Zenon DEF BeingRemoved, BeingAdded, Adding
<1>7. \A t \in Threads : \A p, a : Adding(t, p, a) => a \in BeingAdded(p)
  BY Zenon DEF Adding, BeingAdded
<1>8. PhantomInv'
  BY <1>1, <1>6, <1>7, Zenon DEF HeapInv, PhantomInv, WorkerEffect
<1>9. MissingInv'
  <2>1. \A p \in Pids : tracked[p] \subseteq Addrs
    BY Zenon DEF HeapInv, HeapType
  <2>. QED  BY <1>1, <1>6, <2>1, Zenon DEF HeapInv, MissingInv, WorkerEffect
<1>. QED  BY <1>2, <1>3, <1>5, <1>8, <1>9, Zenon DEF HeapInv
-----------------------------------------------------------------------------
(* The steps of the hooks: who has which block *)

\* The types of what a turn of a thread changes.
HookTypes ==
  /\ pc \in [Threads -> {"idle", "add", "push_alloc", "pushed", "remove", "push_dealloc", "ref"}]
  /\ op \in [Threads -> {"none", "alloc", "free", "dallocx", "realloc"}]
  /\ ptr \in [Threads -> Addrs \cup {Null}] /\ addr \in [Threads -> Addrs \cup {Null}]
  /\ res \in [Threads -> {"ok", "warn", "error"}]

\* A step of thread t of p: it alone moves, and takes no block from another.
Turn(t, p) ==
  /\ p \in Pids /\ proc[t] = p /\ UNCHANGED <<proc, started>> /\ HookTypes'
  /\ in_use' \in [Pids -> SUBSET Addrs]
  /\ \A u \in Threads \ {t} :
       /\ pc'[u] = pc[u] /\ op'[u] = op[u] /\ ptr'[u] = ptr[u] /\ addr'[u] = addr[u]
       /\ res'[u] = res[u]
  /\ \A q \in Pids \ {p} : in_use'[q] = in_use[q]
  /\ \A u \in Threads \ {t} : proc[u] = p /\ Holds(u) => ptr[u] \in in_use'[p]
  /\ pc'[t] \in {"add", "push_alloc"} => op'[t] = "alloc"
  /\ pc'[t] \in {"remove", "push_dealloc", "ref"} => op'[t] # "alloc"
  /\ pc'[t] # "idle" /\ op'[t] # "alloc" =>
       op'[t] \in {"free", "dallocx", "realloc"} /\ ptr'[t] # Null
  /\ pc'[t] = "idle" => op'[t] = "none"
  /\ addr'[t] \in IF op'[t] = "alloc" THEN {ptr'[t], Null} ELSE {Null}
  /\ Holds(t)' =>
       /\ ptr'[t] \in in_use'[p]
       /\ \A u \in Threads \ {t} : proc[u] = p /\ Holds(u) => ptr[u] # ptr'[t]

\* A turn leaves every block with at most one thread.
LEMMA TurnKeeps ==
  ASSUME HeapType, HookInv, NEW t \in Threads, NEW p, Turn(t, p)
  PROVE  HookInv'
<1>1. \A u \in Threads \ {t} : Holds(u)' <=> Holds(u)
  BY Zenon DEF Turn, Holds
<1>2. None \notin Pids
  BY TrackerAssumption, Zenon
<1>3. ASSUME NEW u \in Threads
      PROVE  /\ proc'[u] = None => pc'[u] = "idle"
             /\ proc'[u] # None => proc'[u] \in started'
             /\ pc'[u] \in {"add", "push_alloc"} => op'[u] = "alloc"
             /\ pc'[u] \in {"remove", "push_dealloc", "ref"} => op'[u] # "alloc"
             /\ pc'[u] # "idle" /\ op'[u] # "alloc" =>
                  op'[u] \in {"free", "dallocx", "realloc"} /\ ptr'[u] # Null
             /\ pc'[u] = "idle" => op'[u] = "none"
             /\ addr'[u] \in IF op'[u] = "alloc" THEN {ptr'[u], Null} ELSE {Null}
             /\ Holds(u)' => ptr'[u] \in in_use'[proc'[u]]
  <2>1. CASE u = t
    BY <1>2, <2>1, Zenon DEF Turn, HookInv
  <2>2. CASE u # t
    <3>1. /\ proc[u] = None => pc[u] = "idle"
          /\ proc[u] # None => proc[u] \in started
          /\ pc[u] \in {"add", "push_alloc"} => op[u] = "alloc"
          /\ pc[u] \in {"remove", "push_dealloc", "ref"} => op[u] # "alloc"
          /\ pc[u] # "idle" /\ op[u] # "alloc" =>
               op[u] \in {"free", "dallocx", "realloc"} /\ ptr[u] # Null
          /\ pc[u] = "idle" => op[u] = "none"
          /\ addr[u] \in IF op[u] = "alloc" THEN {ptr[u], Null} ELSE {Null}
          /\ Holds(u) => ptr[u] \in in_use[proc[u]]
      BY Zenon DEF HookInv
    <3>2. /\ pc'[u] = pc[u] /\ op'[u] = op[u] /\ ptr'[u] = ptr[u] /\ addr'[u] = addr[u]
          /\ proc' = proc /\ started' = started
      BY <2>2, Zenon DEF Turn
    <3>3. ASSUME Holds(u)  PROVE ptr[u] \in in_use'[proc[u]]
      <4>1. proc[u] \in Pids
        BY <3>1, <3>3, Zenon DEF Holds, HeapType
      <4>. QED  BY <2>2, <3>1, <3>3, <4>1, Zenon DEF Turn
    <3>. QED  BY <1>1, <2>2, <3>1, <3>2, <3>3, Zenon
  <2>. QED  BY <2>1, <2>2, Zenon
<1>4. ASSUME NEW u \in Threads, NEW v \in Threads, proc'[u] = proc'[v], Holds(u)', Holds(v)',
             ptr'[u] = ptr'[v]
      PROVE  u = v
  <2>1. CASE u # t /\ v # t
    BY <1>1, <1>4, <2>1, Zenon DEF Turn, HookInv
  <2>2. CASE u = t \/ v = t
    BY <1>1, <1>4, <2>2 DEF Turn
  <2>. QED  BY <2>1, <2>2, Zenon
<1>. QED  BY <1>3, <1>4, Zenon DEF HookInv

\* A thread that leaves its hook.
LEMMA Returned ==
  ASSUME HeapType, NEW t \in Threads, Return({t})
  PROVE  /\ HookTypes' /\ pc'[t] = "idle" /\ op'[t] = "none" /\ ptr'[t] = Null /\ addr'[t] = Null
         /\ \A u \in Threads \ {t} :
              /\ pc'[u] = pc[u] /\ op'[u] = op[u] /\ ptr'[u] = ptr[u] /\ addr'[u] = addr[u]
              /\ res'[u] = res[u]
BY Zenon DEF Return, HeapType, HookTypes

\* Where a step of thread t can lead to: out of its hook, or on.
LEMMA Tracked ==
  ASSUME HeapType, NEW t \in Threads, NEW p, NEW a \in Addrs \cup {Null},
         track_allocation_s(t, p, a)
  PROVE  /\ HookTypes'
         /\ \A u \in Threads \ {t} :
              /\ pc'[u] = pc[u] /\ op'[u] = op[u] /\ ptr'[u] = ptr[u] /\ addr'[u] = addr[u]
              /\ res'[u] = res[u]
         /\ \/ pc'[t] = "idle" /\ op'[t] = "none" /\ ptr'[t] = Null /\ addr'[t] = Null
            \/ pc'[t] = "add" /\ op'[t] = "alloc" /\ ptr'[t] = a /\ addr' = addr
<1>1. CASE Return({t})
  BY <1>1, Returned, Zenon
<1>2. CASE /\ Goto(t, "add") /\ op' = [op EXCEPT ![t] = "alloc"] /\ ptr' = [ptr EXCEPT ![t] = a]
           /\ UNCHANGED <<addr, res>>
  BY <1>2, Zenon DEF Goto, HeapType, HookTypes
<1>. QED  BY <1>1, <1>2, Zenon DEF track_allocation_s

\* Every step within a process is a turn of one of its threads.
LEMMA Turns ==
  ASSUME HeapType, HookInv, NEW t \in Threads,
         \/ AllocHook(t) \/ Add(t) \/ push_alloc_sample(t) \/ Pushed(t) \/ FreeHook(t) \/ Remove(t)
         \/ push_dealloc_sample(t) \/ Ref(t) \/ allocation_tracking_free(t) \/ notify_fork(t)
  PROVE  Turn(t, proc[t])
<1>. DEFINE p == proc[t]
<1>1. p \in Pids
  <2>1. pc[t] # "idle" \/ p # None
    BY Zenon
       DEF AllocHook, Add, push_alloc_sample, Pushed, FreeHook, Remove, push_dealloc_sample, Ref,
           allocation_tracking_free, notify_fork, Call
  <2>. QED  BY <2>1, Zenon DEF HookInv, HeapType
<1>2. HookTypes /\ in_use \in [Pids -> SUBSET Addrs]
  BY Zenon DEF HeapType, HookTypes
<1>3. /\ pc[t] \in {"add", "push_alloc"} => op[t] = "alloc"
      /\ pc[t] \in {"remove", "push_dealloc", "ref"} => op[t] # "alloc"
      /\ pc[t] # "idle" /\ op[t] # "alloc" =>
           op[t] \in {"free", "dallocx", "realloc"} /\ ptr[t] # Null
      /\ pc[t] = "idle" => op[t] = "none"
      /\ addr[t] \in IF op[t] = "alloc" THEN {ptr[t], Null} ELSE {Null}
      /\ Holds(t) => ptr[t] \in in_use[p]
  BY Zenon DEF HookInv
<1>4. /\ \A u \in Threads : proc[u] = p /\ Holds(u) => ptr[u] \in in_use[p]
      /\ Holds(t) => \A u \in Threads \ {t} : proc[u] = p /\ Holds(u) => ptr[u] # ptr[t]
  BY Zenon DEF HookInv
<1>5. \A u \in Threads : proc[u] = p /\ Holds(u) => ptr[u] \in Held(p)
  BY Zenon DEF Held, Holds
<1>6. CASE AllocHook(t)
  <2>1. PICK a \in (Addrs \ in_use[p]) \cup {Null} :
          /\ in_use' = [in_use EXCEPT ![p] = @ \cup ({a} \ {Null})]
          /\ track_allocation_s(t, p, a)
    BY <1>6, Zenon DEF AllocHook
  <2>2. UNCHANGED <<proc, started>> /\ pc[t] = "idle"
    BY <1>6, Zenon DEF AllocHook, Call
  <2>3. a \in Addrs \cup {Null}
    BY Zenon
  <2>4. /\ HookTypes'
        /\ \A u \in Threads \ {t} :
             /\ pc'[u] = pc[u] /\ op'[u] = op[u] /\ ptr'[u] = ptr[u] /\ addr'[u] = addr[u]
             /\ res'[u] = res[u]
        /\ \/ pc'[t] = "idle" /\ op'[t] = "none" /\ ptr'[t] = Null /\ addr'[t] = Null
           \/ pc'[t] = "add" /\ op'[t] = "alloc" /\ ptr'[t] = a /\ addr' = addr
    BY <2>1, <2>3, Tracked, Zenon
  <2>5. /\ in_use' \in [Pids -> SUBSET Addrs] /\ in_use'[p] = in_use[p] \cup ({a} \ {Null})
        /\ \A q \in Pids \ {p} : in_use'[q] = in_use[q]
    BY <1>1, <1>2, <2>1, Zenon
  <2>6. Holds(t)' => ptr'[t] = a /\ a # Null
    BY <2>4, Zenon DEF Holds
  <2>7. Holds(t)' => /\ ptr'[t] \in in_use'[p]
                     /\ \A u \in Threads \ {t} : proc[u] = p /\ Holds(u) => ptr[u] # ptr'[t]
    BY <1>4, <2>5, <2>6, Zenon
  <2>. QED  BY <1>1, <1>3, <1>4, <2>2, <2>4, <2>5, <2>7, Zenon DEF Turn
<1>7. CASE \/ Add(t) \/ push_alloc_sample(t) \/ Remove(t) \/ push_dealloc_sample(t)
           \/ allocation_tracking_free(t) \/ notify_fork(t)
  <2>1. UNCHANGED <<proc, started, in_use, op, ptr>>
    BY <1>7, Zenon
       DEF Add, push_alloc_sample, Remove, push_dealloc_sample, allocation_tracking_free,
                notify_fork, hook
  <2>2. /\ HookTypes' /\ \A u \in Threads \ {t} :
             pc'[u] = pc[u] /\ addr'[u] = addr[u] /\ res'[u] = res[u]
        /\ pc'[t] = "idle" <=> pc[t] = "idle"
        /\ pc'[t] \in {"add", "push_alloc"} => pc[t] \in {"add", "push_alloc"}
        /\ pc'[t] \in {"remove", "push_dealloc", "ref"} => pc[t] \in {"remove", "push_dealloc", "ref"}
        /\ addr'[t] \in IF op[t] = "alloc" THEN {ptr[t], Null} ELSE {Null}
    <3>1. CASE Add(t)
      BY <1>2, <1>3, <3>1, Zenon DEF Add, Goto, HookTypes
    <3>2. CASE push_alloc_sample(t)
      BY <1>2, <1>3, <3>2, Zenon DEF push_alloc_sample, Push, Goto, HookTypes
    <3>3. CASE Remove(t)
      BY <1>2, <1>3, <3>3, Zenon DEF Remove, Goto, HookTypes
    <3>4. CASE push_dealloc_sample(t)
      BY <1>2, <1>3, <3>4, Zenon DEF push_dealloc_sample, Push, Goto, HookTypes
    <3>5. CASE allocation_tracking_free(t) \/ notify_fork(t)
      BY <1>2, <1>3, <3>5, Zenon DEF allocation_tracking_free, notify_fork, hook, HookTypes
    <3>. QED  BY <1>7, <3>1, <3>2, <3>3, <3>4, <3>5, Zenon
  <2>3. Holds(t)' => Holds(t)
    BY <2>1, <2>2, Zenon DEF Holds
  <2>. QED  BY <1>1, <1>2, <1>3, <1>4, <2>1, <2>2, <2>3, Zenon DEF Turn
<1>8. CASE Pushed(t)
  <2>1. UNCHANGED <<proc, started, in_use>> /\ pc[t] = "pushed"
    BY <1>8, Zenon DEF Pushed
  <2>2. \/ op[t] = "alloc" /\ Return({t})
        \/ op[t] # "alloc" /\ Goto(t, "ref") /\ UNCHANGED <<op, ptr, addr, res>>
    BY <1>8, Zenon DEF Pushed
  <2>3. CASE Return({t})
    <3>1. /\ HookTypes' /\ pc'[t] = "idle" /\ op'[t] = "none" /\ ptr'[t] = Null /\ addr'[t] = Null
          /\ \A u \in Threads \ {t} :
               /\ pc'[u] = pc[u] /\ op'[u] = op[u] /\ ptr'[u] = ptr[u] /\ addr'[u] = addr[u]
               /\ res'[u] = res[u]
      BY <2>3, Returned, Zenon
    <3>2. ~ Holds(t)'
      BY <3>1, Zenon DEF Holds
    <3>. QED  BY <1>1, <1>2, <1>4, <2>1, <3>1, <3>2, Zenon DEF Turn
  <2>4. CASE op[t] # "alloc" /\ Goto(t, "ref") /\ UNCHANGED <<op, ptr, addr, res>>
    <3>1. /\ HookTypes' /\ pc'[t] = "ref" /\ \A u \in Threads \ {t} : pc'[u] = pc[u]
      BY <1>2, <2>4, Zenon DEF Goto, HookTypes
    <3>2. Holds(t)' => Holds(t)
      BY <2>1, <2>4, Zenon DEF Holds
    <3>. QED  BY <1>1, <1>2, <1>3, <1>4, <2>1, <2>4, <3>1, <3>2, Zenon DEF Turn
  <2>. QED  BY <2>2, <2>3, <2>4, Zenon
<1>9. CASE FreeHook(t)
  <2>1. PICK a \in in_use[p] \ Held(p), o \in {"free", "dallocx", "realloc"} :
          /\ in_use' = [in_use EXCEPT ![p] = IF o = "dallocx" THEN @ \ {a} ELSE @]
          /\ op' = [op EXCEPT ![t] = o] /\ ptr' = [ptr EXCEPT ![t] = a]
    BY <1>9, Zenon DEF FreeHook
  <2>2. /\ UNCHANGED <<proc, started, addr, res>> /\ pc[t] = "idle"
        /\ \E l \in {"remove", "ref"} : pc' = [pc EXCEPT ![t] = l]
    BY <1>9, Zenon DEF FreeHook, Call, Goto
  <2>3. a \in Addrs /\ a # Null
    BY <1>1, <1>2, ProcessesAssumption, Zenon
  <2>4. /\ HookTypes' /\ pc'[t] \in {"remove", "ref"} /\ op'[t] = o /\ ptr'[t] = a
        /\ \A u \in Threads \ {t} : pc'[u] = pc[u] /\ op'[u] = op[u] /\ ptr'[u] = ptr[u]
    BY <1>2, <2>1, <2>2, <2>3, Zenon DEF HookTypes
  <2>5. /\ in_use' \in [Pids -> SUBSET Addrs]
        /\ in_use'[p] = IF o = "dallocx" THEN in_use[p] \ {a} ELSE in_use[p]
        /\ \A q \in Pids \ {p} : in_use'[q] = in_use[q]
    BY <1>1, <1>2, <2>1, Zenon
  <2>6. \A u \in Threads : proc[u] = p /\ Holds(u) => ptr[u] # a /\ ptr[u] \in in_use'[p]
    <3>1. a \notin Held(p)
      BY <2>1, Zenon
    <3>2. \A u \in Threads : proc[u] = p /\ Holds(u) => ptr[u] # a
      BY <1>5, <3>1, Zenon
    <3>. QED  BY <1>4, <2>5, <3>2, Zenon
  <2>7. Holds(t)' => o # "dallocx" /\ ptr'[t] = a /\ a \in in_use'[p]
    BY <2>1, <2>4, <2>5, Zenon DEF Holds
  <2>8. o \in {"free", "dallocx", "realloc"} /\ o # "alloc" /\ addr[t] = Null
    BY <1>3, <2>2, Zenon
  <2>. QED  BY <1>1, <2>2, <2>3, <2>4, <2>5, <2>6, <2>7, <2>8, Zenon DEF Turn
<1>10. CASE Ref(t)
  <2>1. UNCHANGED <<proc, started>> /\ pc[t] = "ref" /\ addr[t] = Null /\ ptr[t] # Null
    BY <1>3, <1>10, Zenon DEF Ref
  <2>2. op[t] # "dallocx" => Holds(t)
    BY <2>1, Zenon DEF Holds
  <2>3. CASE Return({t}) /\ in_use' = [in_use EXCEPT ![p] =
                               IF op[t] \in {"free", "realloc"} THEN @ \ {ptr[t]} ELSE @]
    <3>1. /\ HookTypes' /\ pc'[t] = "idle" /\ op'[t] = "none" /\ ptr'[t] = Null /\ addr'[t] = Null
          /\ \A u \in Threads \ {t} :
               /\ pc'[u] = pc[u] /\ op'[u] = op[u] /\ ptr'[u] = ptr[u] /\ addr'[u] = addr[u]
               /\ res'[u] = res[u]
      BY <2>3, Returned, Zenon
    <3>2. ~ Holds(t)'
      BY <3>1 DEF Holds
    <3>3. /\ in_use' \in [Pids -> SUBSET Addrs]
          /\ in_use'[p] = IF op[t] \in {"free", "realloc"} THEN in_use[p] \ {ptr[t]} ELSE in_use[p]
          /\ \A q \in Pids \ {p} : in_use'[q] = in_use[q]
      BY <1>1, <1>2, <2>3, Zenon
    <3>4. \A u \in Threads \ {t} : proc[u] = p /\ Holds(u) => ptr[u] \in in_use'[p]
      BY <1>4, <2>2, <3>3, Zenon
    <3>. QED  BY <1>1, <2>1, <3>1, <3>2, <3>3, <3>4, Zenon DEF Turn
  <2>4. CASE /\ op[t] = "realloc"
             /\ \E a \in (Addrs \ in_use[p]) \cup {ptr[t]} :
                  /\ in_use' = [in_use EXCEPT ![p] = (@ \ {ptr[t]}) \cup {a}]
                  /\ track_allocation_s(t, p, a)
    <3>1. PICK a \in (Addrs \ in_use[p]) \cup {ptr[t]} :
            /\ in_use' = [in_use EXCEPT ![p] = (@ \ {ptr[t]}) \cup {a}]
            /\ track_allocation_s(t, p, a)
      BY <2>4, Zenon
    <3>2. a \in Addrs /\ ptr[t] \in in_use[p]
      BY <1>2, <1>3, <2>1, <2>2, <2>4, Zenon DEF HookTypes
    <3>3. /\ HookTypes'
          /\ \A u \in Threads \ {t} :
               /\ pc'[u] = pc[u] /\ op'[u] = op[u] /\ ptr'[u] = ptr[u] /\ addr'[u] = addr[u]
               /\ res'[u] = res[u]
          /\ \/ pc'[t] = "idle" /\ op'[t] = "none" /\ ptr'[t] = Null /\ addr'[t] = Null
             \/ pc'[t] = "add" /\ op'[t] = "alloc" /\ ptr'[t] = a /\ addr' = addr
      BY <3>1, <3>2, Tracked, Zenon
    <3>4. /\ in_use' \in [Pids -> SUBSET Addrs] /\ in_use'[p] = (in_use[p] \ {ptr[t]}) \cup {a}
          /\ \A q \in Pids \ {p} : in_use'[q] = in_use[q]
      BY <1>1, <1>2, <3>1, <3>2, Zenon
    <3>5. \A u \in Threads \ {t} : proc[u] = p /\ Holds(u) =>
            ptr[u] \in in_use'[p] /\ ptr[u] # a
      BY <1>4, <2>2, <2>4, <3>1, <3>4, Zenon
    <3>6. Holds(t)' => ptr'[t] = a /\ a \in in_use'[p]
      BY <3>3, <3>4, Zenon DEF Holds
    <3>. QED  BY <1>1, <2>1, <3>3, <3>4, <3>5, <3>6, Zenon DEF Turn
  <2>5. CASE op[t] = "realloc" /\ track_allocation_s(t, p, Null) /\ UNCHANGED in_use
    <3>1. /\ HookTypes'
          /\ \A u \in Threads \ {t} :
               /\ pc'[u] = pc[u] /\ op'[u] = op[u] /\ ptr'[u] = ptr[u] /\ addr'[u] = addr[u]
               /\ res'[u] = res[u]
          /\ \/ pc'[t] = "idle" /\ op'[t] = "none" /\ ptr'[t] = Null /\ addr'[t] = Null
             \/ pc'[t] = "add" /\ op'[t] = "alloc" /\ ptr'[t] = Null /\ addr' = addr
      BY <2>5, Tracked, Zenon
    <3>2. ~ Holds(t)'
      BY <3>1, Zenon DEF Holds
    <3>. QED  BY <1>1, <1>2, <1>4, <2>1, <2>5, <3>1, <3>2, Zenon DEF Turn
  <2>6. \/ Return({t}) /\ in_use' = [in_use EXCEPT ![p] =
                               IF op[t] \in {"free", "realloc"} THEN @ \ {ptr[t]} ELSE @]
        \/ /\ op[t] = "realloc"
           /\ \E a \in (Addrs \ in_use[p]) \cup {ptr[t]} :
                /\ in_use' = [in_use EXCEPT ![p] = (@ \ {ptr[t]}) \cup {a}]
                /\ track_allocation_s(t, p, a)
        \/ op[t] = "realloc" /\ track_allocation_s(t, p, Null) /\ UNCHANGED in_use
    BY <1>10, Zenon DEF Ref
  <2>. QED  BY <2>3, <2>4, <2>5, <2>6, Zenon
<1>. QED  BY <1>6, <1>7, <1>8, <1>9, <1>10, Zenon

-----------------------------------------------------------------------------
(* The steps of the hooks: the two invariants, address by address *)

\* Thread t of p has taken a out of the set and not reported it.
Removing(t, p, a) == proc[t] = p /\ pc[t] = "push_dealloc" /\ ptr[t] = a

\* The two invariants for one address.
Phantom(p, a) ==
  track_deallocations[p] =>
    /\ Shown(p, a) => \/ a \in tracked[p] \/ a \in unreported[p]
                      \/ \E u \in Threads : Removing(u, p, a)
    /\ \A t \in Threads : Adding(t, p, a) =>
         /\ Shown(p, a) => a \in unreported[p] \/ \E u \in Threads : Removing(u, p, a)
         /\ pc[t] = "push_alloc" => a \in tracked[p] \/ a \in unreported[p]

Missing(p, a) ==
  track_deallocations[p] /\ a \in tracked[p] =>
    a \in forgotten[p] \/ (\E u \in Threads : Adding(u, p, a)) \/ Shown(p, a)

\* The addresses on their way, thread by thread.
LEMMA OnTheirWay ==
  ASSUME NEW p, NEW a
  PROVE  /\ a \in BeingRemoved(p) <=> \E u \in Threads : Removing(u, p, a)
         /\ a \in BeingAdded(p) <=> \E u \in Threads : Adding(u, p, a)
         /\ a \in BeingRemoved(p)' <=> \E u \in Threads : Removing(u, p, a)'
         /\ a \in BeingAdded(p)' <=> \E u \in Threads : Adding(u, p, a)'
<1>1. a \in BeingRemoved(p) <=> \E u \in Threads : Removing(u, p, a)
  BY Zenon DEF BeingRemoved, Removing
<1>2. a \in BeingAdded(p) <=> \E u \in Threads : Adding(u, p, a)
  BY Zenon DEF BeingAdded, Adding
<1>3. a \in BeingRemoved(p)' <=> \E u \in Threads : Removing(u, p, a)'
  BY Zenon DEF BeingRemoved, Removing
<1>4. a \in BeingAdded(p)' <=> \E u \in Threads : Adding(u, p, a)'
  BY Zenon DEF BeingAdded, Adding
<1>. QED  BY <1>1, <1>2, <1>3, <1>4, Zenon

\* Both invariants speak of one address at a time.
LEMMA EachAddress ==
  ASSUME PhantomInv, MissingInv
  PROVE  \A p \in Pids, a \in Addrs : Phantom(p, a) /\ Missing(p, a)
BY OnTheirWay, Zenon DEF PhantomInv, MissingInv, Phantom, Missing

\* They hold of all addresses if they hold of each one.
LEMMA AllAddresses ==
  ASSUME HeapType', \A p \in Pids, a \in Addrs : Phantom(p, a)' /\ Missing(p, a)'
  PROVE  PhantomInv' /\ MissingInv'
<1>1. \A p \in Pids : tracked'[p] \subseteq Addrs
  BY Zenon DEF HeapType
<1>2. PhantomInv'
  BY OnTheirWay, Zenon DEF PhantomInv, Phantom
<1>3. MissingInv'
  BY <1>1, OnTheirWay, Zenon DEF MissingInv, Missing
<1>. QED  BY <1>2, <1>3, Zenon

\* A step that shows an address of p as it was, and excuses it if it was excused.
Same(p, a) ==
  /\ track_deallocations'[p] => track_deallocations[p]
  /\ a \in tracked'[p] <=> a \in tracked[p]
  /\ a \in unreported[p] => a \in unreported'[p]
  /\ a \in forgotten[p] => a \in forgotten'[p]
  /\ Shown(p, a)' <=> Shown(p, a)

\* One in which it is also on its way as it was.
Quiet(p, a) ==
  /\ Same(p, a)
  /\ \A u \in Threads :
       /\ Removing(u, p, a)' <=> Removing(u, p, a)
       /\ Adding(u, p, a)' <=> Adding(u, p, a)
       /\ Adding(u, p, a) /\ pc'[u] = "push_alloc" => pc[u] = "push_alloc"

\* Such a step keeps both invariants at the address.
LEMMA QuietKeeps ==
  ASSUME NEW p, NEW a, Phantom(p, a), Missing(p, a), Quiet(p, a)
  PROVE  Phantom(p, a)' /\ Missing(p, a)'
<1>1. Phantom(p, a)'
  BY Zenon DEF Phantom, Quiet, Same
<1>2. Missing(p, a)'
  BY Zenon DEF Missing, Quiet, Same
<1>. QED  BY <1>1, <1>2, Zenon

\* A turn of t changes what is on its way only at the block of t.
LEMMA OthersBlocks ==
  ASSUME HeapType, HookInv, NEW t \in Threads, NEW p, Turn(t, p),
         ptr'[t] = ptr[t] \/ pc'[t] \notin {"push_alloc", "pushed", "push_dealloc"},
         NEW q \in Pids, NEW a \in Addrs, ~ (q = p /\ a = ptr[t]), NEW u \in Threads
  PROVE  /\ Removing(u, q, a)' <=> Removing(u, q, a)
         /\ Adding(u, q, a)' <=> Adding(u, q, a)
         /\ Adding(u, q, a) /\ pc'[u] = "push_alloc" => pc[u] = "push_alloc"
<1>1. proc' = proc /\ a # Null
  BY ProcessesAssumption, Zenon DEF Turn
<1>2. CASE u # t
  BY <1>1, <1>2, Zenon DEF Turn, Removing, Adding
<1>3. CASE u = t
  <2>1. ~ Removing(t, q, a) /\ ~ Removing(t, q, a)'
    BY <1>1, <1>3, Zenon DEF Turn, Removing
  <2>2. ~ Adding(t, q, a)
    BY <1>1, Zenon DEF Turn, Adding, HookInv
  <2>3. ~ Adding(t, q, a)'
    BY <1>1, Zenon DEF Turn, Adding
  <2>. QED  BY <1>3, <2>1, <2>2, <2>3, Zenon
<1>. QED  BY <1>2, <1>3, Zenon

\* No other thread is adding the block that t has.
LEMMA OneAdder ==
  ASSUME HookInv, NEW t \in Threads, Holds(t), NEW p, proc[t] = p,
         NEW u \in Threads, NEW a \in Addrs, a = ptr[t], Adding(u, p, a)
  PROVE  u = t
<1>1. a # Null
  BY ProcessesAssumption, Zenon
<1>2. Holds(u) /\ ptr[u] = a
  BY <1>1, Zenon DEF HookInv, Adding, Holds
<1>. QED  BY <1>2, Zenon DEF HookInv, Adding

\* A process reports under an identifier that is its own or its parent's.
LEMMA TurnPids ==
  ASSUME HeapType, HookInv, PidInv, NEW t \in Threads, NEW p, Turn(t, p), UNCHANGED live,
         pid' = pid \/ pid' = [pid EXCEPT ![p] = p],
         ring' = ring \/ \E e \in Events : e.pid = pid[p] /\ ring' = Append(ring, e)
  PROVE  PidInv'
<1>1. p \in Pids /\ p \in started /\ started' = started
  BY TrackerAssumption, Zenon DEF Turn, HookInv
<1>2. pid[p] \in Own
  BY <1>1, Zenon DEF PidInv
<1>3. Own \subseteq Own'
  BY <1>1, Zenon DEF Own, HeapType
<1>4. \A q \in Pids : IF q \in started' THEN pid'[q] \in Own' ELSE pid'[q] = q
  <2>1. p \in Own' \/ pid' = pid
    BY <1>1, Zenon DEF Own, HeapType
  <2>. QED  BY <1>1, <1>3, <2>1, Zenon DEF PidInv, HeapType
<1>5. \A i \in 1 .. Len(ring') : ring'[i].pid \in Own'
  <2>1. CASE ring' = ring
    BY <1>3, <2>1, Zenon DEF PidInv
  <2>2. ASSUME NEW e \in Events, e.pid = pid[p], ring' = Append(ring, e)
        PROVE  \A i \in 1 .. Len(ring') : ring'[i].pid \in Own'
    <3>1. ring \in Seq(Events) /\ Len(ring) \in Nat
      BY SMTT(20) DEF HeapType
    <3>2. /\ Len(ring') = Len(ring) + 1 /\ ring'[Len(ring) + 1] = e
          /\ \A i \in 1 .. Len(ring) : ring'[i] = ring[i]
      BY <2>2, <3>1, SMTT(20)
    <3>3. \A i \in 1 .. Len(ring) + 1 : i \in 1 .. Len(ring) \/ i = Len(ring) + 1
      BY <3>1, SMTT(20)
    <3>. QED  BY <1>2, <1>3, <2>2, <3>2, <3>3, Zenon DEF PidInv
  <2>. QED  BY <2>1, <2>2, Zenon
<1>6. \A q \in Pids : LiveAddrs(live'[q]) # {} => q \in Own'
  BY <1>3, Zenon DEF PidInv
<1>7. \A q \in Pids : LiveAddrs(live[q])' # {} => q \in Own'
  BY <1>6, Zenon DEF LiveAddrs
<1>. QED  BY <1>4, <1>5, <1>7, Zenon DEF PidInv

\* A process that reports under its parent's identifier shows nothing.
LEMMA NotOwnShown ==
  ASSUME PidInv, NEW p \in Pids, p \notin Own, NEW a
  PROVE  ~ Shown(p, a)
BY Zenon DEF PidInv, Shown, Is

\* A turn in which t has nothing on its way.
LEMMA StillTurn ==
  ASSUME HeapInv, NEW t \in Threads, NEW p, Turn(t, p),
         UNCHANGED <<tracked, ring, live, unreported, forgotten, announced>>,
         pid' = pid \/ pid' = [pid EXCEPT ![p] = p],
         track_deallocations' \in [Pids -> BOOLEAN],
         \A q \in Pids : track_deallocations'[q] => track_deallocations[q],
         \A a \in Addrs : /\ ~ Removing(t, p, a) /\ ~ Removing(t, p, a)'
                          /\ ~ Adding(t, p, a) /\ ~ Adding(t, p, a)'
  PROVE  HeapInv'
<1>1. /\ HeapType /\ HookInv /\ PidInv /\ PhantomInv /\ MissingInv
      /\ p \in Pids /\ proc' = proc /\ proc[t] = p
  BY Zenon DEF HeapInv, Turn
<1>2. HeapType'
  <2>1. pid' \in [Pids -> Pids]
    BY <1>1, Zenon DEF HeapType
  <2>. QED  BY <1>1, <2>1, Zenon DEF HeapType, Turn, HookTypes
<1>3. HookInv' /\ PidInv'
  BY <1>1, TurnKeeps, TurnPids, Zenon
<1>4. ASSUME NEW q \in Pids, NEW a \in Addrs
      PROVE  Phantom(q, a)' /\ Missing(q, a)'
  <2>1. ASSUME NEW u \in Threads
        PROVE  /\ Removing(u, q, a)' <=> Removing(u, q, a)
               /\ Adding(u, q, a)' <=> Adding(u, q, a)
               /\ Adding(u, q, a) /\ pc'[u] = "push_alloc" => pc[u] = "push_alloc"
    <3>1. CASE u # t
      BY <1>1, <3>1, Zenon DEF Turn, Removing, Adding
    <3>2. CASE u = t /\ q # p
      BY <1>1, <3>2, Zenon DEF Removing, Adding
    <3>3. CASE u = t /\ q = p
      BY <3>3, Zenon
    <3>. QED  BY <3>1, <3>2, <3>3, Zenon
  <2>2. Shown(q, a)' <=> Shown(q, a)
    BY ShownKept, Zenon
  <2>3. Quiet(q, a)
    BY <2>1, <2>2, Zenon DEF Quiet, Same
  <2>4. Phantom(q, a) /\ Missing(q, a)
    BY <1>1, EachAddress, Zenon
  <2>. QED  BY <2>3, <2>4, QuietKeeps, Zenon
<1>5. PhantomInv' /\ MissingInv'
  BY <1>2, <1>4, AllAddresses, Zenon
<1>. QED  BY <1>2, <1>3, <1>5, Zenon DEF HeapInv

\* A turn that may change what is on its way at one address, shown for that address.
LEMMA TurnAt ==
  ASSUME HeapInv, NEW t \in Threads, NEW p, Turn(t, p), HeapType', PidInv',
         ptr'[t] = ptr[t] \/ pc'[t] \notin {"push_alloc", "pushed", "push_dealloc"},
         \A q \in Pids, a \in Addrs :
           \/ ~ (q = p /\ a = ptr[t]) /\ Same(q, a)
           \/ Phantom(q, a)' /\ Missing(q, a)'
  PROVE  HeapInv'
<1>1. HeapType /\ HookInv /\ PhantomInv /\ MissingInv
  BY Zenon DEF HeapInv
<1>2. HookInv'
  BY <1>1, TurnKeeps, Zenon
<1>3. ASSUME NEW q \in Pids, NEW a \in Addrs, ~ (q = p /\ a = ptr[t]), Same(q, a)
      PROVE  Phantom(q, a)' /\ Missing(q, a)'
  <2>1. \A u \in Threads :
          /\ Removing(u, q, a)' <=> Removing(u, q, a)
          /\ Adding(u, q, a)' <=> Adding(u, q, a)
          /\ Adding(u, q, a) /\ pc'[u] = "push_alloc" => pc[u] = "push_alloc"
    BY <1>1, <1>3, OthersBlocks, Zenon
  <2>2. Quiet(q, a)
    BY <1>3, <2>1, Zenon DEF Quiet
  <2>3. Phantom(q, a) /\ Missing(q, a)
    BY <1>1, EachAddress, Zenon
  <2>. QED  BY <2>2, <2>3, QuietKeeps, Zenon
<1>4. \A q \in Pids, a \in Addrs : Phantom(q, a)' /\ Missing(q, a)'
  BY <1>3, Zenon
<1>5. PhantomInv' /\ MissingInv'
  BY <1>4, AllAddresses, Zenon
<1>. QED  BY <1>2, <1>5, Zenon DEF HeapInv

\* The steps in which nothing is reported or taken back.
LEMMA OtherKeeps ==
  ASSUME HeapInv, NEW t \in Threads, NEW p, proc[t] = p,
         UNCHANGED <<live, unreported, forgotten, announced>>,
         \/ AllocHook(t) \/ FreeHook(t) \/ Ref(t) \/ allocation_tracking_free(t) \/ notify_fork(t)
         \/ Pushed(t) /\ (op[t] # "alloc" \/ res[t] = "ok")
  PROVE  HeapInv'
<1>1. HeapType /\ HookInv /\ Turn(t, p)
  BY Turns, Zenon DEF HeapInv
<1>2. /\ pc[t] \in {"idle", "ref"} \/ (pc[t] = "pushed" /\ (op[t] # "alloc" \/ res[t] = "ok"))
      /\ pc'[t] \in {"idle", "ref", "remove", "add"}
  <2>1. pc \in [Threads -> {"idle", "add", "push_alloc", "pushed", "remove", "push_dealloc", "ref"}]
    BY <1>1, Zenon DEF HeapType
  <2>2. CASE AllocHook(t) \/ FreeHook(t)
    BY <2>1, <2>2, Zenon DEF AllocHook, FreeHook, Call, track_allocation_s, Goto, Return
  <2>3. CASE Ref(t)
    BY <2>1, <2>3, Zenon DEF Ref, track_allocation_s, Goto, Return
  <2>4. CASE allocation_tracking_free(t) \/ notify_fork(t)
    BY <2>1, <2>4, Zenon DEF allocation_tracking_free, notify_fork, Call, hook
  <2>5. CASE Pushed(t) /\ (op[t] # "alloc" \/ res[t] = "ok")
    BY <2>1, <2>5, Zenon DEF Pushed, Goto, Return
  <2>. QED  BY <2>2, <2>3, <2>4, <2>5, Zenon
<1>3. /\ UNCHANGED <<tracked, ring>>
      /\ pid' = pid \/ pid' = [pid EXCEPT ![p] = p]
  <2>1. tracked \in [Pids -> SUBSET Addrs]
    BY <1>1, Zenon DEF HeapType
  <2>2. CASE Pushed(t) /\ op[t] = "alloc" /\ res[t] = "ok"
    BY <2>1, <2>2, Zenon DEF Pushed
  <2>3. CASE Pushed(t) /\ op[t] # "alloc"
    BY <2>3, Zenon DEF Pushed
  <2>4. CASE AllocHook(t) \/ FreeHook(t) \/ Ref(t) \/ allocation_tracking_free(t) \/ notify_fork(t)
    BY <2>4, Zenon DEF AllocHook, FreeHook, Ref, allocation_tracking_free, notify_fork, tracker
  <2>. QED  BY <2>2, <2>3, <2>4, Zenon
<1>4. /\ track_deallocations' \in [Pids -> BOOLEAN]
      /\ \A q \in Pids : track_deallocations'[q] => track_deallocations[q]
  <2>1. track_deallocations \in [Pids -> BOOLEAN]
    BY <1>1, Zenon DEF HeapType
  <2>2. \/ UNCHANGED track_deallocations
        \/ track_deallocations' = [track_deallocations EXCEPT ![p] = FALSE]
    BY Zenon DEF AllocHook, FreeHook, Ref, allocation_tracking_free, notify_fork, Pushed, tracker,
           free_on_consecutive_failures, Free
  <2>. QED  BY <2>1, <2>2, Zenon
<1>5. \A a \in Addrs : /\ ~ Removing(t, p, a) /\ ~ Removing(t, p, a)'
                       /\ ~ Adding(t, p, a) /\ ~ Adding(t, p, a)'
  BY <1>2, Zenon DEF Removing, Adding
<1>6. UNCHANGED <<tracked, ring, live, unreported, forgotten, announced>>
  BY <1>3, Zenon
<1>. QED  BY <1>1, <1>3, <1>4, <1>5, <1>6, StillTurn, Zenon

\* An allocation that was not reported is taken out of the set again.
LEMMA TakenBack ==
  ASSUME HeapInv, NEW t \in Threads, NEW p, proc[t] = p,
         UNCHANGED <<live, unreported, forgotten, announced>>,
         Pushed(t), op[t] = "alloc", res[t] # "ok"
  PROVE  HeapInv'
<1>1. HeapType /\ HookInv /\ PidInv /\ PhantomInv /\ MissingInv /\ Turn(t, p) /\ p \in Pids
  BY Turns, Zenon DEF HeapInv, Turn
<1>2. /\ pc[t] = "pushed" /\ pc'[t] = "idle"
      /\ UNCHANGED <<ring, pid>>
      /\ tracked' = [tracked EXCEPT ![p] = IF track_deallocations'[p] THEN @ \ {addr[t]} ELSE @]
  <2>1. Return({t}) /\ pc[t] = "pushed"
    BY Zenon DEF Pushed
  <2>. QED  BY <2>1, Zenon DEF Pushed, Return
<1>3. /\ track_deallocations' \in [Pids -> BOOLEAN]
      /\ \A q \in Pids : track_deallocations'[q] => track_deallocations[q]
  <2>1. track_deallocations \in [Pids -> BOOLEAN]
    BY <1>1, Zenon DEF HeapType
  <2>2. \/ UNCHANGED track_deallocations
        \/ track_deallocations' = [track_deallocations EXCEPT ![p] = FALSE]
    BY Zenon DEF Pushed, free_on_consecutive_failures, Free
  <2>. QED  BY <2>1, <2>2, Zenon
<1>4. /\ tracked' \in [Pids -> SUBSET Addrs]
      /\ \A q \in Pids \ {p} : tracked'[q] = tracked[q]
      /\ tracked'[p] = IF track_deallocations'[p] THEN tracked[p] \ {addr[t]} ELSE tracked[p]
  BY <1>1, <1>2, Zenon DEF HeapType
<1>5. HeapType' /\ PidInv'
  <2>1. HeapType'
    BY <1>1, <1>2, <1>3, <1>4, Zenon DEF HeapType, Turn, HookTypes
  <2>. QED  BY <1>1, <1>2, <2>1, TurnPids, Zenon
<1>6. addr[t] \in {ptr[t], Null} /\ Null \notin Addrs /\ addr[t] \in Addrs \cup {Null}
  BY <1>1, ProcessesAssumption, Zenon DEF HookInv, HeapType
<1>7. \A q \in Pids, a \in Addrs : Shown(q, a)' <=> Shown(q, a)
  BY <1>2, ShownKept, Zenon
<1>8. ASSUME NEW a \in Addrs, a = ptr[t], addr[t] = a
      PROVE  Phantom(p, a)' /\ Missing(p, a)'
  <2>1. CASE ~ track_deallocations'[p]
    BY <2>1, Zenon DEF Phantom, Missing
  <2>2. CASE track_deallocations'[p]
    <3>1. Adding(t, p, a) /\ Holds(t) /\ proc[t] = p
      BY <1>2, <1>6, <1>8, Zenon DEF Adding, Holds
    <3>2. Phantom(p, a) /\ track_deallocations[p]
      BY <1>1, <1>3, <2>2, EachAddress, Zenon
    <3>3. Shown(p, a)' => a \in unreported[p] \/ \E u \in Threads : Removing(u, p, a)
      BY <1>7, <1>1, <3>1, <3>2, Zenon DEF Phantom
    <3>4. \A u \in Threads : Removing(u, p, a) => Removing(u, p, a)'
      BY <1>1, <1>2, Zenon DEF Removing, Turn
    <3>5. \A u \in Threads : ~ Adding(u, p, a)'
      <4>1. ~ Adding(t, p, a)'
        BY <1>2, Zenon DEF Adding
      <4>2. \A u \in Threads \ {t} : Adding(u, p, a)' => Adding(u, p, a)
        BY <1>1, Zenon DEF Adding, Turn
      <4>. QED  BY <1>1, <1>8, <3>1, <4>1, <4>2, OneAdder, Zenon
    <3>6. a \notin tracked'[p]
      BY <1>4, <1>8, <2>2, Zenon
    <3>. QED  BY <3>3, <3>4, <3>5, <3>6, Zenon DEF Phantom, Missing
  <2>. QED  BY <2>1, <2>2, Zenon
<1>9. ASSUME NEW a \in Addrs, a = ptr[t], addr[t] # a
      PROVE  Phantom(p, a)' /\ Missing(p, a)'
  <2>1. \A u \in Threads :
          /\ Removing(u, p, a)' <=> Removing(u, p, a)
          /\ Adding(u, p, a)' <=> Adding(u, p, a)
          /\ Adding(u, p, a) /\ pc'[u] = "push_alloc" => pc[u] = "push_alloc"
    BY <1>1, <1>2, <1>9, Zenon DEF Removing, Adding, Turn
  <2>2. a \in tracked'[p] <=> a \in tracked[p]
    BY <1>4, <1>9, Zenon
  <2>3. Quiet(p, a)
    BY <1>1, <1>3, <1>7, <2>1, <2>2, Zenon DEF Quiet, Same
  <2>. QED  BY <1>1, <2>3, EachAddress, QuietKeeps, Zenon
<1>10. ASSUME NEW q \in Pids, NEW a \in Addrs, ~ (q = p /\ a = ptr[t])
       PROVE  a \in tracked'[q] <=> a \in tracked[q]
  BY <1>4, <1>6, <1>10, Zenon
<1>11. ASSUME NEW q \in Pids, NEW a \in Addrs
       PROVE  (~ (q = p /\ a = ptr[t]) /\ Same(q, a)) \/ (Phantom(q, a)' /\ Missing(q, a)')
  BY <1>3, <1>7, <1>8, <1>9, <1>10, Zenon DEF Same
<1>12. pc'[t] \notin {"push_alloc", "pushed", "push_dealloc"}
  BY <1>2, Zenon
<1>. QED  BY <1>1, <1>5, <1>11, <1>12, TurnAt, Zenon

\* An address that enters the set was not in it: whatever the worker shows of it is
\* excused already.
LEMMA AddKeeps ==
  ASSUME HeapInv, NEW t \in Threads, NEW p, proc[t] = p, HookAdd(t)
  PROVE  HeapInv'
<1>1. HeapType /\ HookInv /\ PidInv /\ PhantomInv /\ MissingInv /\ Turn(t, p) /\ p \in Pids
  BY Turns, Zenon DEF HeapInv, Turn, HookAdd, Library
<1>2. /\ pc[t] = "add" /\ pc'[t] = "push_alloc" /\ op[t] = "alloc"
      /\ UNCHANGED <<live, announced, unreported, ring, pid, track_deallocations, op, ptr, proc>>
      /\ forgotten' = [forgotten EXCEPT ![p] = @ \ (tracked'[p] \ tracked[p])]
  <2>1. Add(t) /\ op[t] = "alloc"
    BY <1>1, Zenon DEF HookAdd, Library, Add, HookInv
  <2>2. pc'[t] = "push_alloc"
    BY <1>1, <2>1, Zenon DEF Add, Goto, HeapType
  <2>. QED  BY <2>1, <2>2, Zenon DEF HookAdd, Library, Add, liveVars
<1>3. \/ /\ ~track_deallocations[p] \/ ptr[t] = Null
         /\ tracked' = tracked
      \/ /\ track_deallocations[p] /\ ptr[t] \notin tracked[p] \cup {Null}
         /\ addr'[t] = ptr[t]
         /\ tracked' = [tracked EXCEPT ![p] = @ \cup {ptr[t]}]
      \/ addr'[t] = Null /\ tracked' = tracked
  <2>1. addr \in [Threads -> Addrs \cup {Null}]
    BY <1>1, Zenon DEF HeapType
  <2>. QED  BY <2>1, Zenon DEF HookAdd, Library, Add
<1>4. ptr[t] \in Addrs \cup {Null} /\ Null \notin Addrs
  BY <1>1, ProcessesAssumption, Zenon DEF HeapType
<1>5. /\ tracked' \in [Pids -> SUBSET Addrs] /\ forgotten' \in [Pids -> SUBSET Addrs]
      /\ \A q \in Pids \ {p} : tracked'[q] = tracked[q] /\ forgotten'[q] = forgotten[q]
      /\ forgotten'[p] = forgotten[p] \ (tracked'[p] \ tracked[p])
      /\ tracked'[p] \in {tracked[p], tracked[p] \cup {ptr[t]}}
  BY <1>1, <1>2, <1>3, <1>4, SMTT(20) DEF HeapType
<1>6. HeapType' /\ PidInv'
  <2>1. HeapType'
    BY <1>1, <1>2, <1>5, Zenon DEF HeapType, Turn, HookTypes
  <2>. QED  BY <1>1, <1>2, <2>1, TurnPids, Zenon
<1>7. \A q \in Pids, a \in Addrs : Shown(q, a)' <=> Shown(q, a)
  BY <1>2, ShownKept, Zenon
<1>8. ASSUME NEW a \in Addrs, a = ptr[t]
      PROVE  Phantom(p, a)' /\ Missing(p, a)'
  <2>1. CASE ~ track_deallocations[p]
    BY <1>2, <2>1, Zenon DEF Phantom, Missing
  <2>2. CASE addr'[t] = Null /\ tracked' = tracked
    <3>1. \A u \in Threads :
            /\ Removing(u, p, a)' <=> Removing(u, p, a)
            /\ Adding(u, p, a)' <=> Adding(u, p, a)
            /\ Adding(u, p, a) /\ pc'[u] = "push_alloc" => pc[u] = "push_alloc"
      BY <1>1, <1>2, <1>4, <2>2 DEF Removing, Adding, Turn
    <3>2. Quiet(p, a)
      BY <1>1, <1>2, <1>5, <1>7, <2>2, <3>1, Zenon DEF Quiet, Same
    <3>. QED  BY <1>1, <3>2, EachAddress, QuietKeeps, Zenon
  <2>3. CASE /\ track_deallocations[p] /\ ptr[t] \notin tracked[p] \cup {Null}
             /\ addr'[t] = ptr[t]
             /\ tracked' = [tracked EXCEPT ![p] = @ \cup {ptr[t]}]
    <3>1. Phantom(p, a)
      BY <1>1, EachAddress, Zenon
    <3>2. a \in tracked'[p] /\ a \notin tracked[p]
      BY <1>1, <1>8, <2>3, Zenon DEF HeapType
    <3>3. Adding(t, p, a)' /\ Holds(t)
      BY <1>1, <1>2, <1>4, <1>8, <2>3, Zenon DEF Adding, Holds
    <3>4. \A u \in Threads : Removing(u, p, a) => Removing(u, p, a)'
      BY <1>1, <1>2, Zenon DEF Removing, Turn
    <3>5. Shown(p, a)' => a \in unreported[p] \/ \E u \in Threads : Removing(u, p, a)'
      BY <1>1, <1>7, <2>3, <3>1, <3>2, <3>4, Zenon DEF Phantom
    <3>. QED  BY <1>2, <3>2, <3>3, <3>5, Zenon DEF Phantom, Missing
  <2>. QED  BY <1>3, <1>4, <1>8, <2>1, <2>2, <2>3, Zenon
<1>9. ASSUME NEW q \in Pids, NEW a \in Addrs, ~ (q = p /\ a = ptr[t])
      PROVE  /\ a \in tracked'[q] <=> a \in tracked[q]
             /\ a \in forgotten[q] => a \in forgotten'[q]
  BY <1>5, <1>9, Zenon
<1>10. ptr'[t] = ptr[t]
  BY <1>2, Zenon
<1>11. ASSUME NEW q \in Pids, NEW a \in Addrs
       PROVE  (~ (q = p /\ a = ptr[t]) /\ Same(q, a)) \/ (Phantom(q, a)' /\ Missing(q, a)')
  BY <1>2, <1>7, <1>8, <1>9, Zenon DEF Same
<1>. QED  BY <1>1, <1>6, <1>10, <1>11, TurnAt, Zenon

\* A block that leaves the set is on its way.  When dallocx takes out the block that
\* another thread was given, that thread's report is not going to be followed by one.
LEMMA RemoveKeeps ==
  ASSUME HeapInv, NEW t \in Threads, NEW p, proc[t] = p, HookRemove(t)
  PROVE  HeapInv'
<1>. DEFINE found == track_deallocations[p] /\ ptr[t] \in tracked[p]
<1>1. HeapType /\ HookInv /\ PidInv /\ PhantomInv /\ MissingInv /\ Turn(t, p) /\ p \in Pids
  BY Turns, Zenon DEF HeapInv, Turn, HookRemove, Library
<1>2. /\ pc[t] = "remove" /\ pc'[t] = (IF found THEN "push_dealloc" ELSE "ref") /\ op[t] # "alloc"
      /\ UNCHANGED <<live, announced, forgotten, ring, pid, track_deallocations, op, ptr, proc>>
      /\ tracked' = [tracked EXCEPT ![p] = IF found THEN @ \ {ptr[t]} ELSE @]
  <2>1. Remove(t) /\ op[t] # "alloc"
    BY <1>1, Zenon DEF HookRemove, Library, Remove, HookInv
  <2>2. pc'[t] = (IF found THEN "push_dealloc" ELSE "ref")
    BY <1>1, <2>1, Zenon DEF Remove, Goto, HeapType
  <2>. QED  BY <2>1, <2>2, Zenon DEF HookRemove, Library, Remove, liveVars
<1>3. unreported' = [unreported EXCEPT ![p] =
        @ \cup IF op[t] = "dallocx" /\ pc'[t] = "push_dealloc" THEN in_use[p] \cap {ptr[t]} ELSE {}]
  BY Zenon DEF HookRemove
<1>4. ptr[t] \in Addrs \cup {Null} /\ Null \notin Addrs /\ in_use[p] \subseteq Addrs
  BY <1>1, ProcessesAssumption, Zenon DEF HeapType
<1>5. /\ tracked' \in [Pids -> SUBSET Addrs] /\ unreported' \in [Pids -> SUBSET Addrs]
      /\ \A q \in Pids \ {p} : tracked'[q] = tracked[q] /\ unreported'[q] = unreported[q]
      /\ tracked'[p] = IF found THEN tracked[p] \ {ptr[t]} ELSE tracked[p]
      /\ unreported[p] \subseteq unreported'[p]
      /\ op[t] = "dallocx" /\ found /\ ptr[t] \in in_use[p] => ptr[t] \in unreported'[p]
  BY <1>1, <1>2, <1>3, <1>4, Zenon DEF HeapType
<1>6. HeapType' /\ PidInv'
  <2>1. HeapType'
    BY <1>1, <1>2, <1>5, Zenon DEF HeapType, Turn, HookTypes
  <2>. QED  BY <1>1, <1>2, <2>1, TurnPids, Zenon
<1>7. \A q \in Pids, a \in Addrs : Shown(q, a)' <=> Shown(q, a)
  BY <1>2, ShownKept, Zenon
<1>8. ASSUME NEW a \in Addrs, a = ptr[t]
      PROVE  Phantom(p, a)' /\ Missing(p, a)'
  <2>1. CASE ~ found
    <3>1. \A u \in Threads :
            /\ Removing(u, p, a)' <=> Removing(u, p, a)
            /\ Adding(u, p, a)' <=> Adding(u, p, a)
            /\ Adding(u, p, a) /\ pc'[u] = "push_alloc" => pc[u] = "push_alloc"
      BY <1>1, <1>2, <2>1, Zenon DEF Removing, Adding, Turn
    <3>2. Quiet(p, a)
      BY <1>1, <1>2, <1>5, <1>7, <2>1, <3>1, Zenon DEF Quiet, Same
    <3>. QED  BY <1>1, <3>2, EachAddress, QuietKeeps, Zenon
  <2>2. CASE found
    <3>1. Removing(t, p, a)' /\ a \notin tracked'[p]
      BY <1>2, <1>5, <1>8, <2>2, SMTT(20) DEF Removing
    <3>2. ASSUME NEW u \in Threads, Adding(u, p, a)'  PROVE a \in unreported'[p]
      <4>1. u # t /\ Adding(u, p, a)
        BY <1>1, <1>2, <3>2, Zenon DEF Adding, Turn
      <4>2. ~ Holds(t)
        BY <1>1, <1>8, <4>1, OneAdder, Zenon
      <4>3. op[t] = "dallocx"
        BY <1>2, <1>4, <1>8, <4>2, Zenon DEF Holds
      <4>4. Holds(u) /\ ptr[u] = a /\ proc[u] = p
        BY <1>1, <1>4, <4>1, Zenon DEF HookInv, Adding, Holds
      <4>5. a \in in_use[p]
        BY <1>1, <4>4, Zenon DEF HookInv
      <4>. QED  BY <1>5, <1>8, <2>2, <4>3, <4>5, Zenon
    <3>. QED  BY <3>1, <3>2, Zenon DEF Phantom, Missing
  <2>. QED  BY <2>1, <2>2, Zenon
<1>9. ASSUME NEW q \in Pids, NEW a \in Addrs, ~ (q = p /\ a = ptr[t])
      PROVE  /\ a \in tracked'[q] <=> a \in tracked[q]
             /\ a \in unreported[q] => a \in unreported'[q]
  BY <1>5, <1>9, Zenon
<1>10. ptr'[t] = ptr[t]
  BY <1>2, Zenon
<1>11. ASSUME NEW q \in Pids, NEW a \in Addrs
       PROVE  (~ (q = p /\ a = ptr[t]) /\ Same(q, a)) \/ (Phantom(q, a)' /\ Missing(q, a)')
  BY <1>2, <1>7, <1>8, <1>9, Zenon DEF Same
<1>. QED  BY <1>1, <1>6, <1>10, <1>11, TurnAt, Zenon

\* An event that is appended is not lost: the ring is another one.
LEMMA Appended ==
  ASSUME HeapType, NEW e  PROVE Append(ring, e) # ring
<1>1. Len(ring) \in Nat /\ Len(Append(ring, e)) = Len(ring) + 1
  BY SMTT(20) DEF HeapType
<1>. QED  BY <1>1, SMTT(20)

\* A report under the process's own identifier shows the address, which is in the set
\* unless dallocx took it out meanwhile.  One under its parent's is missed in the
\* process, and the parent's set does not have it.
LEMMA PushAllocKeeps ==
  ASSUME HeapInv, NEW t \in Threads, NEW p, proc[t] = p, HookPushAlloc(t)
  PROVE  HeapInv'
<1>. SUFFICES ASSUME NEW r, r = pid[p], NEW b, b = addr[t]  PROVE HeapInv'
  BY Zenon
<1>. DEFINE sent == IF ring' = ring THEN {} ELSE {b} \ {Null}
<1>1. /\ HeapType /\ HookInv /\ PidInv /\ PhantomInv /\ MissingInv
      /\ Turn(t, p) /\ p \in Pids /\ r \in Pids
  BY Turns, Zenon DEF HeapInv, Turn, HookPushAlloc, Library, HeapType
<1>2. /\ pc[t] = "push_alloc" /\ pc'[t] = "pushed" /\ op[t] = "alloc"
      /\ UNCHANGED <<live, announced, tracked, pid, track_deallocations, op, ptr, addr, proc>>
  <2>1. push_alloc_sample(t) /\ pc[t] = "push_alloc"
    BY Zenon DEF HookPushAlloc, Library, push_alloc_sample
  <2>2. pc'[t] = "pushed" /\ op[t] = "alloc"
    BY <1>1, <2>1, Zenon DEF push_alloc_sample, Goto, HeapType, HookInv
  <2>. QED  BY <2>1, <2>2, Zenon DEF HookPushAlloc, Library, push_alloc_sample, liveVars, tracker
<1>3. b \in Addrs \cup {Null} /\ b \in {ptr[t], Null} /\ Null \notin Addrs
  BY <1>1, <1>2, ProcessesAssumption, Zenon DEF HeapType, HookInv
<1>4. \/ ring' = ring /\ res'[t] # "ok"
      \/ \E e \in Events : /\ e.type = "sample" /\ e.pid = r /\ e.addr = b
                           /\ ring' = Append(ring, e)
  <2>1. PICK s \in Samples :
          Push(t, [type |-> "sample", pid |-> r, addr |-> b, sample |-> s], RingSize - HighPriority)
    BY Zenon DEF HookPushAlloc, Library, push_alloc_sample
  <2>. DEFINE e == [type |-> "sample", pid |-> r, addr |-> b, sample |-> s]
  <2>2. e \in Events /\ e.type = "sample" /\ e.pid = r /\ e.addr = b
    BY <1>1, <1>3, Zenon DEF Events
  <2>3. ring' = Append(ring, e) \/ (ring' = ring /\ res'[t] # "ok")
    BY <1>1, <2>1, Zenon DEF Push, HeapType
  <2>. HIDE DEF e
  <2>. QED  BY <2>2, <2>3, Zenon
<1>5. /\ unreported' = [unreported EXCEPT ![r] =
           IF r = p /\ res'[t] = "ok" THEN @ \ (sent \cap tracked[p]) ELSE @ \cup sent]
      /\ forgotten' = [forgotten EXCEPT ![p] = IF r = p THEN @ ELSE @ \cup sent]
  BY Zenon DEF HookPushAlloc
<1>6. sent \subseteq Addrs
  BY <1>3, Zenon
<1>7. /\ unreported' \in [Pids -> SUBSET Addrs] /\ forgotten' \in [Pids -> SUBSET Addrs]
      /\ \A q \in Pids \ {p} : forgotten'[q] = forgotten[q]
      /\ forgotten'[p] = IF r = p THEN forgotten[p] ELSE forgotten[p] \cup sent
      /\ \A q \in Pids \ {r} : unreported'[q] = unreported[q]
      /\ unreported'[r] = IF r = p /\ res'[t] = "ok" THEN unreported[r] \ (sent \cap tracked[p])
                                                     ELSE unreported[r] \cup sent
  <2>. HIDE DEF sent
  <2>. QED  BY <1>1, <1>5, <1>6, Zenon DEF HeapType
<1>8. HeapType' /\ PidInv'
  <2>1. ring' \in Seq(Events)
    <3>1. ring \in Seq(Events)
      BY <1>1, Zenon DEF HeapType
    <3>. QED  BY <1>4, <3>1, SMTT(20)
  <2>2. HeapType'
    BY <1>1, <1>2, <1>7, <2>1, Zenon DEF HeapType, Turn, HookTypes
  <2>. QED  BY <1>1, <1>2, <1>4, <2>2, TurnPids, Zenon
<1>9. \A q \in Pids, a \in Addrs : Phantom(q, a) /\ Missing(q, a)
  BY <1>1, EachAddress, Zenon
<1>10. \A u \in Threads, a \in Addrs : Removing(u, p, a)' <=> Removing(u, p, a)
  BY <1>1, <1>2, Zenon DEF Removing, Turn
<1>11. \A u \in Threads, q \in Pids, a \in Addrs :
         /\ Adding(u, q, a)' => Adding(u, q, a)
         /\ u # t \/ res'[t] # "ok" => (Adding(u, q, a)' <=> Adding(u, q, a))
         /\ pc'[u] = "push_alloc" => pc[u] = "push_alloc"
  BY <1>1, <1>2, Zenon DEF Adding, Turn
<1>12. CASE ring' = ring /\ res'[t] # "ok"
  <2>1. sent = {}
    BY <1>12, Zenon
  <2>2. \A q \in Pids : unreported'[q] = unreported[q] /\ forgotten'[q] = forgotten[q]
    BY <1>7, <2>1, Zenon
  <2>3. \A q \in Pids, a \in Addrs : Shown(q, a)' <=> Shown(q, a)
    BY <1>2, <1>12, ShownKept, Zenon
  <2>4. ASSUME NEW a \in Addrs  PROVE Phantom(p, a)' /\ Missing(p, a)'
    <3>1. Quiet(p, a)
      BY <1>1, <1>2, <1>10, <1>11, <1>12, <2>2, <2>3, Zenon DEF Quiet, Same
    <3>. QED  BY <1>1, <1>9, <3>1, QuietKeeps, Zenon
  <2>5. ASSUME NEW q \in Pids, NEW a \in Addrs
        PROVE  (~ (q = p /\ a = ptr[t]) /\ Same(q, a)) \/ (Phantom(q, a)' /\ Missing(q, a)')
    BY <1>2, <2>2, <2>3, <2>4, Zenon DEF Same
  <2>6. ptr'[t] = ptr[t]
    BY <1>2, Zenon
  <2>. QED  BY <1>1, <1>8, <2>5, <2>6, TurnAt, Zenon
<1>13. ASSUME NEW e \in Events, e.type = "sample", e.pid = r, e.addr = b, ring' = Append(ring, e)
       PROVE  HeapInv'
  <2>1. \A q \in Pids, a \in Addrs : Shown(q, a)' <=> Shown(q, a) \/ (q = r /\ a = b)
    BY <1>1, <1>2, <1>13, SampleAppended, Zenon
  <2>2. sent = {b} \ {Null}
    BY <1>1, <1>13, Appended, Zenon
  <2>. HIDE DEF sent
  <2>3. ASSUME NEW a \in Addrs, a = ptr[t], a # b
        PROVE  Phantom(p, a)' /\ Missing(p, a)'
    <3>1. a \notin sent
      BY <2>2, <2>3, Zenon
    <3>2. a \in unreported[p] => a \in unreported'[p]
      BY <1>1, <1>7, <3>1, Zenon
    <3>3. a \in forgotten[p] => a \in forgotten'[p]
      BY <1>1, <1>7, Zenon
    <3>4. \A u \in Threads : Adding(u, p, a)' <=> Adding(u, p, a)
      BY <1>1, <1>2, <1>11, <2>3, Zenon DEF Adding
    <3>5. Quiet(p, a)
      BY <1>1, <1>2, <1>10, <1>11, <2>1, <2>3, <3>2, <3>3, <3>4, Zenon
         DEF Quiet, Same
    <3>. QED  BY <1>1, <1>9, <3>5, QuietKeeps, Zenon
  <2>4. ASSUME NEW a \in Addrs, a = b, r = p
        PROVE  Phantom(p, a)' /\ Missing(p, a)'
    <3>1. a \in sent /\ a = ptr[t] /\ Shown(p, a)'
      BY <1>1, <1>3, <2>1, <2>2, <2>4, Zenon
    <3>2. Adding(t, p, a) /\ Holds(t)
      BY <1>2, <1>3, <2>4, <3>1, Zenon DEF Adding, Holds
    <3>3. track_deallocations[p] => a \in tracked[p] \/ a \in unreported[p]
      BY <1>1, <1>2, <1>9, <3>2, Zenon DEF Phantom
    <3>4. track_deallocations[p] => a \in tracked[p] \/ a \in unreported'[p]
      BY <1>1, <1>7, <2>4, <3>3, Zenon
    <3>5. ASSUME NEW u \in Threads, Adding(u, p, a)'
          PROVE  a \in unreported'[p] /\ pc'[u] # "push_alloc"
      <4>1. u = t
        BY <1>1, <1>11, <3>1, <3>2, <3>5, OneAdder, Zenon
      <4>2. res'[t] # "ok"
        BY <1>2, <3>5, <4>1, Zenon DEF Adding
      <4>. QED  BY <1>1, <1>2, <1>7, <2>4, <3>1, <4>1, <4>2, Zenon
    <3>. QED  BY <1>2, <3>1, <3>4, <3>5, Zenon DEF Phantom, Missing
  <2>5. ASSUME NEW a \in Addrs, a = b, r # p
        PROVE  Phantom(p, a)' /\ Missing(p, a)'
    <3>1. a \in sent /\ a \in forgotten'[p] /\ unreported'[p] = unreported[p]
      BY <1>1, <1>3, <1>7, <2>2, <2>5, Zenon
    <3>2. ~ Shown(p, a)'
      BY <1>1, <2>1, <2>5, NotOwnShown, Zenon DEF Own
    <3>3. \A u \in Threads : Adding(u, p, a)' /\ pc'[u] = "push_alloc" =>
                                Adding(u, p, a) /\ pc[u] = "push_alloc"
      BY <1>1, <1>11, Zenon
    <3>. QED  BY <1>1, <1>2, <1>9, <3>1, <3>2, <3>3, Zenon DEF Phantom, Missing
  <2>6. ASSUME NEW a \in Addrs, a = b, r # p
        PROVE  Phantom(r, a)' /\ Missing(r, a)'
    <3>1. a \in unreported'[r] /\ Shown(r, a)'
      BY <1>1, <1>3, <1>7, <2>1, <2>2, <2>6, Zenon
    <3>. QED  BY <3>1, Zenon DEF Phantom, Missing
  <2>7. ASSUME NEW q \in Pids, NEW a \in Addrs, ~ (q = p /\ a = ptr[t]), ~ (q = r /\ a = b)
        PROVE  /\ a \in unreported[q] => a \in unreported'[q]
               /\ a \in forgotten[q] => a \in forgotten'[q]
               /\ Shown(q, a)' <=> Shown(q, a)
    BY <1>1, <1>7, <2>1, <2>2, <2>7
  <2>8. \A a \in Addrs : a = ptr[t] => Phantom(p, a)' /\ Missing(p, a)'
    BY <2>3, <2>4, <2>5, Zenon
  <2>9. \A q \in Pids, a \in Addrs : q = r /\ a = b => Phantom(q, a)' /\ Missing(q, a)'
    BY <2>4, <2>6, Zenon
  <2>10. ASSUME NEW q \in Pids, NEW a \in Addrs
         PROVE  (~ (q = p /\ a = ptr[t]) /\ Same(q, a)) \/ (Phantom(q, a)' /\ Missing(q, a)')
    BY <1>2, <2>7, <2>8, <2>9, Zenon DEF Same
  <2>11. ptr'[t] = ptr[t]
    BY <1>2, Zenon
  <2>. QED  BY <1>1, <1>8, <2>10, <2>11, TurnAt, Zenon
<1>. QED  BY <1>4, <1>12, <1>13, Zenon

\* A deallocation that arrives hides the address: an allocation of it that is in the
\* set by then is missed.  One that is lost leaves the address with the worker.
LEMMA PushDeallocKeeps ==
  ASSUME HeapInv, NEW t \in Threads, NEW p, proc[t] = p, HookPushDealloc(t)
  PROVE  HeapInv'
<1>. SUFFICES ASSUME NEW r, r = pid[p], NEW b, b = ptr[t]  PROVE HeapInv'
  OBVIOUS
<1>. DEFINE sent == ring' # ring
<1>1. /\ HeapType /\ HookInv /\ PidInv /\ PhantomInv /\ MissingInv
      /\ Turn(t, p) /\ p \in Pids /\ r \in Pids
  BY Turns, Zenon DEF HeapInv, Turn, HookPushDealloc, Library, HeapType
<1>2. /\ pc[t] = "push_dealloc" /\ pc'[t] = "pushed" /\ op[t] # "alloc"
      /\ UNCHANGED <<live, announced, tracked, pid, track_deallocations, op, ptr, addr, proc>>
  <2>1. push_dealloc_sample(t) /\ pc[t] = "push_dealloc"
    BY Zenon DEF HookPushDealloc, Library, push_dealloc_sample
  <2>2. pc'[t] = "pushed" /\ op[t] # "alloc"
    BY <1>1, <2>1, Zenon DEF push_dealloc_sample, Goto, HeapType, HookInv
  <2>. QED  BY <2>1, <2>2, Zenon
               DEF HookPushDealloc, Library, push_dealloc_sample, liveVars, tracker
<1>3. b \in Addrs
  BY <1>1, <1>2, Zenon DEF HeapType, HookInv
<1>4. \/ ring' = ring
      \/ \E e \in Events : /\ e.type = "deallocation" /\ e.pid = r /\ e.addr = b
                           /\ ring' = Append(ring, e)
  <2>. DEFINE e == [type |-> "deallocation", pid |-> r, addr |-> b]
  <2>1. Push(t, e, RingSize)
    BY Zenon DEF HookPushDealloc, Library, push_dealloc_sample
  <2>2. e \in Events /\ e.type = "deallocation" /\ e.pid = r /\ e.addr = b
    BY <1>1, <1>3, Zenon DEF Events
  <2>. HIDE DEF e
  <2>3. ring' = Append(ring, e) \/ ring' = ring
    BY <2>1, Zenon DEF Push
  <2>. QED  BY <2>2, <2>3, Zenon
<1>5. /\ unreported' = [unreported EXCEPT ![p] =
           IF ~sent THEN @ \cup {b} ELSE IF r = p THEN @ \ ({b} \ BeingAdded(p)) ELSE @]
      /\ forgotten' = [forgotten EXCEPT ![r] = @ \cup IF sent THEN tracked[r] \cap {b} ELSE {}]
  BY Zenon DEF HookPushDealloc
<1>6. /\ unreported' \in [Pids -> SUBSET Addrs] /\ forgotten' \in [Pids -> SUBSET Addrs]
      /\ \A q \in Pids : forgotten[q] \subseteq forgotten'[q]
      /\ sent /\ b \in tracked[r] => b \in forgotten'[r]
      /\ \A q \in Pids \ {p} : unreported'[q] = unreported[q]
      /\ unreported'[p] = IF ~sent THEN unreported[p] \cup {b}
                          ELSE IF r = p THEN unreported[p] \ ({b} \ BeingAdded(p))
                          ELSE unreported[p]
  <2>. HIDE DEF sent
  <2>. QED  BY <1>1, <1>3, <1>5, SMTT(20) DEF HeapType
<1>7. HeapType' /\ PidInv'
  <2>1. ring' \in Seq(Events)
    <3>1. ring \in Seq(Events)
      BY <1>1, Zenon DEF HeapType
    <3>. QED  BY <1>4, <3>1, SMTT(20)
  <2>2. HeapType'
    BY <1>1, <1>2, <1>6, <2>1, Zenon DEF HeapType, Turn, HookTypes
  <2>. QED  BY <1>1, <1>2, <1>4, <2>2, TurnPids, Zenon
<1>8. \A q \in Pids, a \in Addrs : Phantom(q, a) /\ Missing(q, a)
  BY <1>1, EachAddress, Zenon
<1>9. \A u \in Threads, q \in Pids, a \in Addrs :
        /\ Adding(u, q, a)' <=> Adding(u, q, a)
        /\ Adding(u, q, a) => pc'[u] = pc[u]
        /\ Removing(u, q, a) /\ (q # p \/ a # b) => Removing(u, q, a)'
  BY <1>1, <1>2, Zenon DEF Adding, Removing, Turn
<1>10. CASE ring' = ring
  <2>1. \A q \in Pids, a \in Addrs : Shown(q, a)' <=> Shown(q, a)
    BY <1>2, <1>10, ShownKept, Zenon
  <2>2. b \in unreported'[p] /\ unreported[p] \subseteq unreported'[p]
    BY <1>6, <1>10, Zenon
  <2>3. Phantom(p, b)' /\ Missing(p, b)'
    <3>1. Phantom(p, b)'
      BY <2>2, Zenon DEF Phantom
    <3>2. Missing(p, b)'
      BY <1>1, <1>2, <1>3, <1>6, <1>8, <1>9, <2>1, Zenon DEF Missing
    <3>. QED  BY <3>1, <3>2, Zenon
  <2>4. \A q \in Pids, a \in Addrs : a \in unreported[q] => a \in unreported'[q]
    BY <1>6, <2>2, Zenon
  <2>5. \A q \in Pids, a \in Addrs : q = p /\ a = ptr[t] => Phantom(q, a)' /\ Missing(q, a)'
    BY <2>3, Zenon
  <2>6. \A q \in Pids, a \in Addrs : a \in forgotten[q] => a \in forgotten'[q]
    BY <1>6, Zenon
  <2>. QED  BY <1>1, <1>2, <1>7, <2>1, <2>4, <2>5, <2>6, TurnAt, Zenon DEF Same
<1>11. ASSUME NEW e \in Events, e.type = "deallocation", e.pid = r, e.addr = b,
              ring' = Append(ring, e)
       PROVE  HeapInv'
  <2>1. \A q \in Pids, a \in Addrs : Shown(q, a)' <=> Shown(q, a) /\ ~ (q = r /\ a = b)
    BY <1>1, <1>2, <1>11, DeallocationAppended, Zenon
  <2>2. sent
    BY <1>1, <1>11, Appended, Zenon
  <2>. HIDE DEF sent
  <2>3. Phantom(r, b)' /\ Missing(r, b)'
    <3>1. ~ Shown(r, b)'
      BY <1>1, <1>3, <2>1, Zenon
    <3>2. \A u \in Threads : Adding(u, r, b)' /\ b \in unreported[r] => b \in unreported'[r]
      BY <1>1, <1>3, <1>6, <1>9, <2>2, OnTheirWay, Zenon
    <3>3. Phantom(r, b)'
      <4>1. Phantom(r, b)
        BY <1>1, <1>3, <1>8, Zenon
      <4>2. ASSUME track_deallocations[r], NEW u \in Threads, Adding(u, r, b)', pc'[u] = "push_alloc"
            PROVE  b \in tracked[r] \/ b \in unreported'[r]
        <5>1. Adding(u, r, b) /\ pc[u] = "push_alloc"
          BY <1>1, <1>3, <1>9, <4>2, Zenon
        <5>. QED  BY <3>2, <4>1, <4>2, <5>1, Zenon DEF Phantom
      <4>. QED  BY <1>2, <3>1, <4>2, Zenon DEF Phantom
    <3>4. Missing(r, b)'
      BY <1>2, <1>6, <2>2, Zenon DEF Missing
    <3>. QED  BY <3>3, <3>4, Zenon
  <2>4. ASSUME r # p  PROVE Phantom(p, b)' /\ Missing(p, b)'
    <3>1. ~ Shown(p, b) /\ ~ Shown(p, b)'
      BY <1>1, <1>3, <2>1, <2>4, NotOwnShown, Zenon DEF Own
    <3>2. unreported'[p] = unreported[p]
      BY <1>6, <2>2, <2>4, Zenon
    <3>3. Phantom(p, b)'
      BY <1>1, <1>2, <1>3, <1>8, <1>9, <3>1, <3>2, Zenon DEF Phantom
    <3>4. Missing(p, b)'
      BY <1>1, <1>2, <1>3, <1>6, <1>8, <1>9, <3>1, Zenon DEF Missing
    <3>. QED  BY <3>3, <3>4, Zenon
  <2>5. ASSUME NEW q \in Pids, NEW a \in Addrs, ~ (q = p /\ a = b), ~ (q = r /\ a = b)
        PROVE  /\ a \in unreported[q] => a \in unreported'[q]
               /\ a \in forgotten[q] => a \in forgotten'[q]
               /\ Shown(q, a)' <=> Shown(q, a)
    BY <1>6, <2>1, <2>5, Zenon
  <2>6. \A q \in Pids, a \in Addrs :
          (q = p /\ a = b) \/ (q = r /\ a = b) => Phantom(q, a)' /\ Missing(q, a)'
    BY <2>3, <2>4, Zenon
  <2>. QED  BY <1>1, <1>2, <1>7, <2>5, <2>6, TurnAt, Zenon DEF Same
<1>. QED  BY <1>4, <1>10, <1>11, Zenon

\* A child begins with its parent's set and identifier, in none of its hooks, and the
\* worker has nothing of it.
LEMMA ForkKeeps ==
  ASSUME HeapInv, NEW t \in Threads, NEW c \in Threads, NEW q \in Pids, NEW p, proc[t] = p,
         HookFork(t, c, q)
  PROVE  HeapInv'
<1>1. HeapType /\ HookInv /\ PidInv /\ PhantomInv /\ MissingInv
  BY Zenon DEF HeapInv
<1>2. /\ p \in Pids /\ p \in started /\ proc[c] = None /\ q \notin started
      /\ pc[c] = "idle" /\ None \notin Pids
  BY <1>1, TrackerAssumption, Zenon DEF HookFork, Fork, Call, HeapType, HookInv
<1>3. /\ proc' = [proc EXCEPT ![c] = q] /\ started' = started \cup {q}
      /\ in_use' = [in_use EXCEPT ![q] = in_use[p]] /\ tracked' = [tracked EXCEPT ![q] = tracked[p]]
      /\ track_deallocations' = [track_deallocations EXCEPT ![q] = track_deallocations[p]]
      /\ pid' = [pid EXCEPT ![q] = pid[p]] /\ forgotten' = [forgotten EXCEPT ![q] = tracked[p]]
      /\ announced' = announced \cup {q}
      /\ UNCHANGED <<pc, op, ptr, addr, res, ring, live, unreported>>
  BY Zenon DEF HookFork, Fork, hook, liveVars
<1>4. HeapType'
  BY <1>1, <1>2, <1>3, Zenon DEF HeapType
<1>5. /\ \A x \in Pids \ {q} :
           /\ in_use'[x] = in_use[x] /\ tracked'[x] = tracked[x] /\ pid'[x] = pid[x]
           /\ track_deallocations'[x] = track_deallocations[x] /\ forgotten'[x] = forgotten[x]
      /\ tracked'[q] = forgotten'[q] /\ pid'[q] = pid[p]
      /\ proc'[c] = q /\ \A u \in Threads \ {c} : proc'[u] = proc[u]
  BY <1>1, <1>2, <1>3, Zenon DEF HeapType
<1>6. \A u \in Threads : proc[u] # q /\ (proc[u] # None => proc[u] \in Pids \ {q})
  BY <1>1, <1>2, Zenon DEF HookInv, HeapType
<1>7. HookInv'
  <2>1. \A u \in Threads : (Holds(u)' <=> Holds(u)) /\ ~ Holds(c)
    BY <1>2, <1>3, Zenon DEF Holds
  <2>2. ASSUME NEW u \in Threads
        PROVE  /\ proc'[u] = None => pc'[u] = "idle"
               /\ proc'[u] # None => proc'[u] \in started'
               /\ Holds(u)' => ptr'[u] \in in_use'[proc'[u]]
    <3>1. CASE u = c
      BY <1>2, <1>3, <1>5, <2>1, <3>1, SMTT(20)
    <3>2. CASE u # c
      <4>1. /\ proc[u] = None => pc[u] = "idle"
            /\ proc[u] # None => proc[u] \in started
            /\ Holds(u) => ptr[u] \in in_use[proc[u]] /\ pc[u] # "idle"
        BY <1>1, Zenon DEF HookInv, Holds
      <4>. QED  BY <1>3, <1>5, <1>6, <2>1, <3>2, <4>1, SMTT(20)
    <3>. QED  BY <3>1, <3>2, Zenon
  <2>3. ASSUME NEW u \in Threads, NEW v \in Threads, proc'[u] = proc'[v], Holds(u)', Holds(v)',
               ptr'[u] = ptr'[v]
        PROVE  u = v
    BY <1>1, <1>3, <1>5, <2>1, <2>3, SMTT(20) DEF HookInv
  <2>. QED  BY <1>1, <1>3, <2>2, <2>3, Zenon DEF HookInv
<1>8. PidInv'
  <2>1. Own \subseteq Own'
    BY <1>2, <1>3, <1>5, SMTT(20) DEF Own, HeapType
  <2>2. pid[p] \in Own
    BY <1>1, <1>2, Zenon DEF PidInv
  <2>3. \A x \in Pids : IF x \in started' THEN pid'[x] \in Own' ELSE pid'[x] = x
    BY <1>1, <1>3, <1>5, <2>1, <2>2, Zenon DEF PidInv
  <2>4. \A i \in 1 .. Len(ring') : ring'[i].pid \in Own'
    BY <1>1, <1>3, <2>1, Zenon DEF PidInv
  <2>5. \A x \in Pids : LiveAddrs(live[x])' # {} => x \in Own'
    BY <1>1, <1>3, <2>1, Zenon DEF PidInv, LiveAddrs
  <2>. QED  BY <2>3, <2>4, <2>5, Zenon DEF PidInv
<1>9. ASSUME NEW x \in Pids, NEW a \in Addrs
      PROVE  Phantom(x, a)' /\ Missing(x, a)'
  <2>1. Shown(x, a)' <=> Shown(x, a)
    BY <1>3, ShownKept, Zenon
  <2>2. CASE x = q
    <3>1. ~ Shown(x, a)
      BY <1>1, <1>2, <2>2, NotOwnShown, Zenon DEF Own
    <3>2. \A u \in Threads : ~ Adding(u, x, a)'
      BY <1>2, <1>3, <1>5, <1>6, <2>2, Zenon DEF Adding
    <3>. QED  BY <1>5, <2>1, <2>2, <3>1, <3>2, Zenon DEF Phantom, Missing
  <2>3. CASE x # q
    <3>1. \A u \in Threads :
            /\ Removing(u, x, a)' <=> Removing(u, x, a)
            /\ Adding(u, x, a)' <=> Adding(u, x, a)
            /\ Adding(u, x, a) /\ pc'[u] = "push_alloc" => pc[u] = "push_alloc"
      BY <1>2, <1>3, <1>5, <2>3, Zenon DEF Removing, Adding
    <3>2. Quiet(x, a)
      BY <1>3, <1>5, <2>1, <2>3, <3>1, Zenon DEF Quiet, Same
    <3>. QED  BY <1>1, <3>2, EachAddress, QuietKeeps, Zenon
  <2>. QED  BY <2>2, <2>3, Zenon
<1>10. PhantomInv' /\ MissingInv'
  BY <1>4, <1>9, AllAddresses, Zenon
<1>. QED  BY <1>4, <1>7, <1>8, <1>10, Zenon DEF HeapInv

\* A process that ends leaves nothing to be held to.
LEMMA ExitKeeps ==
  ASSUME HeapInv, NEW p \in Pids, ProcessExit(p)
  PROVE  HeapInv'
<1>1. HeapType /\ HookInv /\ PidInv /\ PhantomInv /\ MissingInv
  BY Zenon DEF HeapInv
<1>2. p \in started /\ None \notin Pids
  BY <1>1, TrackerAssumption, Zenon DEF ProcessExit, Library, Exit, Alive, HookInv
<1>3. /\ proc' = [t \in Threads |-> IF proc[t] = p THEN None ELSE proc[t]]
      /\ Return({t \in Threads : proc[t] = p})
      /\ in_use' = [in_use EXCEPT ![p] = {}] /\ tracked' = [tracked EXCEPT ![p] = {}]
      /\ track_deallocations' = [track_deallocations EXCEPT ![p] = FALSE]
      /\ pid' = [pid EXCEPT ![p] = p] /\ unreported' = [unreported EXCEPT ![p] = {}]
      /\ forgotten' = [forgotten EXCEPT ![p] = {}]
      /\ UNCHANGED <<started, ring, live, announced>>
  BY Zenon DEF ProcessExit, Library, Exit, liveVars
<1>4. /\ \A u \in Threads : proc[u] = p =>
           /\ proc'[u] = None /\ pc'[u] = "idle" /\ op'[u] = "none" /\ ptr'[u] = Null
           /\ addr'[u] = Null
      /\ \A u \in Threads : proc[u] # p =>
           /\ proc'[u] = proc[u] /\ pc'[u] = pc[u] /\ op'[u] = op[u] /\ ptr'[u] = ptr[u]
           /\ addr'[u] = addr[u] /\ res'[u] = res[u]
  BY <1>3, Zenon DEF Return
<1>5. HeapType'
  <2>1. HookTypes'
    BY <1>1, <1>3, Zenon DEF HeapType, HookTypes, Return
  <2>2. proc' \in [Threads -> Pids \cup {None}]
    BY <1>1, <1>3, Zenon DEF HeapType
  <2>. QED  BY <1>1, <1>3, <2>1, <2>2, Zenon DEF HeapType, HookTypes
<1>6. \A x \in Pids \ {p} :
        /\ in_use'[x] = in_use[x] /\ tracked'[x] = tracked[x] /\ pid'[x] = pid[x]
        /\ track_deallocations'[x] = track_deallocations[x] /\ forgotten'[x] = forgotten[x]
        /\ unreported'[x] = unreported[x]
  BY <1>3, SMTT(20) DEF HeapType
<1>7. HookInv'
  <2>1. \A u \in Threads : (proc[u] = p => ~ Holds(u)') /\ (proc[u] # p => (Holds(u)' <=> Holds(u)))
    BY <1>4, Zenon DEF Holds
  <2>2. ASSUME NEW u \in Threads
        PROVE  /\ proc'[u] = None => pc'[u] = "idle"
               /\ proc'[u] # None => proc'[u] \in started'
               /\ pc'[u] \in {"add", "push_alloc"} => op'[u] = "alloc"
               /\ pc'[u] \in {"remove", "push_dealloc", "ref"} => op'[u] # "alloc"
               /\ pc'[u] # "idle" /\ op'[u] # "alloc" =>
                    op'[u] \in {"free", "dallocx", "realloc"} /\ ptr'[u] # Null
               /\ pc'[u] = "idle" => op'[u] = "none"
               /\ addr'[u] \in IF op'[u] = "alloc" THEN {ptr'[u], Null} ELSE {Null}
               /\ Holds(u)' => ptr'[u] \in in_use'[proc'[u]]
    <3>1. CASE proc[u] = p
      BY <1>4, <2>1, <3>1, Zenon
    <3>2. CASE proc[u] # p
      <4>1. /\ proc[u] = None => pc[u] = "idle"
            /\ proc[u] # None => proc[u] \in started
            /\ pc[u] \in {"add", "push_alloc"} => op[u] = "alloc"
            /\ pc[u] \in {"remove", "push_dealloc", "ref"} => op[u] # "alloc"
            /\ pc[u] # "idle" /\ op[u] # "alloc" =>
                 op[u] \in {"free", "dallocx", "realloc"} /\ ptr[u] # Null
            /\ pc[u] = "idle" => op[u] = "none"
            /\ addr[u] \in IF op[u] = "alloc" THEN {ptr[u], Null} ELSE {Null}
            /\ Holds(u) => ptr[u] \in in_use[proc[u]] /\ pc[u] # "idle"
        BY <1>1, Zenon DEF HookInv, Holds
      <4>2. Holds(u) => proc[u] \in Pids \ {p}
        BY <1>1, <3>2, <4>1, Zenon DEF HeapType
      <4>3. Holds(u)' => ptr'[u] \in in_use'[proc'[u]]
        BY <1>4, <1>6, <2>1, <3>2, <4>1, <4>2, Zenon
      <4>. QED  BY <1>3, <1>4, <3>2, <4>1, <4>3, Zenon
    <3>. QED  BY <3>1, <3>2, Zenon
  <2>3. ASSUME NEW u \in Threads, NEW v \in Threads, proc'[u] = proc'[v], Holds(u)', Holds(v)',
               ptr'[u] = ptr'[v]
        PROVE  u = v
    BY <1>1, <1>4, <2>1, <2>3, Zenon DEF HookInv
  <2>. QED  BY <2>2, <2>3, Zenon DEF HookInv
<1>8. PidInv'
  <2>1. Own \subseteq Own' /\ p \in Own'
    BY <1>1, <1>2, <1>3, Zenon DEF Own, HeapType
  <2>2. \A x \in Pids : IF x \in started' THEN pid'[x] \in Own' ELSE pid'[x] = x
    BY <1>1, <1>3, <1>6, <2>1, Zenon DEF PidInv, HeapType
  <2>3. \A i \in 1 .. Len(ring') : ring'[i].pid \in Own'
    BY <1>1, <1>3, <2>1, Zenon DEF PidInv
  <2>4. \A x \in Pids : LiveAddrs(live[x])' # {} => x \in Own'
    BY <1>1, <1>3, <2>1, Zenon DEF PidInv, LiveAddrs
  <2>. QED  BY <2>2, <2>3, <2>4, Zenon DEF PidInv
<1>9. ASSUME NEW x \in Pids, NEW a \in Addrs
      PROVE  Phantom(x, a)' /\ Missing(x, a)'
  <2>1. Shown(x, a)' <=> Shown(x, a)
    BY <1>3, ShownKept, Zenon
  <2>2. CASE x = p
    <3>1. ~ track_deallocations'[x]
      BY <1>1, <1>3, <2>2, Zenon DEF HeapType
    <3>. QED  BY <3>1, Zenon DEF Phantom, Missing
  <2>3. CASE x # p
    <3>1. \A u \in Threads :
            /\ Removing(u, x, a)' <=> Removing(u, x, a)
            /\ Adding(u, x, a)' <=> Adding(u, x, a)
            /\ Adding(u, x, a) /\ pc'[u] = "push_alloc" => pc[u] = "push_alloc"
      BY <1>2, <1>4, <2>3, SMTT(20) DEF Removing, Adding
    <3>2. Quiet(x, a)
      BY <1>6, <2>1, <2>3, <3>1, Zenon DEF Quiet, Same
    <3>. QED  BY <1>1, <3>2, EachAddress, QuietKeeps, Zenon
  <2>. QED  BY <2>2, <2>3, Zenon
<1>10. PhantomInv' /\ MissingInv'
  BY <1>5, <1>9, AllAddresses, Zenon
<1>. QED  BY <1>5, <1>7, <1>8, <1>10, Zenon DEF HeapInv

-----------------------------------------------------------------------------
(* The theorems *)

\* The library is loaded, no process has an allocation, and the worker has none.
LEMMA HeapInit ==
  ASSUME Init  PROVE HeapInv
<1>1. /\ ring = <<>> /\ live = [p \in Pids |-> NoAllocations]
      /\ started = {Root} /\ pid = [p \in Pids |-> p] /\ tracked = [p \in Pids |-> {}]
      /\ \A t \in Threads : pc[t] = "idle" /\ op[t] = "none" /\ ptr[t] = Null /\ addr[t] = Null
      /\ \A t \in Threads : proc[t] \in {Root, None}
  BY Zenon DEF Init, TrackerInit, LiveInit
<1>2. Root \in Pids /\ None \notin Pids /\ Len(ring) = 0 /\ ring \in Seq(Events)
  BY <1>1, TrackerAssumption, SMTT(20)
<1>3. HeapType
  BY <1>2, Zenon DEF Init, TrackerInit, HeapType
<1>4. HookInv
  BY <1>1, Zenon DEF HookInv, Holds
<1>5. \A p \in Pids : LiveAddrs(live[p]) = {}
  BY <1>1, Zenon DEF LiveAddrs, NoAllocations
<1>6. PidInv
  BY <1>1, <1>2, <1>5, SMTT(20) DEF PidInv, Own
<1>7. /\ \A p \in Pids, a \in Addrs : ~ Shown(p, a)
      /\ \A t \in Threads, p \in Pids, a \in Addrs : ~ Adding(t, p, a)
  BY <1>1, <1>2, <1>5, SMTT(20) DEF Shown, Adding
<1>8. PhantomInv /\ MissingInv
  BY <1>1, <1>7, Zenon DEF PhantomInv, MissingInv
<1>. QED  BY <1>3, <1>4, <1>6, <1>8, Zenon DEF HeapInv

\* Every step of the composition is one of the worker's own steps, or leaves its record.
LEMMA RecordStep ==
  ASSUME HeapType, [Next]_vars  PROVE [LiveNext]_liveVars
<1>1. CASE UNCHANGED vars
  BY <1>1, Zenon DEF vars
<1>2. ASSUME NEW t \in Threads,
             \/ HookAdd(t) \/ HookRemove(t) \/ HookPushAlloc(t) \/ HookPushDealloc(t) \/ HookOther(t)
             \/ \E c \in Threads, q \in Pids : HookFork(t, c, q)
      PROVE  UNCHANGED liveVars
  BY <1>2, Zenon
     DEF HookAdd, HookRemove, HookPushAlloc, HookPushDealloc, HookOther, HookFork, Library
<1>3. CASE ReadSample
  <2>. DEFINE e == Head(ring)
  <2>1. e \in Events /\ e.type = "sample"
    BY <1>3, FirstEvent, Zenon DEF ReadSample
  <2>2. /\ e.pid \in Pids /\ e.addr \in Addrs \cup {Null} /\ e.sample.stack \in Stacks \cup {NoStack}
        /\ e.sample.value \in Values
    BY <2>1, SamplesAssumption, Zenon DEF Events
  <2>3. \E inconsistent \in BOOLEAN :
          ddprof_pr_sample(e.pid, e.addr, e.sample.stack, e.sample.value, inconsistent)
    BY <1>3, Zenon DEF ReadSample, Worker
  <2>. HIDE DEF e
  <2>. QED  BY <2>2, <2>3, Zenon DEF LiveNext
<1>4. CASE ReadDeallocation
  <2>. DEFINE e == Head(ring)
  <2>1. e \in Events /\ e.type = "deallocation"
    BY <1>4, FirstEvent, Zenon DEF ReadDeallocation
  <2>2. e.pid \in Pids /\ e.addr \in Addrs
    BY <2>1, Zenon DEF Events
  <2>3. ddprof_pr_deallocation(e.pid, e.addr)
    BY <1>4, Zenon DEF ReadDeallocation, Worker
  <2>. HIDE DEF e
  <2>. QED  BY <2>2, <2>3, Zenon DEF LiveNext
<1>5. CASE Cycle \/ Restart
  BY <1>5, Zenon DEF Cycle, Restart, Worker, LiveNext
<1>6. ASSUME NEW p \in Pids, ProcessExit(p) \/ NewMapping(p) \/ ForkRecord(p)
      PROVE  [LiveNext]_liveVars
  BY <1>6, Zenon DEF ProcessExit, NewMapping, ForkRecord, Library, Worker, LiveNext
<1>7. ASSUME NEW p \in Pids, OtherSample(p)  PROVE LiveNext
  <2>1. PICK inconsistent \in BOOLEAN, s \in Samples :
          ddprof_pr_sample(p, Null, s.stack, s.value, inconsistent)
    BY <1>7, Zenon DEF OtherSample, Worker
  <2>2. s.stack \in Stacks \cup {NoStack} /\ s.value \in Values
    BY SamplesAssumption, Zenon
  <2>. QED  BY <2>1, <2>2, Zenon DEF LiveNext
<1>. QED  BY <1>1, <1>2, <1>3, <1>4, <1>5, <1>6, <1>7, Zenon DEF Next

\* Every step of the hooks, the processes and the worker keeps the invariant.
LEMMA HeapStep ==
  ASSUME HeapInv, LiveInv, [Next]_vars  PROVE HeapInv'
<1>1. CASE UNCHANGED vars
  <2>2. /\ UNCHANGED <<proc, started, in_use, pid, tracked, track_deallocations, pc, op, ptr, addr,
                       res, ring, live, announced, unreported, forgotten>>
    BY <1>1, Zenon DEF vars, trackerVars, liveVars, history, tracker, hook
  <2>3. HeapType' /\ HookInv'
    BY <2>2, Zenon DEF HeapInv, HeapType, HookInv, Holds
  <2>4. PidInv'
    BY <2>2, Zenon DEF HeapInv, PidInv, Own, LiveAddrs
  <2>5. ASSUME NEW p \in Pids, NEW a \in Addrs  PROVE Phantom(p, a)' /\ Missing(p, a)'
    <3>1. Shown(p, a)' <=> Shown(p, a)
      BY <2>2, ShownKept, Zenon
    <3>2. Quiet(p, a)
      BY <2>2, <3>1, Zenon DEF Quiet, Same, Removing, Adding
    <3>. QED  BY <3>2, EachAddress, QuietKeeps, Zenon DEF HeapInv
  <2>. QED  BY <2>3, <2>4, <2>5, AllAddresses, Zenon DEF HeapInv
<1>2. ASSUME NEW t \in Threads,
             \/ HookAdd(t) \/ HookRemove(t) \/ HookPushAlloc(t) \/ HookPushDealloc(t) \/ HookOther(t)
             \/ \E c \in Threads, q \in Pids : HookFork(t, c, q)
      PROVE  HeapInv'
  <2>1. PICK p : proc[t] = p
    BY Zenon
  <2>2. CASE HookAdd(t)
    BY <2>1, <2>2, AddKeeps, Zenon
  <2>3. CASE HookRemove(t)
    BY <2>1, <2>3, RemoveKeeps, Zenon
  <2>4. CASE HookPushAlloc(t)
    BY <2>1, <2>4, PushAllocKeeps, Zenon
  <2>5. CASE HookPushDealloc(t)
    BY <2>1, <2>5, PushDeallocKeeps, Zenon
  <2>6. CASE HookOther(t)
    <3>1. UNCHANGED <<live, unreported, forgotten, announced>>
      BY <2>6, Zenon DEF HookOther, Library, liveVars, history
    <3>2. \/ AllocHook(t) \/ FreeHook(t) \/ Pushed(t) \/ Ref(t)
          \/ allocation_tracking_free(t) \/ notify_fork(t)
      BY <2>6, Zenon DEF HookOther, Library
    <3>3. CASE Pushed(t) /\ op[t] = "alloc" /\ res[t] # "ok"
      BY <2>1, <3>1, <3>3, TakenBack, Zenon
    <3>4. CASE ~ (Pushed(t) /\ op[t] = "alloc" /\ res[t] # "ok")
      BY <2>1, <3>1, <3>2, <3>4, OtherKeeps, Zenon
    <3>. QED  BY <3>3, <3>4, Zenon
  <2>7. ASSUME NEW c \in Threads, NEW q \in Pids, HookFork(t, c, q)  PROVE HeapInv'
    BY <2>1, <2>7, ForkKeeps, Zenon
  <2>. QED  BY <1>2, <2>2, <2>3, <2>4, <2>5, <2>6, <2>7, Zenon
<1>3. ASSUME NEW p \in Pids, ProcessExit(p)  PROVE HeapInv'
  BY <1>3, ExitKeeps, Zenon
<1>4. CASE \/ ReadSample \/ ReadDeallocation \/ Restart \/ Cycle
           \/ \E p \in Pids : OtherSample(p) \/ NewMapping(p) \/ ForkRecord(p)
  <2>1. HeapType /\ PidInv
    BY Zenon DEF HeapInv
  <2>2. WorkerEffect
    BY <1>4, <2>1, ReadSampleEffect, ReadDeallocationEffect, RestartEffect, OtherWorkerEffect, Zenon
  <2>. QED  BY <2>2, WorkerKeeps, Zenon
<1>. QED  BY <1>1, <1>2, <1>3, <1>4, Zenon DEF Next

\* What the worker does with the events of the processes, in whatever order the hooks of
\* their threads report them and whatever is lost, is what LiveAllocation says of it.
THEOREM RecordImplements == Spec => LiveSpec
<1>1. Init => LiveInit /\ HeapInv /\ LiveInv
  BY HeapInit, LiveInitInv, Zenon DEF Init
<1>2. HeapInv /\ LiveInv /\ [Next]_vars => HeapInv' /\ LiveInv' /\ [LiveNext]_liveVars
  BY HeapStep, RecordStep, LiveStep, Zenon DEF HeapInv
<1>. QED  BY <1>1, <1>2, PTL DEF Spec, LiveSpec

\* The invariant of the composition and that of the record hold throughout.
LEMMA HeapInvariant == Spec => [](HeapInv /\ LiveInv)
<1>1. Init => HeapInv /\ LiveInv
  BY HeapInit, LiveInitInv, Zenon DEF Init
<1>2. HeapInv /\ LiveInv /\ [Next]_vars => HeapInv' /\ LiveInv'
  BY HeapStep, RecordStep, LiveStep, Zenon DEF HeapInv
<1>. QED  BY <1>1, <1>2, PTL DEF Spec

\* An address that the worker shows as live is in the set of its process, whatever the
\* threads of the processes and the worker do and in whatever order, unless its
\* deallocation is on its way, was lost, or will not be reported.
THEOREM NoPhantomShown == Spec => []NoPhantom
<1>1. ASSUME HeapInv  PROVE NoPhantom
  <2>1. ASSUME NEW p \in Pids, NEW a \in LiveAddrs(live[p]), a \notin Reported(ring, "deallocation", p)
        PROVE  a \in Addrs /\ Shown(p, a)
    <3>1. a \in Addrs
      BY Zenon DEF LiveAddrs
    <3>2. \A j \in 1 .. Len(ring) : ~ Is(ring[j], "deallocation", p, a)
      BY <2>1, Zenon DEF Reported, Is
    <3>. QED  BY <2>1, <3>1, <3>2, Zenon DEF Shown
  <2>. QED  BY <1>1, <2>1, Zenon DEF HeapInv, PhantomInv, NoPhantom
<1>. QED  BY <1>1, HeapInvariant, PTL

\* An address of the set is live for the worker, unless its allocation is on its way or
\* the worker lost it: with its own restart, with a process it forgot, with a stack that
\* has no frames, or by a deallocation that overtook the allocation.
THEOREM NoneIsMissing == Spec => []NoneMissing
<1>1. ASSUME HeapInv  PROVE NoneMissing
  <2>1. ASSUME NEW p \in Pids, NEW a, Shown(p, a)
        PROVE  a \in LiveAddrs(live[p]) \cup Reported(ring, "sample", p)
    BY <2>1, Zenon DEF Shown, Reported, Is
  <2>. QED  BY <1>1, <2>1, Zenon DEF HeapInv, MissingInv, NoneMissing
<1>. QED  BY <1>1, HeapInvariant, PTL
=============================================================================
