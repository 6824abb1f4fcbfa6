------------------------- MODULE AddressTableProofs -------------------------
(***************************************************************************)
(* Proofs about AddressTable, for any threads, addresses, hash, size of    *)
(* the tables and probe distance, and any allocations that fail: remove    *)
(* finds exactly what add stored (RemoveFindsTracked) and the count        *)
(* follows the slots and the null pointers (CountMatches).                 *)
(***************************************************************************)
EXTENDS AddressTable, FiniteSetTheorems, TLAPS

Pcs == {"idle", "load", "create", "install", "capacity", "probe", "claim",
        "reload", "increment", "erase", "decrement"}

\* The states in which a thread uses a table that is installed, and those in
\* which it is looking at a slot of it.
Using == {"capacity", "probe", "claim", "reload", "increment", "erase", "decrement"}
Looking == {"probe", "claim", "reload"}
Adding == {"create", "install", "capacity", "claim", "reload", "increment"}

TablesTyped ==
  /\ setup \in Setups
  /\ chunk_tables \in [Chunks -> TableIds \cup {NoTable}]
  /\ slots \in [TableIds -> [Slots -> Addr \cup {Empty, Deleted}]]
  /\ count \in [TableIds -> Int]
  /\ nulls \in [TableIds -> Nat]

CallsTyped ==
  /\ pc \in [Threads -> Pcs]
  /\ op \in [Threads -> {"add", "remove"}]
  /\ addr \in [Threads -> Pointers]
  /\ table \in [Threads -> TableIds \cup {NoTable}]
  /\ slot \in [Threads -> Slots]
  /\ probe \in [Threads -> Nat]
  /\ current \in [Threads -> {Empty, Deleted}]
  /\ life \in [Addr -> {"free", "busy", "live"}]
  /\ tracked \subseteq Addr
  /\ wrong \in BOOLEAN

TypeInv == TablesTyped /\ CallsTyped

\* How far slot s is along the probe sequence that starts at h, in a table of
\* n slots.
Dist(n, h, s) == IF s >= h THEN s - h ELSE s - h + n

\* The slots of tb before distance d of h's probe sequence are in use or were.
Passed(tb, n, h, d) == \A s \in 0 .. n - 1 : Dist(n, h, s) < d => tb[s] # Empty

\* Where thread t is in its call.
FlowAt(t) ==
  /\ pc[t] \in {"idle", "load", "create", "install", "capacity"} => probe[t] = 0
  /\ pc[t] \in {"create", "install", "capacity"} => slot[t] = Home[addr[t]]
  /\ pc[t] = "install" => table[t] \in TableIds
  /\ pc[t] \in Using =>
       table[t] = chunk_tables[Chunk[addr[t]]] /\ table[t] \in TableIds
  /\ pc[t] \in Adding => op[t] = "add"
  /\ pc[t] \in {"erase", "decrement"} => op[t] = "remove"
  /\ pc[t] \in Looking =>
       /\ probe[t] < MaxProbe
       /\ Dist(TableSize, Home[addr[t]], slot[t]) <= probe[t]
       /\ probe[t] < TableSize => Dist(TableSize, Home[addr[t]], slot[t]) = probe[t]
  /\ op[t] = "remove" => addr[t] \in Addr

\* What thread t knows of the slots it has looked at, as long as no null pointer
\* took the place of a tombstone.
SeenAt(t) ==
  /\ pc[t] \in Looking => Passed(slots[table[t]], TableSize, Home[addr[t]], probe[t])
  /\ pc[t] = "claim" /\ current[t] = Deleted => slots[table[t]][slot[t]] # Empty
  /\ pc[t] = "reload" => slots[table[t]][slot[t]] # Empty

SeenInv == \A t \in Threads : SeenAt(t)

FlowInv == \A t \in Threads : FlowAt(t)

\* The place of address a: in the table of its chunk, where its probe sequence
\* leads, and no slot before it is empty.
Reached(i, s, a) ==
  /\ i = chunk_tables[Chunk[a]]
  /\ Dist(TableSize, Home[a], s) < MaxProbe
  /\ Passed(slots[i], TableSize, Home[a], Dist(TableSize, Home[a], s))

ReachInv ==
  \A i \in TableIds, s \in Slots, a \in Addr : slots[i][s] = a => Reached(i, s, a)

\* The count of table i and of what the calls under way will add to it.
Sum(i) == count[i] + Cardinality(At(i, "increment")) - Cardinality(At(i, "decrement"))

CountInv ==
  \A i \in TableIds :
    Sum(i) % CountModulus = (Cardinality(Held(i)) + nulls[i]) % CountModulus

\* Address a is in a slot.
Stored(a) == \E i \in TableIds, s \in Slots : slots[i][s] = a

\* Without early reuse the calls on one address follow each other.
TurnInv ==
  /\ \A t, u \in Threads :
       pc[t] # "idle" /\ pc[u] # "idle" /\ addr[t] = addr[u] /\ addr[t] \in Addr => t = u
  /\ \A t \in Threads : pc[t] # "idle" /\ addr[t] \in Addr => life[addr[t]] = "busy"
  /\ \A a \in Addr : life[a] = "free" => a \notin tracked

\* No address is in two slots.
UniqueInv ==
  \A a \in Addr, i, j \in TableIds, r, s \in Slots :
    slots[i][r] = a /\ slots[j][s] = a => i = j /\ r = s

\* What a call on address a knows of it.
OnceAt(t, a) ==
  /\ pc[t] # "idle" /\ op[t] = "add" => a \notin tracked
  /\ pc[t] = "increment" => Stored(a)
  /\ pc[t] = "erase" => slots[table[t]][slot[t]] = a
  /\ pc[t] = "decrement" => a \in tracked /\ ~Stored(a)
  /\ pc[t] = "probe" /\ op[t] = "remove" =>
       \A s \in Slots : slots[table[t]][s] = a => probe[t] <= Dist(TableSize, Home[a], s)

\* The call on a has changed the slot and not yet returned.
Between(a) == \E t \in Threads : addr[t] = a /\ pc[t] \in {"increment", "decrement"}

\* Without early reuse an address is in at most one slot, and in one exactly
\* when it is tracked, up to the calls that have changed the slot and not yet
\* returned.
OnceInv ==
  /\ UniqueInv
  /\ \A t \in Threads, a \in Addr : addr[t] = a => OnceAt(t, a)
  /\ \A a \in Addr : ~Between(a) => (Stored(a) <=> a \in tracked)
  /\ ~wrong

IInv ==
  /\ TypeInv /\ FlowInv /\ CountInv
  /\ ~emptied => SeenInv /\ ReachInv
  /\ ~EarlyReuse => TurnInv
  /\ ~EarlyReuse /\ ~emptied => OnceInv

-----------------------------------------------------------------------------
(* Probe sequences *)

\* The slot after s, as NextSlot computes it: the next one, or the first.
LEMMA Successor ==
  ASSUME NEW n \in Nat \ {0}, NEW s \in 0 .. n - 1
  PROVE  (s + 1) % n = IF s + 1 = n THEN 0 ELSE s + 1
<1>1. CASE s + 1 = n
  <2>1. n % n = 0
    OBVIOUS
  <2>. QED  BY <1>1, <2>1, Zenon
<1>2. CASE s + 1 # n
  <2>1. s + 1 \in 0 .. n - 1
    BY <1>2
  <2>2. \A x \in 0 .. n - 1 : x % n = x
    OBVIOUS
  <2>. QED  BY <1>2, <2>1, <2>2, Zenon
<1>. QED  BY <1>1, <1>2, Zenon

\* NextSlot moves one slot further along the probe sequence.
LEMMA Further ==
  ASSUME NEW n \in Nat \ {0}, NEW h \in 0 .. n - 1, NEW s \in 0 .. n - 1
  PROVE  /\ (s + 1) % n \in 0 .. n - 1
         /\ Dist(n, h, s) + 1 < n => Dist(n, h, (s + 1) % n) = Dist(n, h, s) + 1
<1>. (s + 1) % n = IF s + 1 = n THEN 0 ELSE s + 1
  BY Successor, Zenon
<1>. QED  BY DEF Dist

\* Distances are bounded by the size of the table and tell slots apart.
LEMMA DistIs ==
  ASSUME NEW n \in Nat \ {0}, NEW h \in 0 .. n - 1, NEW s \in 0 .. n - 1
  PROVE  /\ Dist(n, h, s) \in 0 .. n - 1
         /\ Dist(n, h, h) = 0
         /\ \A r \in 0 .. n - 1 : Dist(n, h, r) = Dist(n, h, s) => r = s
BY DEF Dist

-----------------------------------------------------------------------------
(* The setup *)

\* What the assumptions say of the setup in use.
SetupInv ==
  /\ TableSize \in Nat \ {0} /\ TableSize < CountModulus /\ MaxProbe \in Nat \ {0}
  /\ Slots = 0 .. TableSize - 1 /\ Home \in [Pointers -> Slots]
  /\ \A a \in Pointers : a # Deleted /\ Chunk[a] \in Chunks
  /\ \A a \in Addr : a # Empty /\ a # Deleted /\ a \in Pointers
  /\ Pointers \subseteq Addr \cup {Empty}
  /\ NoTable \notin TableIds
  /\ \A t \in Threads, c \in Chunks : <<t, c>> \in TableIds

\* The assumptions hold of every setup.
LEMMA SetupIs ==
  ASSUME setup \in Setups
  PROVE  SetupInv
<1>1. /\ setup.size \in Nat \ {0} /\ setup.size < CountModulus /\ setup.probes \in Nat \ {0}
      /\ setup.home \in [DOMAIN setup.chunk -> 0 .. setup.size - 1]
      /\ Deleted \notin DOMAIN setup.chunk
  BY SetupsAssumption, Zenon
<1>2. /\ TableSize \in Nat \ {0} /\ TableSize < CountModulus /\ MaxProbe \in Nat \ {0}
  BY <1>1, Zenon DEF TableSize, MaxProbe
<1>3. Slots = 0 .. TableSize - 1 /\ Home \in [Pointers -> Slots]
  BY <1>1, Zenon DEF TableSize, Slots, Home, Pointers, Chunk
<1>4. /\ \A a \in Pointers : a # Deleted /\ Chunk[a] \in Chunks
      /\ \A a \in Addr : a # Empty /\ a # Deleted /\ a \in Pointers
      /\ Pointers \subseteq Addr \cup {Empty}
  BY <1>1, Zenon DEF Addr, Null, Pointers, Chunk, Chunks
<1>5. \A t \in Threads, c \in Chunks : <<t, c>> \in TableIds
  BY Zenon DEF TableIds
<1>6. NoTable \notin TableIds
  <2>. SUFFICES ASSUME NoTable \in TableIds  PROVE FALSE
    BY Zenon
  <2>1. PICK t \in Threads \cup {"init"}, c \in Chunks : NoTable = <<t, c>>
    BY DEF TableIds
  <2>. QED  BY <2>1, Zenon DEF NoTable
<1>. QED  BY <1>2, <1>3, <1>4, <1>5, <1>6, Zenon DEF SetupInv

\* The setup and what is read off it stay the same.
SameSetup ==
  /\ setup' = setup /\ TableSize' = TableSize /\ MaxProbe' = MaxProbe /\ Slots' = Slots
  /\ Home' = Home /\ Addr' = Addr /\ Pointers' = Pointers /\ Chunk' = Chunk /\ Chunks' = Chunks
  /\ TableIds' = TableIds /\ EarlyReuse' = EarlyReuse

\* Thread t starts a call.
Calls(t) == CallAddNull(t) \/ \E a \in Addr : CallAdd(t, a) \/ CallRemove(t, a)

\* No step changes the setup.
LEMMA SetupStays ==
  ASSUME [Next]_vars
  PROVE  SameSetup
<1>1. setup' = setup
  <2>1. CASE \E t \in Threads : Step(t)
    BY <2>1, Zenon DEF Step, LoadTable, CreateTable, InstallTable, CheckCapacity, ProbeAdd, Claim,
         Reload, Increment, ProbeRemove, Erase, Decrement, tables
  <2>2. CASE UNCHANGED vars \/ \E a \in Addr : Allocate(a)
    BY <2>2, Zenon DEF vars, tables, Allocate
  <2>3. CASE \E t \in Threads : Calls(t)
    BY <2>3, Zenon DEF Calls, CallAdd, CallAddNull, CallRemove, Call, tables
  <2>. QED  BY <2>1, <2>2, <2>3, Zenon DEF Next, Calls
<1>. QED  BY <1>1, Zenon DEF SameSetup, TableSize, MaxProbe, Slots, Home, Pointers, Addr, Chunk, Chunks,
            TableIds, EarlyReuse

-----------------------------------------------------------------------------
(* Types *)

\* A call returns.
LEMMA ReturnTyped ==
  ASSUME CallsTyped, SetupInv, SameSetup, NEW t \in Threads, NEW result \in BOOLEAN,
         Return(t, result)
  PROVE  CallsTyped'
<1>1. addr[t] \in Pointers /\ op[t] \in {"add", "remove"} /\ 0 \in Slots
  BY DEF CallsTyped, SetupInv
<1>2. (pc \in [Threads -> Pcs] /\ table \in [Threads -> TableIds \cup {NoTable}])'
  BY Zenon DEF CallsTyped, Return, Pcs, SameSetup
<1>3. (op \in [Threads -> {"add", "remove"}] /\ addr \in [Threads -> Pointers])'
  BY Zenon DEF CallsTyped, Return, SameSetup
<1>4. (slot \in [Threads -> Slots] /\ probe \in [Threads -> Nat])'
  BY <1>1, Zenon DEF CallsTyped, Return, SameSetup
<1>5. (current \in [Threads -> {Empty, Deleted}] /\ wrong \in BOOLEAN)'
  BY Zenon DEF CallsTyped, Return
<1>6. (life \in [Addr -> {"free", "busy", "live"}])'
  BY <1>1, Zenon DEF CallsTyped, Return, SameSetup
<1>7. (tracked \subseteq Addr)'
  BY <1>1, Zenon DEF CallsTyped, Return, SameSetup, Addr
<1>. QED  BY <1>2, <1>3, <1>4, <1>5, <1>6, <1>7, Zenon DEF CallsTyped

\* A call goes on to the next slot.
LEMMA NextSlotTyped ==
  ASSUME CallsTyped, SetupInv, SameSetup, NEW t \in Threads, NextSlot(t)
  PROVE  CallsTyped'
<1>1. CASE probe[t] + 1 = MaxProbe
  BY <1>1, ReturnTyped, Zenon DEF NextSlot
<1>2. CASE probe[t] + 1 # MaxProbe
  <2>1. (slot[t] + 1) % TableSize \in Slots
    <3>1. slot[t] \in 0 .. TableSize - 1 /\ TableSize \in Nat \ {0} /\ Slots = 0 .. TableSize - 1
      BY Zenon DEF CallsTyped, SetupInv
    <3>. QED  BY <3>1, Further, Zenon
  <2>2. probe[t] + 1 \in Nat
    BY DEF CallsTyped
  <2>3. (slot \in [Threads -> Slots] /\ probe \in [Threads -> Nat])'
    BY <1>2, <2>1, <2>2 DEF NextSlot, CallsTyped, SameSetup
  <2>4. (pc \in [Threads -> Pcs])'
    BY <1>2, Zenon DEF NextSlot, CallsTyped, Pcs
  <2>. QED  BY <1>2, <2>3, <2>4, Zenon DEF NextSlot, CallsTyped, SameSetup, client
<1>. QED  BY <1>1, <1>2, Zenon

\* A store to a slot.
LEMMA StoreTyped ==
  ASSUME TypeInv, NEW t \in Threads, NEW i \in TableIds, i = table[t],
         NEW v \in Addr \cup {Empty, Deleted},
         slots' = [slots EXCEPT ![table[t]][slot[t]] = v]
  PROVE  /\ slots' \in [TableIds -> [Slots -> Addr \cup {Empty, Deleted}]]
         /\ slots'[i][slot[t]] = v
         /\ \A j \in TableIds, s \in Slots :
              j # i \/ s # slot[t] => slots'[j][s] = slots[j][s]
<1>1. slot[t] \in Slots /\ slots[i] \in [Slots -> Addr \cup {Empty, Deleted}]
  BY Zenon DEF TypeInv, TablesTyped, CallsTyped
<1>2. [slots[i] EXCEPT ![slot[t]] = v] \in [Slots -> Addr \cup {Empty, Deleted}]
  BY <1>1, Zenon
<1>3. slots \in [TableIds -> [Slots -> Addr \cup {Empty, Deleted}]]
  BY Zenon DEF TypeInv, TablesTyped
<1>4. slots' = [slots EXCEPT ![i] = [slots[i] EXCEPT ![slot[t]] = v]]
  BY Zenon
<1>5. slots'[i] = [slots[i] EXCEPT ![slot[t]] = v] /\ \A j \in TableIds : j # i => slots'[j] = slots[j]
  BY <1>3, <1>4, Zenon
<1>6. slots'[i][slot[t]] = v /\ \A s \in Slots : s # slot[t] => slots'[i][s] = slots[i][s]
  BY <1>1, <1>5
<1>7. slots' \in [TableIds -> [Slots -> Addr \cup {Empty, Deleted}]]
  BY <1>2, <1>3, <1>4, Zenon
<1>. QED  BY <1>5, <1>6, <1>7, Zenon

\* The types are kept.
LEMMA TypeStep ==
  ASSUME TypeInv, FlowInv, [Next]_vars
  PROVE  TypeInv'
<1>1. SameSetup /\ SetupInv
  BY SetupStays, SetupIs, Zenon DEF TypeInv, TablesTyped
<1>2. SUFFICES TablesTyped' /\ CallsTyped'
  BY Zenon DEF TypeInv
<1>3. ASSUME UNCHANGED <<tables, ghosts>>  PROVE TablesTyped'
  BY <1>1, <1>3, Zenon DEF TypeInv, TablesTyped, tables, ghosts, SameSetup
<1>4. ASSUME NEW t \in Threads, Calls(t)
      PROVE  TablesTyped' /\ CallsTyped'
  <2>0. PICK o \in {"add", "remove"}, a \in Pointers : Call(t, o, a)
    BY <1>1, <1>4, Zenon DEF Calls, CallAdd, CallAddNull, CallRemove, SetupInv
  <2>1. TablesTyped'
    BY <1>3, <2>0, Zenon DEF Call
  <2>2. life' \in [Addr -> {"free", "busy", "live"}]
    BY <1>4, Zenon DEF Calls, CallAdd, CallAddNull, CallRemove, TypeInv, CallsTyped
  <2>3. op' \in [Threads -> {"add", "remove"}] /\ addr' \in [Threads -> Pointers] /\ pc' \in [Threads -> Pcs]
    BY <2>0, Zenon DEF Call, Goto, TypeInv, CallsTyped, Pcs
  <2>. QED  BY <1>1, <2>0, <2>1, <2>2, <2>3, Zenon DEF Call, TypeInv, CallsTyped, SameSetup
<1>5. ASSUME NEW a \in Addr, Allocate(a)  PROVE TablesTyped' /\ CallsTyped'
  BY <1>1, <1>3, <1>5, Zenon DEF Allocate, TypeInv, CallsTyped, SameSetup, locals
<1>6. ASSUME UNCHANGED vars  PROVE TablesTyped' /\ CallsTyped'
  BY <1>1, <1>3, <1>6, Zenon DEF vars, TypeInv, CallsTyped, SameSetup, locals, client
<1>7. ASSUME NEW t \in Threads, Step(t)  PROVE TablesTyped' /\ CallsTyped'
  <2>. FlowAt(t) /\ CallsTyped /\ TablesTyped
    BY Zenon DEF FlowInv, TypeInv
  <2>1. CASE LoadTable(t)
    <3>1. DEFINE i == chunk_tables[Chunk[addr[t]]]
    <3>2. i \in TableIds \cup {NoTable} /\ Home[addr[t]] \in Slots
      BY <1>1, Zenon DEF CallsTyped, TablesTyped, SetupInv
    <3>3. CASE i = NoTable /\ op[t] = "remove"
      BY <1>1, <1>3, <2>1, <3>3, ReturnTyped, Zenon DEF LoadTable
    <3>4. CASE ~(i = NoTable /\ op[t] = "remove")
      BY <1>1, <1>3, <2>1, <3>2, <3>4, Zenon DEF LoadTable, CallsTyped, SameSetup, Pcs, client
    <3>. QED  BY <3>3, <3>4, Zenon
  <2>2. CASE CreateTable(t)
    <3>1. <<t, Chunk[addr[t]]>> \in TableIds
      BY <1>1, Zenon DEF CallsTyped, SetupInv
    <3>. QED  BY <1>1, <1>3, <2>2, <3>1, Zenon DEF CreateTable, Goto, CallsTyped, SameSetup, Pcs, client, tables
  <2>3. CASE InstallTable(t)
    <3>1. table[t] \in TableIds /\ chunk_tables[Chunk[addr[t]]] \in TableIds \cup {NoTable}
      BY <1>1, <2>3, Zenon DEF InstallTable, Goto, FlowAt, CallsTyped, SetupInv, TablesTyped
    <3>2. TablesTyped'
      BY <1>1, <2>3, <3>1, Zenon DEF InstallTable, TablesTyped, SameSetup, ghosts
    <3>3. CallsTyped'
      BY <1>1, <2>3, <3>1, Zenon DEF InstallTable, Goto, CallsTyped, SameSetup, Pcs, client
    <3>. QED  BY <3>2, <3>3, Zenon
  <2>4. CASE CheckCapacity(t)
    BY <1>1, <1>3, <2>4, ReturnTyped, Zenon DEF CheckCapacity, CallsTyped, SameSetup, Pcs, client, locals
  <2>5. CASE ProbeAdd(t)
    <3>1. CASE NextSlot(t) \/ Return(t, FALSE)
      BY <1>1, <1>3, <2>5, <3>1, ReturnTyped, NextSlotTyped, Zenon DEF ProbeAdd
    <3>2. CASE ~(NextSlot(t) \/ Return(t, FALSE))
      BY <1>1, <1>3, <2>5, <3>2, Zenon DEF ProbeAdd, CallsTyped, SameSetup, Pcs, client
    <3>. QED  BY <3>1, <3>2, Zenon
  <2>6. CASE Claim(t)
    <3>1. CallsTyped'
      BY <1>1, <2>6, Zenon DEF Claim, CallsTyped, SameSetup, Pcs, client, locals
    <3>2. table[t] \in TableIds /\ addr[t] \in Addr \cup {Empty, Deleted}
      BY <1>1, <2>6, Zenon DEF Claim, FlowAt, CallsTyped, Using, SetupInv
    <3>3. slots' \in [TableIds -> [Slots -> Addr \cup {Empty, Deleted}]]
      BY <2>6, <3>2, StoreTyped, Zenon DEF Claim, TablesTyped
    <3>4. nulls' \in [TableIds -> Nat]
      <4>1. nulls \in [TableIds -> Nat] /\ \A k \in Nat : k + 1 \in Nat
        BY DEF TablesTyped
      <4>2. nulls' = nulls \/ nulls' = [nulls EXCEPT ![table[t]] = @ + 1]
        BY <2>6, Zenon DEF Claim, NullClaimed, ghosts
      <4>. QED  BY <3>2, <4>1, <4>2, Zenon
    <3>. QED  BY <1>1, <2>6, <3>1, <3>3, <3>4, Zenon DEF Claim, TablesTyped, SameSetup
  <2>7. CASE Reload(t)
    BY <1>1, <1>3, <2>7, ReturnTyped, NextSlotTyped, Zenon DEF Reload
  <2>8. CASE Increment(t) \/ Decrement(t)
    <3>1. CallsTyped'
      BY <1>1, <2>8, ReturnTyped, Zenon DEF Increment, Decrement
    <3>2. table[t] \in TableIds
      BY <2>8, Zenon DEF Increment, Decrement, FlowAt, Using
    <3>3. count[table[t]] \in Int /\ count \in [TableIds -> Int]
      BY <3>2, Zenon DEF TablesTyped
    <3>4. \A x \in Int : (x + 1) % CountModulus \in Int /\ (x - 1) % CountModulus \in Int
      BY DEF CountModulus
    <3>5. (count[table[t]] + 1) % CountModulus \in Int /\ (count[table[t]] - 1) % CountModulus \in Int
      BY <3>3, <3>4, Zenon
    <3>6. count' \in [TableIds -> Int]
      BY <2>8, <3>2, <3>3, <3>5, Zenon DEF Increment, Decrement
    <3>. QED  BY <1>1, <2>8, <3>1, <3>6, Zenon DEF Increment, Decrement, TablesTyped, SameSetup, ghosts
  <2>9. CASE ProbeRemove(t)
    <3>1. CASE NextSlot(t) \/ Return(t, FALSE)
      BY <1>1, <1>3, <2>9, <3>1, ReturnTyped, NextSlotTyped, Zenon DEF ProbeRemove
    <3>2. CASE ~(NextSlot(t) \/ Return(t, FALSE))
      BY <1>1, <1>3, <2>9, <3>2, Zenon DEF ProbeRemove, CallsTyped, SameSetup, Pcs, client, locals
    <3>. QED  BY <3>1, <3>2, Zenon
  <2>10. CASE Erase(t)
    <3>1. CallsTyped'
      BY <1>1, <2>10, ReturnTyped, Zenon DEF Erase, CallsTyped, SameSetup, Pcs, client, locals
    <3>2. table[t] \in TableIds
      BY <2>10, Zenon DEF Erase, FlowAt, Using
    <3>3. slots' \in [TableIds -> [Slots -> Addr \cup {Empty, Deleted}]]
      BY <2>10, <3>2, StoreTyped, Zenon DEF Erase, TablesTyped
    <3>. QED  BY <1>1, <2>10, <3>1, <3>3, Zenon DEF Erase, TablesTyped, SameSetup, ghosts
  <2>. QED  BY <1>7, <2>1, <2>2, <2>3, <2>4, <2>5, <2>6, <2>7, <2>8, <2>9, <2>10, Zenon DEF Step
<1>. QED  BY <1>4, <1>5, <1>6, <1>7, Zenon DEF Next, Calls

-----------------------------------------------------------------------------
(* What a step leaves alone *)

\* Thread u is where it was in its call.
Same(u) ==
  /\ pc'[u] = pc[u] /\ op'[u] = op[u] /\ addr'[u] = addr[u] /\ table'[u] = table[u]
  /\ slot'[u] = slot[u] /\ probe'[u] = probe[u] /\ current'[u] = current[u]

\* Tables stay installed.
TablesGrow ==
  \A c \in Chunks : chunk_tables[c] # NoTable => chunk_tables'[c] = chunk_tables[c]

\* No slot becomes empty again.
SlotsGrow ==
  \A i \in TableIds, s \in Slots : slots[i][s] # Empty => slots'[i][s] # Empty

\* A thread's return concerns no other.
LEMMA ReturnOthers ==
  ASSUME CallsTyped, NEW t \in Threads, NEW result, Return(t, result),
         NEW u \in Threads, u # t
  PROVE  Same(u)
BY Zenon DEF Same, CallsTyped, Return

\* Nor does its next slot.
LEMMA NextSlotOthers ==
  ASSUME CallsTyped, NEW t \in Threads, NextSlot(t), NEW u \in Threads, u # t
  PROVE  Same(u)
<1>1. CASE probe[t] + 1 = MaxProbe
  BY <1>1, ReturnOthers, Zenon DEF NextSlot
<1>2. CASE probe[t] + 1 # MaxProbe
  BY <1>2, Zenon DEF NextSlot, Same, CallsTyped
<1>. QED  BY <1>1, <1>2, Zenon

\* A step of one thread leaves the others where they are.
LEMMA OthersStay ==
  ASSUME TypeInv, NEW t \in Threads,
         Step(t) \/ Calls(t),
         NEW u \in Threads, u # t
  PROVE  Same(u)
<1>. CallsTyped
  BY Zenon DEF TypeInv
<1>1. CASE Calls(t)
  BY <1>1, Zenon DEF Calls, CallAdd, CallAddNull, CallRemove, Call, Goto, Same, CallsTyped
<1>2. CASE LoadTable(t)
  <2>1. CASE Return(t, FALSE)
    BY <2>1, ReturnOthers, Zenon
  <2>2. CASE ~Return(t, FALSE)
    BY <1>2, <2>2, Zenon DEF LoadTable, Same, CallsTyped
  <2>. QED  BY <2>1, <2>2, Zenon
<1>3. CASE CreateTable(t) \/ InstallTable(t)
  BY <1>3, Zenon DEF CreateTable, InstallTable, Goto, Same, CallsTyped
<1>4. CASE CheckCapacity(t)
  BY <1>4, ReturnOthers, Zenon DEF CheckCapacity, Same, CallsTyped, locals
<1>5. CASE ProbeAdd(t)
  <2>1. CASE Return(t, FALSE) \/ NextSlot(t)
    BY <2>1, ReturnOthers, NextSlotOthers, Zenon
  <2>2. CASE ~(Return(t, FALSE) \/ NextSlot(t))
    BY <1>5, <2>2, Zenon DEF ProbeAdd, Same, CallsTyped
  <2>. QED  BY <2>1, <2>2, Zenon
<1>6. CASE Claim(t)
  BY <1>6, Zenon DEF Claim, Same, CallsTyped, locals
<1>7. CASE Reload(t)
  BY <1>7, ReturnOthers, NextSlotOthers, Zenon DEF Reload
<1>8. CASE Increment(t) \/ Decrement(t)
  BY <1>8, ReturnOthers, Zenon DEF Increment, Decrement
<1>9. CASE ProbeRemove(t)
  <2>1. CASE Return(t, FALSE) \/ NextSlot(t)
    BY <2>1, ReturnOthers, NextSlotOthers, Zenon
  <2>2. CASE ~(Return(t, FALSE) \/ NextSlot(t))
    BY <1>9, <2>2, Zenon DEF ProbeRemove, Same, CallsTyped, locals
  <2>. QED  BY <2>1, <2>2, Zenon
<1>10. CASE Erase(t)
  BY <1>10, ReturnOthers, Zenon DEF Erase, Same, CallsTyped, locals
<1>. QED  BY <1>1, <1>2, <1>3, <1>4, <1>5, <1>6, <1>7, <1>8, <1>9, <1>10, Zenon DEF Step

\* A claimed slot was free.
LEMMA ClaimStores ==
  ASSUME TypeInv, FlowInv, SetupInv, NEW t \in Threads, Claim(t),
         slots' # slots \/ pc'[t] = "increment"
  PROVE  \E i \in TableIds, s \in Slots :
           /\ i = table[t] /\ s = slot[t] /\ slots[i][s] \in {Empty, Deleted}
           /\ slots[i][s] = current[t]
           /\ slots'[i][s] = addr[t] /\ addr[t] \in Addr \cup {Empty} /\ pc'[t] = "increment"
           /\ NullClaimed(t)
           /\ \A j \in TableIds, r \in Slots :
                j # i \/ r # s => slots'[j][r] = slots[j][r]
<1>1. /\ table[t] \in TableIds /\ slot[t] \in Slots /\ addr[t] \in Addr \cup {Empty}
      /\ current[t] \in {Empty, Deleted} /\ pc \in [Threads -> Pcs]
  BY Zenon DEF Claim, FlowInv, FlowAt, Using, TypeInv, CallsTyped, SetupInv
<1>2. /\ slots[table[t]][slot[t]] = current[t] /\ pc'[t] = "increment" /\ NullClaimed(t)
      /\ slots' = [slots EXCEPT ![table[t]][slot[t]] = addr[t]]
  BY <1>1, Zenon DEF Claim
<1>3. /\ slots'[table[t]][slot[t]] = addr[t]
      /\ \A j \in TableIds, r \in Slots :
           j # table[t] \/ r # slot[t] => slots'[j][r] = slots[j][r]
  BY <1>1, <1>2, StoreTyped, Zenon
<1>. QED  BY <1>1, <1>2, <1>3, Zenon

\* An erased slot held the address.
LEMMA EraseStores ==
  ASSUME TypeInv, FlowInv, SetupInv, NEW t \in Threads, Erase(t),
         slots' # slots \/ pc'[t] = "decrement"
  PROVE  \E i \in TableIds, s \in Slots :
           /\ i = table[t] /\ s = slot[t] /\ slots[i][s] = addr[t] /\ addr[t] \in Addr
           /\ slots'[i][s] = Deleted /\ pc'[t] = "decrement" /\ UNCHANGED <<locals, client>>
           /\ \A j \in TableIds, r \in Slots :
                j # i \/ r # s => slots'[j][r] = slots[j][r]
<1>1. /\ table[t] \in TableIds /\ slot[t] \in Slots /\ addr[t] \in Addr /\ pc \in [Threads -> Pcs]
  BY Zenon DEF Erase, FlowInv, FlowAt, Using, TypeInv, CallsTyped, SetupInv
<1>2. /\ slots[table[t]][slot[t]] = addr[t] /\ pc'[t] = "decrement" /\ UNCHANGED <<locals, client>>
      /\ slots' = [slots EXCEPT ![table[t]][slot[t]] = Deleted]
  BY <1>1, Zenon DEF Erase, Return
<1>3. /\ slots'[table[t]][slot[t]] = Deleted
      /\ \A j \in TableIds, r \in Slots :
           j # table[t] \/ r # slot[t] => slots'[j][r] = slots[j][r]
  BY <1>1, <1>2, StoreTyped, Zenon
<1>. QED  BY <1>1, <1>2, <1>3, Zenon

\* The slots change in the exchanges of add and of remove only.
LEMMA SlotsStay ==
  ASSUME [Next]_vars, slots' # slots
  PROVE  \E t \in Threads : Claim(t) \/ Erase(t)
<1>1. CASE \E t \in Threads : Step(t)
  BY <1>1, Zenon DEF Step, LoadTable, CreateTable, InstallTable, CheckCapacity, ProbeAdd,
       Reload, Increment, ProbeRemove, Decrement, tables
<1>2. CASE UNCHANGED vars \/ \E a \in Addr : Allocate(a)
  BY <1>2, Zenon DEF vars, tables, Allocate
<1>3. CASE \E t \in Threads : Calls(t)
  BY <1>3, Zenon DEF Calls, CallAdd, CallAddNull, CallRemove, Call, tables
<1>. QED  BY <1>1, <1>2, <1>3, Zenon DEF Next, Calls

\* The tables of the chunks change when one is installed only.
LEMMA ChunksStay ==
  ASSUME [Next]_vars, chunk_tables' # chunk_tables
  PROVE  \E t \in Threads : InstallTable(t)
<1>1. CASE \E t \in Threads : Step(t)
  BY <1>1, Zenon DEF Step, LoadTable, CreateTable, CheckCapacity, ProbeAdd, Claim,
       Reload, Increment, ProbeRemove, Erase, Decrement, tables
<1>2. CASE UNCHANGED vars \/ \E a \in Addr : Allocate(a)
  BY <1>2, Zenon DEF vars, tables, Allocate
<1>3. CASE \E t \in Threads : Calls(t)
  BY <1>3, Zenon DEF Calls, CallAdd, CallAddNull, CallRemove, Call, tables
<1>. QED  BY <1>1, <1>2, <1>3, Zenon DEF Next, Calls

\* Tables stay installed.
LEMMA Growth ==
  ASSUME TypeInv, [Next]_vars
  PROVE  TablesGrow
<1>. SUFFICES ASSUME NEW c \in Chunks, chunk_tables[c] # NoTable
              PROVE  chunk_tables'[c] = chunk_tables[c]
  BY Zenon DEF TablesGrow
<1>1. CASE chunk_tables' = chunk_tables
  BY <1>1, Zenon
<1>2. CASE chunk_tables' # chunk_tables
  <2>1. PICK t \in Threads : InstallTable(t)
    BY <1>2, ChunksStay, Zenon
  <2>. QED  BY <2>1, Zenon DEF InstallTable, TypeInv, TablesTyped
<1>. QED  BY <1>1, <1>2, Zenon

\* No slot becomes empty again, unless a null pointer takes the place of a
\* tombstone.
LEMMA SlotGrowth ==
  ASSUME TypeInv, FlowInv, SetupInv, [Next]_vars, ~emptied'
  PROVE  SlotsGrow
<1>. SUFFICES ASSUME NEW i \in TableIds, NEW s \in Slots, slots[i][s] # Empty
              PROVE  slots'[i][s] # Empty
  BY Zenon DEF SlotsGrow
<1>1. CASE slots' = slots
  BY <1>1, Zenon
<1>2. CASE slots' # slots
  <2>0. Deleted # Empty
    BY Zenon DEF Deleted, Empty
  <2>1. PICK t \in Threads : Claim(t) \/ Erase(t)
    BY <1>2, SlotsStay, Zenon
  <2>2. CASE Claim(t)
    <3>1. PICK j \in TableIds, r \in Slots :
            /\ j = table[t] /\ r = slot[t] /\ slots[j][r] \in {Empty, Deleted}
            /\ slots[j][r] = current[t]
            /\ slots'[j][r] = addr[t] /\ addr[t] \in Addr \cup {Empty} /\ pc'[t] = "increment"
            /\ NullClaimed(t)
            /\ \A k \in TableIds, q \in Slots : k # j \/ q # r => slots'[k][q] = slots[k][q]
      BY <1>2, <2>2, ClaimStores, Zenon
    <3>2. addr[t] = Empty => slots[j][r] = Empty
      BY <3>1, Zenon DEF NullClaimed, Null
    <3>. QED  BY <3>1, <3>2, Zenon
  <2>3. CASE Erase(t)
    <3>1. PICK j \in TableIds, r \in Slots :
            /\ slots'[j][r] = Deleted
            /\ \A k \in TableIds, q \in Slots : k # j \/ q # r => slots'[k][q] = slots[k][q]
      BY <1>2, <2>3, EraseStores, Zenon
    <3>. QED  BY <2>0, <3>1, Zenon
  <2>. QED  BY <2>1, <2>2, <2>3, Zenon
<1>. QED  BY <1>1, <1>2, Zenon

\* A tombstone that was replaced stays remembered.
LEMMA EmptiedStays ==
  ASSUME [Next]_vars, ~emptied'
  PROVE  ~emptied
<1>1. CASE \E t \in Threads : Step(t)
  BY <1>1, Zenon DEF Step, LoadTable, CreateTable, InstallTable, CheckCapacity, ProbeAdd,
       Claim, NullClaimed, Reload, Increment, ProbeRemove, Erase, Decrement, ghosts
<1>2. CASE UNCHANGED vars \/ \E a \in Addr : Allocate(a)
  BY <1>2, Zenon DEF vars, Allocate, ghosts
<1>3. CASE \E t \in Threads : Calls(t)
  BY <1>3, Zenon DEF Calls, CallAdd, CallAddNull, CallRemove, Call, ghosts
<1>. QED  BY <1>1, <1>2, <1>3, Zenon DEF Next, Calls

-----------------------------------------------------------------------------
(* The flow of a call *)

\* Slots that were passed stay so.
LEMMA PassedStays ==
  ASSUME SetupInv, SlotsGrow, NEW i \in TableIds, NEW h, NEW d,
         Passed(slots[i], TableSize, h, d)
  PROVE  Passed(slots'[i], TableSize, h, d)
BY Zenon DEF Passed, SetupInv, SlotsGrow

\* A call that another thread's step does not move.
LEMMA FlowStays ==
  ASSUME TypeInv, SetupInv, SameSetup, TablesGrow, NEW t \in Threads, FlowAt(t), Same(t)
  PROVE  FlowAt(t)'
<1>1. addr[t] \in Pointers /\ Chunk[addr[t]] \in Chunks /\ slot[t] \in Slots
  BY Zenon DEF TypeInv, CallsTyped, SetupInv
<1>2. /\ pc[t] \in {"idle", "load", "create", "install", "capacity"} => probe[t] = 0
      /\ pc[t] \in {"create", "install", "capacity"} => slot[t] = Home[addr[t]]
      /\ pc[t] = "install" => table[t] \in TableIds
      /\ pc[t] \in Adding => op[t] = "add"
      /\ pc[t] \in {"erase", "decrement"} => op[t] = "remove"
      /\ op[t] = "remove" => addr[t] \in Addr
  BY Zenon DEF FlowAt
<1>3. pc[t] \in Using => table[t] = chunk_tables'[Chunk[addr[t]]] /\ table[t] \in TableIds
  BY <1>1, Zenon DEF FlowAt, TablesGrow, SetupInv
<1>4. pc[t] \in Looking =>
        /\ probe[t] < MaxProbe
        /\ Dist(TableSize, Home[addr[t]], slot[t]) <= probe[t]
        /\ probe[t] < TableSize => Dist(TableSize, Home[addr[t]], slot[t]) = probe[t]
  BY Zenon DEF FlowAt
<1>. QED  BY <1>2, <1>3, <1>4, Zenon DEF FlowAt, SameSetup, Same

\* So does what it knows of the slots.
LEMMA SeenStays ==
  ASSUME TypeInv, SetupInv, SameSetup, SlotsGrow, NEW t \in Threads, FlowAt(t), SeenAt(t), Same(t)
  PROVE  SeenAt(t)'
<1>1. slot[t] \in Slots /\ (pc[t] \in Looking => table[t] \in TableIds)
  BY Zenon DEF TypeInv, CallsTyped, FlowAt, Looking, Using
<1>2. pc[t] \in Looking => Passed(slots'[table[t]], TableSize, Home[addr[t]], probe[t])
  BY <1>1, PassedStays, Zenon DEF SeenAt
<1>3. /\ pc[t] = "claim" /\ current[t] = Deleted => slots'[table[t]][slot[t]] # Empty
      /\ pc[t] = "reload" => slots'[table[t]][slot[t]] # Empty
  BY <1>1, Zenon DEF SeenAt, SlotsGrow, Looking
<1>. QED  BY <1>2, <1>3, Zenon DEF SeenAt, SameSetup, Same

\* A call that returned.
LEMMA ReturnFlow ==
  ASSUME CallsTyped, SameSetup, NEW t \in Threads, FlowAt(t), NEW result, Return(t, result)
  PROVE  FlowAt(t)' /\ pc'[t] = "idle"
<1>1. pc'[t] = "idle" /\ probe'[t] = 0 /\ op' = op /\ addr' = addr
  BY Zenon DEF CallsTyped, Return
<1>2. op[t] = "remove" => addr[t] \in Addr
  BY Zenon DEF FlowAt
<1>. QED  BY <1>1, <1>2, Zenon DEF FlowAt, Using, Looking, Adding, SameSetup

\* A call that goes on to the next slot.
LEMMA NextSlotFlow ==
  ASSUME TypeInv, SetupInv, SameSetup, NEW t \in Threads, FlowAt(t), NextSlot(t), UNCHANGED tables,
         pc[t] \in Looking
  PROVE  FlowAt(t)'
<1>1. CASE probe[t] + 1 = MaxProbe
  BY <1>1, ReturnFlow, Zenon DEF NextSlot, TypeInv
<1>2. CASE probe[t] + 1 # MaxProbe
  <2>1. /\ pc'[t] = "probe" /\ op'[t] = op[t] /\ addr'[t] = addr[t] /\ table'[t] = table[t]
        /\ slot'[t] = (slot[t] + 1) % TableSize /\ probe'[t] = probe[t] + 1
    BY <1>2, Zenon DEF NextSlot, TypeInv, CallsTyped
  <2>2. chunk_tables' = chunk_tables
    BY Zenon DEF tables
  <2>3. /\ table[t] = chunk_tables[Chunk[addr[t]]] /\ table[t] \in TableIds
        /\ op[t] = "remove" => addr[t] \in Addr
    BY Zenon DEF FlowAt, Looking, Using
  <2>4. PICK n, h, s, p, m :
          /\ n = TableSize /\ h = Home[addr[t]] /\ s = slot[t] /\ p = probe[t] /\ m = MaxProbe
          /\ n \in Nat \ {0} /\ h \in 0 .. n - 1 /\ s \in 0 .. n - 1 /\ p \in Nat /\ m \in Nat
    BY Zenon DEF SetupInv, TypeInv, CallsTyped
  <2>5. /\ p < m /\ Dist(n, h, s) <= p /\ (p < n => Dist(n, h, s) = p)
    BY <2>4, Zenon DEF FlowAt
  <2>6. p + 1 < m
    BY <1>2, <2>4, <2>5
  <2>7. /\ Dist(n, h, (s + 1) % n) <= p + 1
        /\ p + 1 < n => Dist(n, h, (s + 1) % n) = p + 1
    <3>1. /\ (s + 1) % n \in 0 .. n - 1
          /\ Dist(n, h, s) + 1 < n => Dist(n, h, (s + 1) % n) = Dist(n, h, s) + 1
      BY <2>4, Further, Zenon
    <3>2. Dist(n, h, (s + 1) % n) \in 0 .. n - 1 /\ Dist(n, h, s) \in 0 .. n - 1
      BY <2>4, <3>1, DistIs, Zenon
    <3>. QED  BY <2>4, <2>5, <3>1, <3>2
  <2>8. /\ probe'[t] < MaxProbe
        /\ Dist(TableSize, Home[addr[t]], slot'[t]) <= probe'[t]
        /\ probe'[t] < TableSize => Dist(TableSize, Home[addr[t]], slot'[t]) = probe'[t]
    BY <2>1, <2>4, <2>6, <2>7, Zenon
  <2>9. /\ pc'[t] \notin {"idle", "load", "create", "install", "capacity"}
        /\ pc'[t] \notin Adding /\ pc'[t] \notin {"erase", "decrement"}
    BY <2>1, Zenon DEF Adding
  <2>. QED  BY <2>1, <2>2, <2>3, <2>8, <2>9, Zenon DEF FlowAt, SameSetup
<1>. QED  BY <1>1, <1>2, Zenon

\* A call that returned knows nothing.
LEMMA ReturnSeen ==
  ASSUME CallsTyped, NEW t \in Threads, NEW result, Return(t, result)
  PROVE  SeenAt(t)'
<1>1. pc'[t] = "idle"
  BY Zenon DEF CallsTyped, Return
<1>. QED  BY <1>1, Zenon DEF SeenAt, Looking

\* The slot that a call leaves for the next one is not empty.
LEMMA NextSlotSeen ==
  ASSUME TypeInv, SetupInv, SameSetup, NEW t \in Threads, FlowAt(t), SeenAt(t), NextSlot(t),
         UNCHANGED tables, pc[t] \in Looking, slots[table[t]][slot[t]] # Empty
  PROVE  SeenAt(t)'
<1>1. CASE probe[t] + 1 = MaxProbe
  BY <1>1, ReturnSeen, Zenon DEF NextSlot, TypeInv
<1>2. CASE probe[t] + 1 # MaxProbe
  <2>1. /\ pc'[t] = "probe" /\ addr'[t] = addr[t] /\ table'[t] = table[t]
        /\ probe'[t] = probe[t] + 1 /\ slots' = slots
    BY <1>2, Zenon DEF NextSlot, TypeInv, CallsTyped, tables
  <2>2. PICK n, h, s, p :
          /\ n = TableSize /\ h = Home[addr[t]] /\ s = slot[t] /\ p = probe[t]
          /\ n \in Nat \ {0} /\ h \in 0 .. n - 1 /\ s \in 0 .. n - 1 /\ p \in Nat
    <3>1. addr[t] \in Pointers /\ slot[t] \in Slots /\ probe[t] \in Nat
      BY Zenon DEF TypeInv, CallsTyped
    <3>. QED  BY <3>1, Zenon DEF SetupInv
  <2>3. /\ Dist(n, h, s) <= p /\ (p < n => Dist(n, h, s) = p)
        /\ Passed(slots[table[t]], n, h, p) /\ slots[table[t]][s] # Empty
    BY <2>2, Zenon DEF FlowAt, SeenAt
  <2>4. Passed(slots[table[t]], n, h, p + 1)
    <3>. SUFFICES ASSUME NEW r \in 0 .. n - 1, Dist(n, h, r) < p + 1
                  PROVE  slots[table[t]][r] # Empty
      BY Zenon DEF Passed
    <3>1. CASE Dist(n, h, r) < p
      BY <2>3, <3>1, Zenon DEF Passed
    <3>2. CASE ~(Dist(n, h, r) < p)
      <4>1. Dist(n, h, r) \in 0 .. n - 1 /\ Dist(n, h, s) \in 0 .. n - 1
        BY <2>2, DistIs, Zenon
      <4>2. Dist(n, h, r) = Dist(n, h, s)
        BY <2>2, <2>3, <3>2, <4>1
      <4>3. r = s
        <5>1. n \in Nat \ {0} /\ h \in 0 .. n - 1 /\ s \in 0 .. n - 1
          BY <2>2, Zenon
        <5>2. \A q \in 0 .. n - 1 : Dist(n, h, q) = Dist(n, h, s) => q = s
          BY <5>1, DistIs, Zenon
        <5>. QED  BY <4>2, <5>2, Zenon
      <4>. QED  BY <2>3, <4>3, Zenon
    <3>. QED  BY <3>1, <3>2, Zenon
  <2>5. Passed(slots[table[t]], TableSize, Home[addr[t]], probe'[t])
    BY <2>1, <2>2, <2>4, Zenon
  <2>6. pc'[t] # "claim" /\ pc'[t] # "reload"
    BY <2>1, Zenon
  <2>. QED  BY <2>1, <2>5, <2>6, Zenon DEF SeenAt, SameSetup
<1>. QED  BY <1>1, <1>2, Zenon

\* A call that starts.
LEMMA CallFlow ==
  ASSUME TypeInv, SameSetup, NEW t \in Threads, FlowAt(t), Calls(t)
  PROVE  FlowAt(t)' /\ SeenAt(t)'
<1>1. pc[t] = "idle" /\ pc'[t] = "load" /\ probe' = probe
  BY Zenon DEF TypeInv, CallsTyped, Calls, CallAdd, CallAddNull, CallRemove, Call, Goto
<1>2. probe'[t] = 0
  BY <1>1, Zenon DEF FlowAt
<1>3. op'[t] = "remove" => addr'[t] \in Addr
  <2>1. CASE CallAddNull(t)
    <3>1. op'[t] = "add"
      BY <2>1, Zenon DEF CallAddNull, Call, TypeInv, CallsTyped
    <3>. QED  BY <3>1, Zenon
  <2>2. CASE ~CallAddNull(t)
    BY <2>2, Zenon DEF Calls, CallAdd, CallRemove, Call, TypeInv, CallsTyped
  <2>. QED  BY <2>1, <2>2, Zenon
<1>. QED  BY <1>1, <1>2, <1>3, Zenon DEF FlowAt, SeenAt, Using, Looking, Adding, SameSetup

\* A step of a call.
LEMMA StepFlow ==
  ASSUME TypeInv, SetupInv, SameSetup, TablesGrow, NEW t \in Threads, FlowAt(t), Step(t)
  PROVE  FlowAt(t)'
<1>. CallsTyped /\ TablesTyped
  BY Zenon DEF TypeInv
<1>0. /\ addr[t] \in Pointers /\ Chunk[addr[t]] \in Chunks /\ slot[t] \in Slots /\ MaxProbe \in Nat \ {0}
      /\ TableSize \in Nat \ {0} /\ Home[addr[t]] \in 0 .. TableSize - 1
      /\ op[t] = "remove" => addr[t] \in Addr
  BY Zenon DEF CallsTyped, SetupInv, FlowAt
<1>1. CASE LoadTable(t)
  <2>1. CASE Return(t, FALSE)
    BY <2>1, ReturnFlow, Zenon
  <2>2. CASE ~Return(t, FALSE)
    <3>0. DEFINE i == chunk_tables[Chunk[addr[t]]]
    <3>1. /\ pc'[t] = (IF i = NoTable THEN "create" ELSE IF op[t] = "add" THEN "capacity" ELSE "probe")
          /\ table'[t] = i /\ slot'[t] = Home[addr[t]] /\ ~(i = NoTable /\ op[t] = "remove")
          /\ op'[t] = op[t] /\ addr'[t] = addr[t] /\ probe'[t] = probe[t] /\ pc[t] = "load"
          /\ chunk_tables' = chunk_tables /\ slots' = slots
      BY <1>1, <2>2, Zenon DEF LoadTable, CallsTyped, tables
    <3>2. op[t] \in {"add", "remove"} /\ (i = NoTable \/ i \in TableIds)
      BY <1>0, Zenon DEF CallsTyped, TablesTyped
    <3>3. probe[t] = 0
      BY <3>1, Zenon DEF FlowAt
    <3>4. /\ probe'[t] < MaxProbe /\ Dist(TableSize, Home[addr[t]], slot'[t]) = probe'[t]
          /\ probe'[t] <= probe'[t]
      BY <1>0, <3>1, <3>3, DistIs
    <3>6. CASE i = NoTable
      <4>1. pc'[t] = "create" /\ op'[t] = "add" /\ pc'[t] \notin Using /\ pc'[t] \notin Looking
        BY <3>1, <3>2, <3>6, Zenon DEF Using, Looking
      <4>2. pc'[t] \notin {"install", "erase", "decrement", "claim", "reload"}
        BY <4>1, Zenon
      <4>. QED  BY <3>1, <3>3, <4>1, <4>2, Zenon DEF FlowAt, SameSetup
    <3>7. CASE i # NoTable /\ op[t] = "add"
      <4>1. pc'[t] = "capacity" /\ op'[t] = "add" /\ pc'[t] \notin Looking
        BY <3>1, <3>2, <3>7, Zenon DEF Looking
      <4>2. pc'[t] \notin {"install", "erase", "decrement", "claim", "reload"}
        BY <4>1, Zenon
      <4>. QED  BY <3>1, <3>2, <3>3, <3>7, <4>1, <4>2, Zenon DEF FlowAt, SameSetup
    <3>8. CASE i # NoTable /\ op[t] = "remove"
      <4>1. pc'[t] = "probe" /\ op'[t] = "remove" /\ pc'[t] \notin Adding
        BY <3>1, <3>2, <3>8, Zenon DEF Adding
      <4>2. pc'[t] \notin {"create", "install", "capacity", "erase", "decrement", "claim", "reload"}
        BY <4>1, Zenon
      <4>. QED  BY <3>1, <3>2, <3>3, <3>4, <3>8, <4>1, <4>2, Zenon DEF FlowAt, SameSetup
    <3>. QED  BY <3>2, <3>6, <3>7, <3>8, Zenon
  <2>. QED  BY <2>1, <2>2, Zenon
<1>2. CASE CreateTable(t)
  <2>1. /\ pc[t] = "create" /\ pc'[t] = "install" /\ table'[t] = <<t, Chunk[addr[t]]>>
        /\ op'[t] = op[t] /\ addr'[t] = addr[t] /\ probe'[t] = probe[t] /\ slot'[t] = slot[t]
    BY <1>2, Zenon DEF CreateTable, Goto, CallsTyped
  <2>2. table'[t] \in TableIds
    BY <1>0, <2>1, Zenon DEF SetupInv
  <2>3. probe[t] = 0 /\ slot[t] = Home[addr[t]] /\ op[t] = "add"
    BY <2>1, Zenon DEF FlowAt, Adding
  <2>4. /\ pc'[t] \notin Using /\ pc'[t] \notin Looking
        /\ pc'[t] \notin {"erase", "decrement", "claim", "reload"}
    BY <2>1, Zenon DEF Using, Looking
  <2>. QED  BY <2>1, <2>2, <2>3, <2>4, Zenon DEF FlowAt, SameSetup
<1>3. CASE InstallTable(t)
  <2>1. /\ pc[t] = "install" /\ pc'[t] = "capacity"
        /\ op'[t] = op[t] /\ addr'[t] = addr[t] /\ probe'[t] = probe[t] /\ slot'[t] = slot[t]
    BY <1>3, Zenon DEF InstallTable, Goto, CallsTyped
  <2>2. probe[t] = 0 /\ slot[t] = Home[addr[t]] /\ op[t] = "add" /\ table[t] \in TableIds
    BY <2>1, Zenon DEF FlowAt, Adding
  <2>3. table'[t] = chunk_tables'[Chunk[addr[t]]] /\ table'[t] \in TableIds
    <3>1. CASE chunk_tables[Chunk[addr[t]]] = NoTable
      <4>1. table' = table /\ chunk_tables' = [chunk_tables EXCEPT ![Chunk[addr[t]]] = table[t]]
        BY <1>3, <3>1, Zenon DEF InstallTable
      <4>. QED  BY <1>0, <2>2, <4>1, Zenon DEF TablesTyped
    <3>2. CASE chunk_tables[Chunk[addr[t]]] # NoTable
      <4>1. /\ chunk_tables' = chunk_tables
            /\ table' = [table EXCEPT ![t] = chunk_tables[Chunk[addr[t]]]]
        BY <1>3, <3>2, Zenon DEF InstallTable
      <4>. QED  BY <1>0, <3>2, <4>1, Zenon DEF TablesTyped, CallsTyped
    <3>. QED  BY <3>1, <3>2, Zenon
  <2>4. /\ pc'[t] \notin Looking
        /\ pc'[t] \notin {"install", "erase", "decrement", "claim", "reload"}
    BY <2>1, Zenon DEF Looking
  <2>. QED  BY <2>1, <2>2, <2>3, <2>4, Zenon DEF FlowAt, SameSetup
<1>4. CASE CheckCapacity(t)
  <2>1. CASE Return(t, FALSE)
    BY <2>1, ReturnFlow, Zenon
  <2>2. CASE ~Return(t, FALSE)
    <3>1. /\ pc[t] = "capacity" /\ pc'[t] = "probe" /\ UNCHANGED <<tables, locals>>
      BY <1>4, <2>2, Zenon DEF CheckCapacity, CallsTyped
    <3>2. /\ probe[t] = 0 /\ slot[t] = Home[addr[t]]
          /\ table[t] = chunk_tables[Chunk[addr[t]]] /\ table[t] \in TableIds
      BY <3>1, Zenon DEF FlowAt, Using
    <3>3. /\ probe[t] < MaxProbe /\ Dist(TableSize, Home[addr[t]], slot[t]) = probe[t]
          /\ probe[t] <= probe[t]
      <4>1. Dist(TableSize, Home[addr[t]], Home[addr[t]]) = 0 /\ 0 < MaxProbe /\ 0 <= 0
        BY <1>0, DistIs
      <4>. QED  BY <3>2, <4>1, Zenon
    <3>5. /\ pc'[t] \notin Adding
          /\ pc'[t] \notin {"create", "install", "capacity", "erase", "decrement", "claim", "reload"}
      BY <3>1, Zenon DEF Adding
    <3>. QED  BY <1>0, <3>1, <3>2, <3>3, <3>5, Zenon DEF FlowAt, SameSetup, tables, locals
  <2>. QED  BY <2>1, <2>2, Zenon
<1>5. CASE ProbeAdd(t)
  <2>0. pc[t] = "probe" /\ op[t] = "add" /\ UNCHANGED tables /\ pc[t] \in Looking
    BY <1>5, Zenon DEF ProbeAdd, Looking
  <2>1. CASE Return(t, FALSE)
    BY <2>1, ReturnFlow, Zenon
  <2>2. CASE NextSlot(t)
    BY <2>0, <2>2, NextSlotFlow, Zenon
  <2>3. CASE ~(Return(t, FALSE) \/ NextSlot(t))
    <3>1. /\ pc'[t] = "claim" /\ current'[t] = slots[table[t]][slot[t]]
          /\ UNCHANGED <<op, addr, table, slot, probe>>
      BY <1>5, <2>3, Zenon DEF ProbeAdd, CallsTyped
    <3>2. /\ pc'[t] \in Using /\ pc'[t] \in Looking /\ pc[t] \in Using
          /\ pc'[t] \notin {"idle", "load", "create", "install", "capacity", "erase", "decrement", "reload"}
      BY <2>0, <3>1, Zenon DEF Looking, Using
    <3>. QED  BY <2>0, <3>1, <3>2, Zenon DEF FlowAt, SameSetup, tables
  <2>. QED  BY <2>1, <2>2, <2>3, Zenon
<1>6. CASE Claim(t)
  <2>1. /\ pc[t] = "claim" /\ UNCHANGED locals /\ chunk_tables' = chunk_tables
        /\ pc[t] \in Using /\ pc[t] \in Looking /\ pc[t] \in Adding
    BY <1>6, Zenon DEF Claim, Using, Looking, Adding
  <2>2. /\ table[t] = chunk_tables[Chunk[addr[t]]] /\ table[t] \in TableIds /\ op[t] = "add"
    BY <2>1, Zenon DEF FlowAt
  <2>3. CASE pc'[t] = "increment"
    <3>1. /\ pc'[t] \notin Looking
          /\ pc'[t] \notin {"idle", "load", "create", "install", "capacity", "erase", "decrement", "claim", "reload"}
      BY <2>3, Zenon DEF Looking
    <3>. QED  BY <2>1, <2>2, <3>1, Zenon DEF FlowAt, SameSetup, locals
  <2>4. CASE pc'[t] # "increment"
    <3>1. pc'[t] = "reload"
      BY <1>6, <2>4, Zenon DEF Claim, CallsTyped
    <3>3. pc'[t] \notin {"idle", "load", "create", "install", "capacity", "erase", "decrement", "claim"}
      BY <3>1, Zenon
    <3>. QED  BY <2>1, <2>2, <3>1, <3>3, Zenon DEF FlowAt, SameSetup, locals
  <2>. QED  BY <2>3, <2>4, Zenon
<1>7. CASE Reload(t)
  <2>1. pc[t] \in Looking /\ UNCHANGED tables
    BY <1>7, Zenon DEF Reload, Looking
  <2>. QED  BY <1>7, <2>1, ReturnFlow, NextSlotFlow, Zenon DEF Reload
<1>8. CASE Increment(t) \/ Decrement(t)
  BY <1>8, ReturnFlow, Zenon DEF Increment, Decrement
<1>9. CASE ProbeRemove(t)
  <2>0. pc[t] = "probe" /\ op[t] = "remove" /\ UNCHANGED tables /\ pc[t] \in Looking
    BY <1>9, Zenon DEF ProbeRemove, Looking
  <2>1. CASE Return(t, FALSE)
    BY <2>1, ReturnFlow, Zenon
  <2>2. CASE NextSlot(t)
    BY <2>0, <2>2, NextSlotFlow, Zenon
  <2>3. CASE ~(Return(t, FALSE) \/ NextSlot(t))
    <3>1. /\ pc'[t] = "erase" /\ UNCHANGED locals
      BY <1>9, <2>3, Zenon DEF ProbeRemove, CallsTyped
    <3>2. /\ pc'[t] \notin Looking /\ pc[t] \in Using /\ pc'[t] \notin Adding
          /\ pc'[t] \notin {"idle", "load", "create", "install", "capacity", "claim", "reload"}
      BY <2>0, <3>1, Zenon DEF Looking, Using, Adding
    <3>. QED  BY <2>0, <3>1, <3>2, Zenon DEF FlowAt, SameSetup, tables, locals
  <2>. QED  BY <2>1, <2>2, <2>3, Zenon
<1>10. CASE Erase(t)
  <2>1. CASE Return(t, FALSE)
    BY <2>1, ReturnFlow, Zenon
  <2>2. CASE ~Return(t, FALSE)
    <3>1. /\ pc[t] = "erase" /\ pc'[t] = "decrement" /\ UNCHANGED locals /\ chunk_tables' = chunk_tables
      BY <1>10, <2>2, Zenon DEF Erase, CallsTyped
    <3>2. /\ pc'[t] \notin Looking /\ pc[t] \in Using /\ pc'[t] \notin Adding
          /\ pc'[t] \notin {"idle", "load", "create", "install", "capacity", "claim", "reload"}
      BY <3>1, Zenon DEF Looking, Using, Adding
    <3>. QED  BY <3>1, <3>2, Zenon DEF FlowAt, SameSetup, locals
  <2>. QED  BY <2>1, <2>2, Zenon
<1>. QED  BY <1>1, <1>2, <1>3, <1>4, <1>5, <1>6, <1>7, <1>8, <1>9, <1>10, Zenon DEF Step

\* What a call knows of the slots after one of its steps.
LEMMA StepSeen ==
  ASSUME TypeInv, SetupInv, SameSetup, NEW t \in Threads, FlowAt(t), SeenAt(t), Step(t)
  PROVE  SeenAt(t)'
<1>. CallsTyped /\ TablesTyped
  BY Zenon DEF TypeInv
<1>1. ASSUME pc'[t] \notin Looking  PROVE SeenAt(t)'
  <2>1. pc'[t] # "claim" /\ pc'[t] # "reload"
    BY <1>1, Zenon DEF Looking
  <2>. QED  BY <1>1, <2>1, Zenon DEF SeenAt
<1>2. ASSUME pc'[t] = "probe", probe'[t] = 0, addr'[t] = addr[t]  PROVE SeenAt(t)'
  <2>1. /\ addr[t] \in Pointers /\ TableSize \in Nat \ {0} /\ Home[addr[t]] \in 0 .. TableSize - 1
    BY Zenon DEF CallsTyped, SetupInv
  <2>2. \A s \in 0 .. TableSize - 1 : ~(Dist(TableSize, Home[addr[t]], s) < 0)
    <3>1. \A s \in 0 .. TableSize - 1 : Dist(TableSize, Home[addr[t]], s) \in 0 .. TableSize - 1
      BY <2>1, DistIs, Zenon
    <3>. QED  BY <2>1, <3>1
  <2>3. Passed(slots'[table'[t]], TableSize, Home[addr[t]], 0)
    BY <2>2, Zenon DEF Passed
  <2>4. pc'[t] # "claim" /\ pc'[t] # "reload"
    BY <1>2, Zenon
  <2>. QED  BY <1>2, <2>3, <2>4, Zenon DEF SeenAt, SameSetup
<1>3. CASE LoadTable(t)
  <2>1. pc[t] = "load"
    BY <1>3, Zenon DEF LoadTable
  <2>2. CASE ~Return(t, FALSE)
    <3>1. /\ pc'[t] \in {"create", "capacity", "probe"} /\ probe'[t] = probe[t] /\ addr'[t] = addr[t]
      BY <1>3, <2>2, Zenon DEF LoadTable, CallsTyped
    <3>2. probe[t] = 0 /\ (pc'[t] = "probe" \/ pc'[t] \notin Looking)
      BY <2>1, <3>1, Zenon DEF FlowAt, Looking
    <3>. QED  BY <1>1, <1>2, <3>1, <3>2, Zenon
  <2>. QED  BY <2>2, ReturnSeen, Zenon
<1>4. CASE CreateTable(t) \/ InstallTable(t)
  <2>1. pc'[t] \notin Looking
    BY <1>4, Zenon DEF CreateTable, InstallTable, Goto, CallsTyped, Looking
  <2>. QED  BY <1>1, <2>1, Zenon
<1>5. CASE CheckCapacity(t)
  <2>1. CASE ~Return(t, FALSE)
    <3>1. pc[t] = "capacity" /\ pc'[t] = "probe" /\ UNCHANGED locals
      BY <1>5, <2>1, Zenon DEF CheckCapacity, CallsTyped
    <3>2. probe[t] = 0
      BY <3>1, Zenon DEF FlowAt
    <3>. QED  BY <1>2, <3>1, <3>2, Zenon DEF locals
  <2>. QED  BY <2>1, ReturnSeen, Zenon
<1>6. CASE ProbeAdd(t)
  <2>0. pc[t] = "probe" /\ UNCHANGED tables /\ pc[t] \in Looking
    BY <1>6, Zenon DEF ProbeAdd, Looking
  <2>1. CASE Return(t, FALSE)
    BY <2>1, ReturnSeen, Zenon
  <2>2. CASE NextSlot(t) /\ slots[table[t]][slot[t]] # Empty
    BY <2>0, <2>2, NextSlotSeen, Zenon
  <2>3. CASE ~(Return(t, FALSE) \/ (NextSlot(t) /\ slots[table[t]][slot[t]] # Empty))
    <3>1. /\ pc'[t] = "claim" /\ current'[t] = slots[table[t]][slot[t]]
          /\ UNCHANGED <<addr, table, slot, probe>> /\ slots' = slots
      BY <1>6, <2>3, Zenon DEF ProbeAdd, CallsTyped, tables
    <3>2. Deleted # Empty /\ pc'[t] # "reload"
      BY <3>1, Zenon DEF Deleted, Empty
    <3>3. Passed(slots[table[t]], TableSize, Home[addr[t]], probe[t])
      BY <2>0, Zenon DEF SeenAt
    <3>. QED  BY <3>1, <3>2, <3>3, Zenon DEF SeenAt, SameSetup
  <2>. QED  BY <2>1, <2>2, <2>3, Zenon
<1>7. CASE Claim(t)
  <2>1. /\ pc[t] = "claim" /\ pc[t] \in Looking /\ UNCHANGED locals
    BY <1>7, Zenon DEF Claim, Looking
  <2>2. CASE pc'[t] = "increment"
    <3>1. pc'[t] \notin Looking
      BY <2>2, Zenon DEF Looking
    <3>. QED  BY <1>1, <3>1, Zenon
  <2>3. CASE pc'[t] # "increment"
    <3>1. pc'[t] = "reload" /\ slots' = slots /\ slots[table[t]][slot[t]] # current[t]
      BY <1>7, <2>3, Zenon DEF Claim, CallsTyped
    <3>2. slots[table[t]][slot[t]] # Empty
      <4>1. current[t] \in {Empty, Deleted}
        BY Zenon DEF CallsTyped
      <4>. QED  BY <2>1, <3>1, <4>1, Zenon DEF SeenAt
    <3>3. Passed(slots[table[t]], TableSize, Home[addr[t]], probe[t]) /\ pc'[t] # "claim"
      BY <2>1, <3>1, Zenon DEF SeenAt
    <3>. QED  BY <2>1, <3>1, <3>2, <3>3, Zenon DEF SeenAt, SameSetup, locals
  <2>. QED  BY <2>2, <2>3, Zenon
<1>8. CASE Reload(t)
  <2>1. pc[t] \in Looking /\ UNCHANGED tables /\ slots[table[t]][slot[t]] # Empty
    BY <1>8, Zenon DEF Reload, Looking, SeenAt
  <2>. QED  BY <1>8, <2>1, ReturnSeen, NextSlotSeen, Zenon DEF Reload
<1>9. CASE Increment(t) \/ Decrement(t)
  BY <1>9, ReturnSeen, Zenon DEF Increment, Decrement
<1>10. CASE ProbeRemove(t)
  <2>0. pc[t] = "probe" /\ UNCHANGED tables /\ pc[t] \in Looking
    BY <1>10, Zenon DEF ProbeRemove, Looking
  <2>1. CASE Return(t, FALSE)
    BY <2>1, ReturnSeen, Zenon
  <2>2. CASE NextSlot(t) /\ slots[table[t]][slot[t]] # Empty
    BY <2>0, <2>2, NextSlotSeen, Zenon
  <2>3. CASE ~(Return(t, FALSE) \/ (NextSlot(t) /\ slots[table[t]][slot[t]] # Empty))
    <3>1. pc'[t] \notin Looking
      BY <1>10, <2>3, Zenon DEF ProbeRemove, CallsTyped, Looking
    <3>. QED  BY <1>1, <3>1, Zenon
  <2>. QED  BY <2>1, <2>2, <2>3, Zenon
<1>11. CASE Erase(t)
  <2>1. CASE ~Return(t, FALSE)
    <3>1. pc'[t] \notin Looking
      BY <1>11, <2>1, Zenon DEF Erase, CallsTyped, Looking
    <3>. QED  BY <1>1, <3>1, Zenon
  <2>. QED  BY <2>1, ReturnSeen, Zenon
<1>. QED  BY <1>3, <1>4, <1>5, <1>6, <1>7, <1>8, <1>9, <1>10, <1>11, Zenon DEF Step

\* The flow of the calls is kept.
LEMMA FlowStep ==
  ASSUME TypeInv, FlowInv, [Next]_vars
  PROVE  FlowInv'
<1>1. SameSetup /\ SetupInv /\ TablesGrow
  BY SetupStays, SetupIs, Growth, Zenon DEF TypeInv, TablesTyped
<1>2. SUFFICES ASSUME NEW u \in Threads  PROVE FlowAt(u)'
  BY Zenon DEF FlowInv
<1>3. FlowAt(u)
  BY Zenon DEF FlowInv
<1>4. ASSUME NEW t \in Threads, Step(t) \/ Calls(t)
      PROVE  FlowAt(u)'
  <2>1. CASE u = t
    BY <1>1, <1>3, <1>4, <2>1, StepFlow, CallFlow, Zenon
  <2>2. CASE u # t
    BY <1>1, <1>3, <1>4, <2>2, OthersStay, FlowStays, Zenon
  <2>. QED  BY <2>1, <2>2, Zenon
<1>5. CASE UNCHANGED vars \/ \E a \in Addr : Allocate(a)
  <2>1. Same(u)
    BY <1>5, Zenon DEF Same, vars, locals, Allocate
  <2>. QED  BY <1>1, <1>3, <2>1, FlowStays, Zenon
<1>. QED  BY <1>4, <1>5, Zenon DEF Next, Calls

\* What the calls know of the slots is kept, unless a null pointer takes the place
\* of a tombstone.
LEMMA SeenStep ==
  ASSUME TypeInv, FlowInv, SeenInv, [Next]_vars, ~emptied'
  PROVE  SeenInv'
<1>1. SameSetup /\ SetupInv /\ SlotsGrow
  BY SetupStays, SetupIs, SlotGrowth, Zenon DEF TypeInv, TablesTyped
<1>2. SUFFICES ASSUME NEW u \in Threads  PROVE SeenAt(u)'
  BY Zenon DEF SeenInv
<1>3. FlowAt(u) /\ SeenAt(u)
  BY Zenon DEF FlowInv, SeenInv
<1>4. ASSUME NEW t \in Threads, Step(t) \/ Calls(t)
      PROVE  SeenAt(u)'
  <2>1. CASE u = t
    BY <1>1, <1>3, <1>4, <2>1, StepSeen, CallFlow, Zenon
  <2>2. CASE u # t
    BY <1>1, <1>3, <1>4, <2>2, OthersStay, SeenStays, Zenon
  <2>. QED  BY <2>1, <2>2, Zenon
<1>5. CASE UNCHANGED vars \/ \E a \in Addr : Allocate(a)
  <2>1. Same(u)
    BY <1>5, Zenon DEF Same, vars, locals, Allocate
  <2>. QED  BY <1>1, <1>3, <2>1, SeenStays, Zenon
<1>. QED  BY <1>4, <1>5, Zenon DEF Next, Calls

-----------------------------------------------------------------------------
(* Stored addresses are where their probe sequence leads *)

\* The place of a stored address is kept.
LEMMA ReachStep ==
  ASSUME TypeInv, FlowInv, SeenInv, ReachInv, [Next]_vars, ~emptied'
  PROVE  ReachInv'
<1>1. SameSetup /\ SetupInv /\ TablesGrow /\ SlotsGrow
  BY SetupStays, SetupIs, Growth, SlotGrowth, Zenon DEF TypeInv, TablesTyped
<1>2. SUFFICES ASSUME NEW i \in TableIds, NEW s \in Slots, NEW a \in Addr, slots'[i][s] = a
               PROVE  /\ i = chunk_tables'[Chunk[a]]
                      /\ Dist(TableSize, Home[a], s) < MaxProbe
                      /\ Passed(slots'[i], TableSize, Home[a], Dist(TableSize, Home[a], s))
  <2>1. SUFFICES ASSUME NEW i \in TableIds, NEW s \in Slots, NEW a \in Addr, slots'[i][s] = a
                 PROVE  Reached(i, s, a)'
    BY <1>1, Zenon DEF ReachInv, SameSetup
  <2>. QED  BY <1>1, <1>2, <2>1, Zenon DEF Reached, SameSetup
<1>3. Chunk[a] \in Chunks /\ NoTable \notin TableIds /\ Deleted \notin Addr /\ a \in Pointers
  BY <1>1, Zenon DEF SetupInv
<1>4. CASE slots[i][s] = a
  <2>1. /\ i = chunk_tables[Chunk[a]]
        /\ Dist(TableSize, Home[a], s) < MaxProbe
        /\ Passed(slots[i], TableSize, Home[a], Dist(TableSize, Home[a], s))
    BY <1>4, Zenon DEF ReachInv, Reached
  <2>2. i = chunk_tables'[Chunk[a]]
    BY <1>1, <1>3, <2>1, Zenon DEF TablesGrow
  <2>. QED  BY <1>1, <2>1, <2>2, PassedStays, Zenon
<1>5. CASE slots[i][s] # a
  <2>1. slots' # slots
    BY <1>2, <1>5, Zenon
  <2>2. PICK t \in Threads : Claim(t) \/ Erase(t)
    BY <2>1, SlotsStay, Zenon
  <2>3. CASE Erase(t)
    <3>1. PICK j \in TableIds, r \in Slots :
            /\ slots'[j][r] = Deleted
            /\ \A k \in TableIds, q \in Slots : k # j \/ q # r => slots'[k][q] = slots[k][q]
      BY <1>1, <2>1, <2>3, EraseStores, Zenon
    <3>. QED  BY <1>2, <1>3, <1>5, <3>1, Zenon
  <2>4. CASE Claim(t)
    <3>1. PICK j \in TableIds, r \in Slots :
            /\ j = table[t] /\ r = slot[t] /\ slots'[j][r] = addr[t]
            /\ \A k \in TableIds, q \in Slots : k # j \/ q # r => slots'[k][q] = slots[k][q]
      BY <1>1, <2>1, <2>4, ClaimStores, Zenon
    <3>2. i = table[t] /\ s = slot[t] /\ a = addr[t]
      BY <1>2, <1>5, <3>1, Zenon
    <3>3. pc[t] \in Using /\ pc[t] \in Looking /\ chunk_tables' = chunk_tables
      BY <2>4, Zenon DEF Claim, Using, Looking
    <3>4. /\ i = chunk_tables[Chunk[a]] /\ probe[t] < MaxProbe
          /\ Dist(TableSize, Home[a], s) <= probe[t]
          /\ Passed(slots[i], TableSize, Home[a], probe[t])
      BY <3>2, <3>3, Zenon DEF FlowInv, FlowAt, SeenInv, SeenAt
    <3>5. /\ probe[t] \in Int /\ MaxProbe \in Int /\ TableSize \in Nat \ {0} /\ Home[a] \in 0 .. TableSize - 1
          /\ s \in 0 .. TableSize - 1
      <4>1. probe[t] \in Nat /\ MaxProbe \in Nat
        BY <1>1, Zenon DEF TypeInv, CallsTyped, SetupInv
      <4>2. TableSize \in Nat \ {0} /\ Home[a] \in 0 .. TableSize - 1 /\ s \in 0 .. TableSize - 1
        BY <1>1, <1>3, Zenon DEF SetupInv
      <4>. QED  BY <4>1, <4>2
    <3>6. \A q \in 0 .. TableSize - 1 : Dist(TableSize, Home[a], q) \in Int
      <4>1. \A q \in 0 .. TableSize - 1 : Dist(TableSize, Home[a], q) \in 0 .. TableSize - 1
        BY <3>5, DistIs, Zenon
      <4>. QED  BY <3>5, <4>1
    <3>7. Dist(TableSize, Home[a], s) < MaxProbe
      BY <3>4, <3>5, <3>6
    <3>8. \A q \in 0 .. TableSize - 1 :
            Dist(TableSize, Home[a], q) < Dist(TableSize, Home[a], s)
              => Dist(TableSize, Home[a], q) < probe[t]
      BY <3>4, <3>5, <3>6
    <3>9. Passed(slots[i], TableSize, Home[a], Dist(TableSize, Home[a], s))
      BY <3>4, <3>8, Zenon DEF Passed
    <3>. QED  BY <1>1, <3>3, <3>4, <3>7, <3>9, PassedStays, Zenon
  <2>. QED  BY <2>2, <2>3, <2>4, Zenon
<1>. QED  BY <1>4, <1>5, Zenon

-----------------------------------------------------------------------------
(* The count *)

\* A counter that wraps, added to before and after.
LEMMA Wraps ==
  ASSUME NEW x \in Int, NEW y \in Int
  PROVE  ((x % CountModulus) + y) % CountModulus = (x + y) % CountModulus
BY DEF CountModulus

\* One more, or one less, of two numbers that the counter does not tell apart.
LEMMA OneMore ==
  ASSUME NEW x \in Int, NEW k \in Int, x % CountModulus = k % CountModulus
  PROVE  /\ (x + 1) % CountModulus = (k + 1) % CountModulus
         /\ (x - 1) % CountModulus = (k - 1) % CountModulus
<1>1. ((x % CountModulus) + 1) % CountModulus = (x + 1) % CountModulus
  BY Wraps
<1>2. ((k % CountModulus) + 1) % CountModulus = (k + 1) % CountModulus
  BY Wraps
<1>3. ((x % CountModulus) + (-1)) % CountModulus = (x + (-1)) % CountModulus
  BY Wraps
<1>4. ((k % CountModulus) + (-1)) % CountModulus = (k + (-1)) % CountModulus
  BY Wraps
<1>5. x + (-1) = x - 1 /\ k + (-1) = k - 1
  OBVIOUS
<1>. QED  BY <1>1, <1>2, <1>3, <1>4, <1>5, Zenon

\* Sets of slots are finite and can be counted.
LEMMA Counted ==
  ASSUME SetupInv, NEW S \in SUBSET Slots
  PROVE  IsFiniteSet(S) /\ Cardinality(S) \in Nat
<1>1. IsFiniteSet(Slots)
  <2>1. 0 \in Int /\ TableSize - 1 \in Int
    BY DEF SetupInv
  <2>. QED  BY <2>1, FS_Interval, Zenon DEF SetupInv
<1>2. IsFiniteSet(S)
  BY <1>1, FS_Subset, Zenon
<1>. QED  BY <1>2, FS_CardinalityType, Zenon

\* So are sets of threads.
LEMMA Finite ==
  \A i, p : IsFiniteSet(At(i, p)) /\ Cardinality(At(i, p)) \in Nat
<1>1. IsFiniteSet(Threads)
  BY SetupsAssumption, Zenon
<1>2. \A i, p : At(i, p) \subseteq Threads
  BY Zenon DEF At
<1>3. \A i, p : IsFiniteSet(At(i, p))
  BY <1>1, <1>2, FS_Subset, Zenon
<1>. QED  BY <1>3, FS_CardinalityType, Zenon

\* The threads that the count of table i waits for, when thread t moves.
LEMMA AtMoves ==
  ASSUME NEW t \in Threads, \A u \in Threads : u # t => Same(u)
  PROVE  \A i \in TableIds, p \in {"increment", "decrement"} :
           /\ (t \in At(i, p)') <=> table'[t] = i /\ pc'[t] = p
           /\ (t \in At(i, p)) <=> table[t] = i /\ pc[t] = p
           /\ (t \in At(i, p)' <=> t \in At(i, p)) => At(i, p)' = At(i, p)
           /\ t \in At(i, p)' => At(i, p)' = At(i, p) \cup {t}
           /\ t \notin At(i, p)' => At(i, p)' = At(i, p) \ {t}
BY DEF At, Same

\* The count of a table that a step does not concern.
LEMMA CountStays ==
  ASSUME NEW i \in TableIds,
         Sum(i) % CountModulus = (Cardinality(Held(i)) + nulls[i]) % CountModulus,
         count'[i] = count[i], Held(i)' = Held(i), nulls'[i] = nulls[i],
         At(i, "increment")' = At(i, "increment"), At(i, "decrement")' = At(i, "decrement")
  PROVE  Sum(i)' % CountModulus = (Cardinality(Held(i)') + nulls'[i]) % CountModulus
BY Zenon DEF Sum

\* The steps that change neither a slot nor the count nor what it waits for.
LEMMA CountIdle ==
  ASSUME TypeInv, FlowInv, SameSetup, NEW t \in Threads, Step(t),
         ~(Claim(t) /\ pc'[t] = "increment"), ~(Erase(t) /\ pc'[t] = "decrement"),
         ~Increment(t), ~Decrement(t)
  PROVE  /\ slots' = slots /\ count' = count /\ nulls' = nulls
         /\ \A p \in {"increment", "decrement"} : pc[t] # p /\ pc'[t] # p
<1>. CallsTyped /\ FlowAt(t)
  BY Zenon DEF TypeInv, FlowInv
<1>0. \A result : Return(t, result) => pc'[t] = "idle"
  BY ReturnFlow, Zenon
<1>1. NextSlot(t) => pc'[t] \in {"idle", "probe"}
  BY <1>0, Zenon DEF NextSlot, CallsTyped
<1>2. CASE LoadTable(t)
  <2>1. pc[t] = "load" /\ UNCHANGED <<tables, ghosts>>
    BY <1>2, Zenon DEF LoadTable
  <2>2. pc'[t] \in {"idle", "create", "capacity", "probe"}
    BY <1>0, <1>2, Zenon DEF LoadTable, CallsTyped
  <2>. QED  BY <2>1, <2>2, Zenon DEF tables, ghosts
<1>3. CASE CreateTable(t) \/ InstallTable(t)
  BY <1>3, Zenon DEF CreateTable, InstallTable, Goto, CallsTyped, tables, ghosts
<1>4. CASE CheckCapacity(t)
  <2>1. pc[t] = "capacity" /\ UNCHANGED <<tables, ghosts>>
    BY <1>4, Zenon DEF CheckCapacity
  <2>2. pc'[t] \in {"idle", "probe"}
    BY <1>0, <1>4, Zenon DEF CheckCapacity, CallsTyped
  <2>. QED  BY <2>1, <2>2, Zenon DEF tables, ghosts
<1>5. CASE ProbeAdd(t)
  <2>1. pc[t] = "probe" /\ UNCHANGED <<tables, ghosts>>
    BY <1>5, Zenon DEF ProbeAdd
  <2>2. pc'[t] \in {"idle", "probe", "claim"}
    BY <1>0, <1>1, <1>5, Zenon DEF ProbeAdd, CallsTyped
  <2>. QED  BY <2>1, <2>2, Zenon DEF tables, ghosts
<1>6. CASE Claim(t)
  <2>1. pc[t] = "claim" /\ pc'[t] = "reload" /\ slots' = slots /\ count' = count /\ nulls' = nulls
    BY <1>6, Zenon DEF Claim, CallsTyped, ghosts
  <2>. QED  BY <2>1, Zenon
<1>7. CASE Reload(t)
  <2>1. pc[t] = "reload" /\ UNCHANGED <<tables, ghosts>>
    BY <1>7, Zenon DEF Reload
  <2>2. pc'[t] \in {"idle", "probe"}
    BY <1>0, <1>1, <1>7, Zenon DEF Reload
  <2>. QED  BY <2>1, <2>2, Zenon DEF tables, ghosts
<1>8. CASE ProbeRemove(t)
  <2>1. pc[t] = "probe" /\ UNCHANGED <<tables, ghosts>>
    BY <1>8, Zenon DEF ProbeRemove
  <2>2. pc'[t] \in {"idle", "probe", "erase"}
    BY <1>0, <1>1, <1>8, Zenon DEF ProbeRemove, CallsTyped
  <2>. QED  BY <2>1, <2>2, Zenon DEF tables, ghosts
<1>9. CASE Erase(t)
  <2>1. pc[t] = "erase" /\ pc'[t] = "idle" /\ slots' = slots /\ count' = count /\ nulls' = nulls
    BY <1>0, <1>9, Zenon DEF Erase, CallsTyped, ghosts
  <2>. QED  BY <2>1, Zenon
<1>. QED  BY <1>2, <1>3, <1>4, <1>5, <1>6, <1>7, <1>8, <1>9, Zenon DEF Step

\* The count is kept.
LEMMA CountStep ==
  ASSUME TypeInv, FlowInv, CountInv, [Next]_vars
  PROVE  CountInv'
<1>1. SameSetup /\ SetupInv /\ TypeInv'
  BY SetupStays, SetupIs, TypeStep, Zenon DEF TypeInv, TablesTyped
<1>2. SUFFICES ASSUME NEW i \in TableIds
               PROVE  Sum(i)' % CountModulus = (Cardinality(Held(i)') + nulls'[i]) % CountModulus
  BY <1>1, Zenon DEF CountInv, SameSetup
<1>3. Sum(i) % CountModulus = (Cardinality(Held(i)) + nulls[i]) % CountModulus
  BY Zenon DEF CountInv
<1>4. Held(i)' \subseteq Slots /\ \A j : Held(j) \subseteq Slots
  BY <1>1, Zenon DEF Held, SameSetup
<1>5. /\ \A j, p : IsFiniteSet(At(j, p)) /\ Cardinality(At(j, p)) \in Nat
      /\ \A j : IsFiniteSet(Held(j)) /\ Cardinality(Held(j)) \in Nat
  BY <1>1, <1>4, Finite, Counted, Zenon
<1>7. count[i] \in Int /\ count \in [TableIds -> Int] /\ nulls[i] \in Nat /\ nulls \in [TableIds -> Nat]
  BY Zenon DEF TypeInv, TablesTyped
<1>8. ASSUME slots' = slots  PROVE Held(i)' = Held(i)
  BY <1>1, <1>8, Zenon DEF Held, SameSetup
<1>9. ASSUME NEW t \in Threads, Step(t)
      PROVE  Sum(i)' % CountModulus = (Cardinality(Held(i)') + nulls'[i]) % CountModulus
  <2>1. \A u \in Threads : u # t => Same(u)
    BY <1>9, OthersStay, Zenon
  <2>1a. \A p \in {"increment", "decrement"} :
           /\ (t \in At(i, p)') <=> table'[t] = i /\ pc'[t] = p
           /\ (t \in At(i, p)) <=> table[t] = i /\ pc[t] = p
           /\ (t \in At(i, p)' <=> t \in At(i, p)) => At(i, p)' = At(i, p)
           /\ t \in At(i, p)' => At(i, p)' = At(i, p) \cup {t}
           /\ t \notin At(i, p)' => At(i, p)' = At(i, p) \ {t}
    BY <2>1, AtMoves, Zenon
  <2>2. FlowAt(t) /\ CallsTyped
    BY Zenon DEF FlowInv, TypeInv
  <2>3. CASE Claim(t) /\ pc'[t] = "increment"
    <3>1. PICK k \in TableIds, s \in Slots :
            /\ k = table[t]
            /\ slots[k][s] \in {Empty, Deleted} /\ slots'[k][s] = addr[t] /\ NullClaimed(t)
            /\ addr[t] \in Addr \cup {Empty}
            /\ \A j \in TableIds, r \in Slots :
                 j # k \/ r # s => slots'[j][r] = slots[j][r]
      BY <1>1, <2>3, ClaimStores, Zenon
    <3>2. pc[t] = "claim" /\ table' = table /\ count' = count
      BY <2>3, Zenon DEF Claim, locals
    <3>3. At(i, "decrement")' = At(i, "decrement") /\ t \notin At(i, "increment")
      <4>1. pc'[t] # "decrement" /\ pc[t] # "decrement" /\ pc[t] # "increment"
        BY <2>3, <3>2, Zenon
      <4>. QED  BY <2>1a, <4>1, Zenon
    <3>4. CASE table[t] = i
      <4>1. At(i, "increment")' = At(i, "increment") \cup {t}
        BY <2>1a, <2>3, <3>2, <3>4, Zenon
      <4>2. Addr' = Addr /\ Slots' = Slots /\ Empty \notin Addr /\ Deleted \notin Addr
        BY <1>1, Zenon DEF SameSetup, SetupInv
      <4>3. Cardinality(At(i, "increment")') = Cardinality(At(i, "increment")) + 1
        BY <1>5, <3>3, <4>1, FS_AddElement, Zenon
      <4>4. Cardinality(Held(i)') + nulls'[i] = Cardinality(Held(i)) + nulls[i] + 1
        <5>1. CASE addr[t] \in Addr
          <6>1. Held(i)' = Held(i) \cup {s} /\ s \notin Held(i)
            BY <3>1, <3>4, <4>2, <5>1, Zenon DEF Held
          <6>2. nulls' = nulls
            BY <3>1, <4>2, <5>1, Zenon DEF NullClaimed, Null
          <6>3. Cardinality(Held(i)') = Cardinality(Held(i)) + 1
            BY <1>5, <6>1, FS_AddElement, Zenon
          <6>. QED  BY <1>5, <1>7, <6>2, <6>3
        <5>2. CASE addr[t] \notin Addr
          <6>0. addr[t] = Empty
            BY <3>1, <5>2, Zenon
          <6>1. Held(i)' = Held(i)
            <7>1. \A q \in Slots : slots'[i][q] \in Addr <=> slots[i][q] \in Addr
              BY <3>1, <3>4, <4>2, <6>0, Zenon
            <7>. QED  BY <4>2, <7>1, Zenon DEF Held
          <6>2. nulls'[i] = nulls[i] + 1
            BY <1>7, <3>1, <3>4, <6>0, Zenon DEF NullClaimed, Null
          <6>. QED  BY <1>5, <1>7, <6>1, <6>2
        <5>. QED  BY <5>1, <5>2, Zenon
      <4>5. Sum(i)' = Sum(i) + 1 /\ Sum(i) \in Int
        BY <1>5, <1>7, <3>2, <3>3, <4>3 DEF Sum
      <4>6. Cardinality(Held(i)) + nulls[i] \in Int
        BY <1>5, <1>7
      <4>. QED  BY <1>3, <4>4, <4>5, <4>6, OneMore, Zenon
    <3>5. CASE table[t] # i
      <4>1. At(i, "increment")' = At(i, "increment")
        BY <2>1a, <3>2, <3>3, <3>5, Zenon
      <4>2. Held(i)' = Held(i)
        <5>1. \A r \in Slots : slots'[i][r] = slots[i][r]
          BY <3>1, <3>5, Zenon
        <5>. QED  BY <1>1, <5>1, Zenon DEF Held, SameSetup
      <4>3. nulls'[i] = nulls[i]
        BY <1>7, <3>1, <3>5, Zenon DEF NullClaimed
      <4>. QED  BY <1>3, <3>2, <3>3, <4>1, <4>2, <4>3, CountStays, Zenon
    <3>. QED  BY <3>4, <3>5, Zenon
  <2>4. CASE Erase(t) /\ pc'[t] = "decrement"
    <3>1. PICK k \in TableIds, s \in Slots :
            /\ k = table[t]
            /\ slots[k][s] \in Addr /\ slots'[k][s] = Deleted /\ UNCHANGED <<locals, client>>
            /\ \A j \in TableIds, r \in Slots :
                 j # k \/ r # s => slots'[j][r] = slots[j][r]
      BY <1>1, <2>4, EraseStores, Zenon
    <3>2. pc[t] = "erase" /\ table' = table /\ count' = count /\ nulls' = nulls
      BY <2>4, <3>1, Zenon DEF Erase, locals, ghosts
    <3>3. At(i, "increment")' = At(i, "increment") /\ t \notin At(i, "decrement")
      <4>1. pc'[t] # "increment" /\ pc[t] # "decrement" /\ pc[t] # "increment"
        BY <2>4, <3>2, Zenon
      <4>. QED  BY <2>1a, <4>1, Zenon
    <3>4. CASE table[t] = i
      <4>1. At(i, "decrement")' = At(i, "decrement") \cup {t}
        BY <2>1a, <2>4, <3>2, <3>4, Zenon
      <4>2. Held(i)' = Held(i) \ {s} /\ s \in Held(i)
        <5>1. Addr' = Addr /\ Slots' = Slots /\ Empty \notin Addr /\ Deleted \notin Addr
          BY <1>1, Zenon DEF SameSetup, SetupInv
        <5>. QED  BY <3>1, <3>4, <5>1, Zenon DEF Held
      <4>3. Cardinality(At(i, "decrement")') = Cardinality(At(i, "decrement")) + 1
        BY <1>5, <3>3, <4>1, FS_AddElement, Zenon
      <4>4. Cardinality(Held(i)') = Cardinality(Held(i)) - 1 /\ Cardinality(Held(i)) > 0
        <5>1. Cardinality(Held(i) \ {s}) = Cardinality(Held(i)) - 1
          BY <1>5, <4>2, FS_RemoveElement, Zenon
        <5>2. Held(i) # {}
          BY <4>2, Zenon
        <5>3. Cardinality(Held(i)) # 0
          BY <1>5, <5>2, FS_EmptySet, Zenon
        <5>. QED  BY <1>5, <4>2, <5>1, <5>3
      <4>5. Sum(i)' = Sum(i) - 1 /\ Sum(i) \in Int
        BY <1>5, <1>7, <3>2, <3>3, <4>3 DEF Sum
      <4>6. /\ Cardinality(Held(i)) + nulls[i] \in Int
            /\ Cardinality(Held(i)') + nulls'[i] = (Cardinality(Held(i)) + nulls[i]) - 1
        BY <1>5, <1>7, <3>2, <4>4
      <4>7. PICK x \in Int, y \in Int : x = Sum(i) /\ y = Cardinality(Held(i)) + nulls[i]
        BY <4>5, <4>6, Zenon
      <4>8. x % CountModulus = y % CountModulus
        BY <1>3, <4>7, Zenon
      <4>9. (x - 1) % CountModulus = (y - 1) % CountModulus
        BY <4>8, OneMore, Zenon
      <4>10. Sum(i)' = x - 1 /\ Cardinality(Held(i)') + nulls'[i] = y - 1
        BY <4>5, <4>6, <4>7, Zenon
      <4>. QED  BY <4>9, <4>10, Zenon
    <3>5. CASE table[t] # i
      <4>1. At(i, "decrement")' = At(i, "decrement")
        BY <2>1a, <3>2, <3>3, <3>5, Zenon
      <4>2. Held(i)' = Held(i)
        <5>1. \A r \in Slots : slots'[i][r] = slots[i][r]
          BY <3>1, <3>5, Zenon
        <5>. QED  BY <1>1, <5>1, Zenon DEF Held, SameSetup
      <4>. QED  BY <1>3, <3>2, <3>3, <4>1, <4>2, CountStays, Zenon
    <3>. QED  BY <3>4, <3>5, Zenon
  <2>5. CASE Increment(t) \/ Decrement(t)
    <3>1. pc'[t] = "idle" /\ slots' = slots /\ nulls' = nulls
      BY <1>1, <2>2, <2>5, ReturnFlow, Zenon DEF Increment, Decrement, ghosts
    <3>2. \A p \in {"increment", "decrement"} : At(i, p)' = At(i, p) \ {t}
      <4>1. \A p \in {"increment", "decrement"} : pc'[t] # p
        BY <3>1, Zenon
      <4>. QED  BY <2>1a, <4>1, Zenon
    <3>3. CASE table[t] # i
      <4>1. \A p : t \notin At(i, p)
        BY <3>3, Zenon DEF At
      <4>2. \A p \in {"increment", "decrement"} : At(i, p)' = At(i, p)
        BY <3>2, <4>1
      <4>3. count'[i] = count[i]
        BY <1>7, <2>5, <3>3, Zenon DEF Increment, Decrement
      <4>. QED  BY <1>3, <1>8, <3>1, <4>2, <4>3, CountStays, Zenon
    <3>4. CASE table[t] = i /\ Increment(t)
      <4>1. pc[t] = "increment" /\ count'[i] = (count[i] + 1) % CountModulus
        BY <1>7, <3>4, Zenon DEF Increment
      <4>2. t \in At(i, "increment") /\ t \notin At(i, "decrement")
        BY <3>4, <4>1, Zenon DEF At
      <4>3. At(i, "decrement")' = At(i, "decrement")
        BY <3>2, <4>2, Zenon
      <4>4. Cardinality(At(i, "increment")') = Cardinality(At(i, "increment")) - 1
        BY <1>5, <3>2, <4>2, FS_RemoveElement
      <4>5. PICK c \in Int, m \in Nat, d \in Nat :
              /\ c = count[i] /\ m = Cardinality(At(i, "increment")) /\ d = Cardinality(At(i, "decrement"))
        BY <1>5, <1>7, Zenon
      <4>6. /\ Sum(i) = c + m - d
            /\ Sum(i)' = ((c + 1) % CountModulus) + (m - 1) - d
        BY <4>1, <4>3, <4>4, <4>5, Zenon DEF Sum
      <4>7. Sum(i)' % CountModulus = Sum(i) % CountModulus
        <5>1. (((c + 1) % CountModulus) + (m - 1 - d)) % CountModulus = ((c + 1) + (m - 1 - d)) % CountModulus
          BY Wraps
        <5>2. (c + 1) % CountModulus \in Int
          BY DEF CountModulus
        <5>3. /\ ((c + 1) % CountModulus) + (m - 1) - d = ((c + 1) % CountModulus) + (m - 1 - d)
              /\ (c + 1) + (m - 1 - d) = c + m - d
          BY <5>2
        <5>. QED  BY <4>6, <5>1, <5>3, Zenon
      <4>. QED  BY <1>3, <1>8, <3>1, <4>7, Zenon
    <3>5. CASE table[t] = i /\ Decrement(t)
      <4>1. pc[t] = "decrement" /\ count'[i] = (count[i] - 1) % CountModulus
        BY <1>7, <3>5, Zenon DEF Decrement
      <4>2. t \in At(i, "decrement") /\ t \notin At(i, "increment")
        BY <3>5, <4>1, Zenon DEF At
      <4>3. At(i, "increment")' = At(i, "increment")
        BY <3>2, <4>2, Zenon
      <4>4. Cardinality(At(i, "decrement")') = Cardinality(At(i, "decrement")) - 1
        BY <1>5, <3>2, <4>2, FS_RemoveElement
      <4>5. PICK c \in Int, m \in Nat, d \in Nat :
              /\ c = count[i] /\ m = Cardinality(At(i, "increment")) /\ d = Cardinality(At(i, "decrement"))
        BY <1>5, <1>7, Zenon
      <4>6. /\ Sum(i) = c + m - d
            /\ Sum(i)' = ((c - 1) % CountModulus) + m - (d - 1)
        BY <4>1, <4>3, <4>4, <4>5, Zenon DEF Sum
      <4>7. Sum(i)' % CountModulus = Sum(i) % CountModulus
        <5>1. (((c - 1) % CountModulus) + (m - (d - 1))) % CountModulus = ((c - 1) + (m - (d - 1))) % CountModulus
          BY Wraps
        <5>2. (c - 1) % CountModulus \in Int
          BY DEF CountModulus
        <5>3. /\ ((c - 1) % CountModulus) + m - (d - 1) = ((c - 1) % CountModulus) + (m - (d - 1))
              /\ (c - 1) + (m - (d - 1)) = c + m - d
          BY <5>2
        <5>. QED  BY <4>6, <5>1, <5>3, Zenon
      <4>. QED  BY <1>3, <1>8, <3>1, <4>7, Zenon
    <3>. QED  BY <2>5, <3>3, <3>4, <3>5, Zenon
  <2>6. CASE ~(Claim(t) /\ pc'[t] = "increment") /\ ~(Erase(t) /\ pc'[t] = "decrement")
             /\ ~Increment(t) /\ ~Decrement(t)
    <3>1. /\ slots' = slots /\ count' = count /\ nulls' = nulls
          /\ \A p \in {"increment", "decrement"} : pc[t] # p /\ pc'[t] # p
      BY <1>1, <1>9, <2>6, CountIdle, Zenon
    <3>2. \A p \in {"increment", "decrement"} : At(i, p)' = At(i, p)
      BY <2>1a, <3>1, Zenon
    <3>. QED  BY <1>3, <1>8, <3>1, <3>2, CountStays, Zenon
  <2>. QED  BY <2>3, <2>4, <2>5, <2>6, Zenon
<1>10. ASSUME NEW t \in Threads, Calls(t)
       PROVE  Sum(i)' % CountModulus = (Cardinality(Held(i)') + nulls'[i]) % CountModulus
  <2>1. \A u \in Threads : u # t => Same(u)
    BY <1>10, OthersStay, Zenon
  <2>1a. \A p \in {"increment", "decrement"} :
           /\ (t \in At(i, p)') <=> table'[t] = i /\ pc'[t] = p
           /\ (t \in At(i, p)) <=> table[t] = i /\ pc[t] = p
           /\ (t \in At(i, p)' <=> t \in At(i, p)) => At(i, p)' = At(i, p)
           /\ t \in At(i, p)' => At(i, p)' = At(i, p) \cup {t}
           /\ t \notin At(i, p)' => At(i, p)' = At(i, p) \ {t}
    BY <2>1, AtMoves, Zenon
  <2>2. pc[t] = "idle" /\ pc'[t] = "load" /\ slots' = slots /\ count' = count /\ nulls' = nulls
    BY <1>10, Zenon DEF Calls, CallAdd, CallAddNull, CallRemove, Call, Goto, tables, ghosts, TypeInv, CallsTyped
  <2>3. \A p \in {"increment", "decrement"} : pc[t] # p /\ pc'[t] # p
    BY <2>2, Zenon
  <2>4. \A p \in {"increment", "decrement"} : At(i, p)' = At(i, p)
    BY <2>1a, <2>3, Zenon
  <2>. QED  BY <1>3, <1>8, <2>2, <2>4, CountStays, Zenon
<1>11. CASE UNCHANGED vars \/ \E a \in Addr : Allocate(a)
  <2>1. slots' = slots /\ count' = count /\ nulls' = nulls /\ table' = table /\ pc' = pc
    BY <1>11, Zenon DEF vars, tables, ghosts, locals, Allocate
  <2>2. \A p \in {"increment", "decrement"} : At(i, p)' = At(i, p)
    BY <2>1, Zenon DEF At
  <2>. QED  BY <1>3, <1>8, <2>1, <2>2, CountStays, Zenon
<1>. QED  BY <1>9, <1>10, <1>11, Zenon DEF Next, Calls

-----------------------------------------------------------------------------
(* Addresses that are removed before they are given out again *)

\* A step of a call ends it or goes on.
LEMMA StepKinds ==
  ASSUME TypeInv, NEW t \in Threads, Step(t)
  PROVE  /\ pc[t] # "idle"
         /\ \/ \E result \in BOOLEAN : Return(t, result)
            \/ pc'[t] # "idle" /\ UNCHANGED <<op, addr, client>>
<1>. CallsTyped
  BY Zenon DEF TypeInv
<1>1. CASE LoadTable(t)
  <2>1. pc[t] = "load"
    BY <1>1, Zenon DEF LoadTable
  <2>2. CASE ~Return(t, FALSE)
    <3>1. pc'[t] \in {"create", "capacity", "probe"} /\ UNCHANGED <<op, addr, client>>
      BY <1>1, <2>2, Zenon DEF LoadTable, CallsTyped
    <3>. QED  BY <2>1, <3>1, Zenon
  <2>. QED  BY <2>1, <2>2, Zenon
<1>2. CASE CreateTable(t) \/ InstallTable(t)
  BY <1>2, Zenon DEF CreateTable, InstallTable, Goto, CallsTyped
<1>3. CASE CheckCapacity(t)
  <2>1. pc[t] = "capacity" /\ (Return(t, FALSE) \/ (pc'[t] = "probe" /\ UNCHANGED <<op, addr, client>>))
    BY <1>3, Zenon DEF CheckCapacity, CallsTyped, locals
  <2>. QED  BY <2>1, Zenon
<1>4. ASSUME NextSlot(t)
      PROVE  Return(t, FALSE) \/ (pc'[t] = "probe" /\ UNCHANGED <<op, addr, client>>)
  BY <1>4, Zenon DEF NextSlot, CallsTyped
<1>5. CASE ProbeAdd(t)
  <2>1. /\ pc[t] = "probe"
        /\ Return(t, FALSE) \/ (pc'[t] \in {"probe", "claim"} /\ UNCHANGED <<op, addr, client>>)
    BY <1>4, <1>5, Zenon DEF ProbeAdd, CallsTyped
  <2>. QED  BY <2>1, Zenon
<1>6. CASE Claim(t)
  <2>1. pc[t] = "claim" /\ pc'[t] \in {"increment", "reload"} /\ UNCHANGED <<op, addr, client>>
    BY <1>6, Zenon DEF Claim, CallsTyped, locals
  <2>. QED  BY <2>1, Zenon
<1>7. CASE Reload(t)
  <2>1. /\ pc[t] = "reload"
        /\ Return(t, FALSE) \/ (pc'[t] = "probe" /\ UNCHANGED <<op, addr, client>>)
    BY <1>4, <1>7, Zenon DEF Reload
  <2>. QED  BY <2>1, Zenon
<1>8. CASE Increment(t) \/ Decrement(t)
  BY <1>8, Zenon DEF Increment, Decrement
<1>9. CASE ProbeRemove(t)
  <2>1. /\ pc[t] = "probe"
        /\ Return(t, FALSE) \/ (pc'[t] \in {"probe", "erase"} /\ UNCHANGED <<op, addr, client>>)
    BY <1>4, <1>9, Zenon DEF ProbeRemove, CallsTyped, locals
  <2>. QED  BY <2>1, Zenon
<1>10. CASE Erase(t)
  <2>1. /\ pc[t] = "erase"
        /\ Return(t, FALSE) \/ (pc'[t] = "decrement" /\ UNCHANGED <<op, addr, client>>)
    BY <1>10, Zenon DEF Erase, CallsTyped, locals
  <2>. QED  BY <2>1, Zenon
<1>. QED  BY <1>1, <1>2, <1>3, <1>5, <1>6, <1>7, <1>8, <1>9, <1>10, Zenon DEF Step

\* The calls on one address go on following each other.
LEMMA TurnStep ==
  ASSUME TypeInv, ~EarlyReuse, TurnInv, [Next]_vars
  PROVE  TurnInv'
<1>0. SameSetup /\ CallsTyped
  BY SetupStays, Zenon DEF TypeInv
<1>1. ASSUME NEW t \in Threads, NEW a \in Addr, CallAdd(t, a) \/ CallRemove(t, a)
      PROVE  TurnInv'
  <2>1. \A u \in Threads : u # t => Same(u)
    BY <1>1, OthersStay, Zenon DEF Calls
  <2>2. /\ addr'[t] = a /\ life[a] # "busy" /\ life' = [life EXCEPT ![a] = "busy"]
        /\ tracked' = tracked /\ pc'[t] = "load"
    BY <1>0, <1>1, Zenon DEF CallAdd, CallRemove, Call, Goto, CallsTyped
  <2>3. \A u \in Threads : pc[u] # "idle" => addr[u] # a
    BY <1>0, <2>2, Zenon DEF TurnInv, CallsTyped
  <2>4. life'[a] = "busy" /\ \A b \in Addr : b # a => life'[b] = life[b]
    BY <1>0, <2>2, Zenon DEF CallsTyped
  <2>5. (\A u, v \in Threads : pc[u] # "idle" /\ pc[v] # "idle" /\ addr[u] = addr[v] /\ addr[u] \in Addr => u = v)'
    <3>1. ASSUME NEW u \in Threads, NEW v \in Threads, pc'[u] # "idle", pc'[v] # "idle", addr'[u] = addr'[v],
                 addr'[u] \in Addr
          PROVE  u = v
      <4>1. CASE u = t \/ v = t
        <5>1. \A w \in Threads : pc'[w] # "idle" /\ w # t => addr'[w] # a
          BY <2>1, <2>3, Zenon DEF Same
        <5>. QED  BY <2>2, <3>1, <4>1, <5>1, Zenon
      <4>2. CASE u # t /\ v # t
        <5>1. Same(u) /\ Same(v)
          BY <2>1, <4>2, Zenon
        <5>2. pc[u] # "idle" /\ pc[v] # "idle" /\ addr[u] = addr[v] /\ addr[u] \in Addr
          BY <3>1, <5>1, Zenon DEF Same
        <5>. QED  BY <5>2, Zenon DEF TurnInv
      <4>. QED  BY <4>1, <4>2, Zenon
    <3>. QED  BY <1>0, <3>1, Zenon DEF SameSetup
  <2>6. (\A u \in Threads : pc[u] # "idle" /\ addr[u] \in Addr => life[addr[u]] = "busy")'
    <3>1. ASSUME NEW u \in Threads, pc'[u] # "idle", addr'[u] \in Addr  PROVE life'[addr'[u]] = "busy"
      <4>1. CASE u = t
        BY <2>2, <2>4, <4>1, Zenon
      <4>2. CASE u # t
        <5>1. pc[u] # "idle" /\ addr'[u] = addr[u] /\ addr[u] # a /\ addr[u] \in Addr
          BY <2>1, <2>3, <3>1, <4>2, Zenon DEF Same
        <5>. QED  BY <2>4, <5>1, Zenon DEF TurnInv
      <4>. QED  BY <4>1, <4>2, Zenon
    <3>. QED  BY <1>0, <3>1, Zenon DEF SameSetup
  <2>7. (\A b \in Addr : life[b] = "free" => b \notin tracked)'
    <3>1. "busy" # "free"
      BY Zenon
    <3>. QED  BY <1>0, <2>2, <2>4, <3>1, Zenon DEF TurnInv, SameSetup
  <2>. QED  BY <2>5, <2>6, <2>7, Zenon DEF TurnInv
<1>2. ASSUME NEW t \in Threads, Step(t)  PROVE TurnInv'
  <2>1. \A u \in Threads : u # t => Same(u)
    BY <1>2, OthersStay, Zenon
  <2>2. pc[t] # "idle"
    BY <1>2, StepKinds, Zenon
  <2>3. CASE \E result \in BOOLEAN : Return(t, result)
    <3>1. PICK result \in BOOLEAN : Return(t, result)
      BY <2>3, Zenon
    <3>2. pc'[t] = "idle" /\ addr' = addr
      BY <1>0, <3>1, Zenon DEF Return, CallsTyped
    <3>3. \A b \in Addr : b # addr[t] => life'[b] = life[b] /\ (b \in tracked' <=> b \in tracked)
      BY <1>0, <3>1, Zenon DEF Return, CallsTyped
    <3>4. addr[t] \in Addr /\ life'[addr[t]] = "free" => addr[t] \notin tracked'
      <4>1. CASE op[t] = "add"
        <5>1. addr[t] \in Addr => life'[addr[t]] = "live"
          <6>1. op[t] # "remove"
            BY <4>1, Zenon
          <6>. QED  BY <3>1, <4>1, <6>1, Zenon DEF Return
        <5>. QED  BY <5>1, Zenon
      <4>2. CASE op[t] # "add"
        BY <3>1, <4>2, Zenon DEF Return
      <4>. QED  BY <4>1, <4>2, Zenon
    <3>5. (\A u, v \in Threads : pc[u] # "idle" /\ pc[v] # "idle" /\ addr[u] = addr[v] /\ addr[u] \in Addr => u = v)'
      BY <1>0, <2>1, <3>2, Zenon DEF TurnInv, Same, SameSetup
    <3>6. (\A u \in Threads : pc[u] # "idle" /\ addr[u] \in Addr => life[addr[u]] = "busy")'
      <4>1. ASSUME NEW u \in Threads, pc'[u] # "idle", addr'[u] \in Addr  PROVE life'[addr'[u]] = "busy"
        <5>1. u # t /\ pc[u] # "idle" /\ addr[u] \in Addr /\ addr'[u] = addr[u]
          BY <1>0, <2>1, <3>2, <4>1, Zenon DEF Same, CallsTyped
        <5>2. addr[u] # addr[t] /\ life[addr[u]] = "busy"
          BY <2>2, <5>1, Zenon DEF TurnInv
        <5>. QED  BY <3>3, <5>1, <5>2, Zenon
      <4>. QED  BY <1>0, <4>1, Zenon DEF SameSetup
    <3>7. (\A b \in Addr : life[b] = "free" => b \notin tracked)'
      BY <1>0, <3>3, <3>4, Zenon DEF TurnInv, SameSetup
    <3>. QED  BY <3>5, <3>6, <3>7, Zenon DEF TurnInv
  <2>4. CASE pc'[t] # "idle" /\ UNCHANGED <<op, addr, client>>
    <3>1. \A u \in Threads : pc'[u] # "idle" <=> pc[u] # "idle"
      BY <2>1, <2>2, <2>4, Zenon DEF Same
    <3>2. life' = life /\ tracked' = tracked /\ addr' = addr
      BY <2>4, Zenon DEF client
    <3>. QED  BY <1>0, <3>1, <3>2, Zenon DEF TurnInv, SameSetup
  <2>. QED  BY <1>2, <2>3, <2>4, StepKinds, Zenon
<1>3. CASE UNCHANGED vars
  BY <1>0, <1>3, Zenon DEF vars, locals, client, TurnInv, SameSetup
<1>4. ASSUME NEW a \in Addr, Allocate(a)  PROVE TurnInv'
  <2>1. pc' = pc /\ addr' = addr /\ tracked' = tracked /\ life[a] = "free" /\ life' = [life EXCEPT ![a] = "live"]
    BY <1>4, Zenon DEF Allocate, locals
  <2>2. "live" # "free" /\ "busy" # "free"
    BY Zenon
  <2>3. \A b \in Addr : life'[b] = IF b = a THEN "live" ELSE life[b]
    BY <1>0, <2>1, Zenon DEF CallsTyped
  <2>4. (\A u \in Threads : pc[u] # "idle" /\ addr[u] \in Addr => life[addr[u]] = "busy")'
    <3>. QED  BY <1>0, <2>1, <2>2, <2>3, Zenon DEF TurnInv, SameSetup
  <2>5. (\A u, v \in Threads : pc[u] # "idle" /\ pc[v] # "idle" /\ addr[u] = addr[v] /\ addr[u] \in Addr => u = v)'
    BY <1>0, <2>1, Zenon DEF TurnInv, SameSetup
  <2>6. (\A b \in Addr : life[b] = "free" => b \notin tracked)'
    BY <1>0, <2>1, <2>2, <2>3, Zenon DEF TurnInv, SameSetup
  <2>. QED  BY <2>4, <2>5, <2>6, Zenon DEF TurnInv
<1>5. ASSUME NEW t \in Threads, CallAddNull(t)  PROVE TurnInv'
  <2>1. \A u \in Threads : u # t => Same(u)
    BY <1>5, OthersStay, Zenon DEF Calls
  <2>2. addr'[t] = Null /\ Null \notin Addr /\ life' = life /\ tracked' = tracked
    BY <1>0, <1>5, Zenon DEF CallAddNull, Call, CallsTyped, Addr
  <2>3. \A u \in Threads : pc'[u] # "idle" /\ addr'[u] \in Addr => pc[u] # "idle" /\ addr[u] = addr'[u]
    BY <2>1, <2>2, Zenon DEF Same
  <2>. QED  BY <1>0, <2>2, <2>3, Zenon DEF TurnInv, SameSetup
<1>. QED  BY <1>1, <1>2, <1>3, <1>4, <1>5, Zenon DEF Next

\* While a call on an address is under way, and has not changed a slot, the
\* address is stored if it is tracked.
LEMMA Alone ==
  ASSUME TurnInv, OnceInv, NEW t \in Threads, NEW a \in Addr, addr[t] = a, pc[t] # "idle",
         pc[t] \notin {"increment", "decrement"}
  PROVE  Stored(a) <=> a \in tracked
<1>1. ASSUME NEW u \in Threads, addr[u] = a, pc[u] \in {"increment", "decrement"}  PROVE FALSE
  <2>1. pc[u] # "idle"
    BY <1>1, Zenon
  <2>2. u = t
    BY <1>1, <2>1, Zenon DEF TurnInv
  <2>. QED  BY <1>1, <2>2, Zenon
<1>2. ~Between(a)
  BY <1>1, Zenon DEF Between
<1>. QED  BY <1>2, Zenon DEF OnceInv

\* A step leaves address a where it is.
Untouched(a) ==
  /\ a \in tracked' <=> a \in tracked
  /\ \A i \in TableIds, s \in Slots : slots'[i][s] = a <=> slots[i][s] = a

\* Then it is stored if it was.
LEMMA StoredStays ==
  ASSUME SameSetup, NEW a, Untouched(a)
  PROVE  Stored(a)' <=> Stored(a)
BY Zenon DEF Stored, Untouched, SameSetup

\* A call that another thread's step neither moves nor touches.
LEMMA OnceStays ==
  ASSUME TypeInv, SameSetup, NEW t \in Threads, NEW a \in Addr, FlowAt(t), Same(t), OnceAt(t, a),
         Untouched(a)
  PROVE  OnceAt(t, a)'
<1>1. Stored(a)' <=> Stored(a)
  BY StoredStays, Zenon
<1>2. slot[t] \in Slots
  BY Zenon DEF TypeInv, CallsTyped
<1>3. pc[t] \in {"erase", "probe"} => table[t] \in TableIds
  BY Zenon DEF FlowAt, Using
<1>4. pc[t] = "erase" => slots'[table[t]][slot[t]] = a
  BY <1>2, <1>3, Zenon DEF OnceAt, Untouched
<1>5. pc[t] = "probe" /\ op[t] = "remove" =>
        \A s \in Slots : slots'[table[t]][s] = a => probe[t] <= Dist(TableSize, Home[a], s)
  BY <1>3, Zenon DEF OnceAt, Untouched
<1>6. /\ pc[t] # "idle" /\ op[t] = "add" => a \notin tracked'
      /\ pc[t] = "increment" => Stored(a)'
      /\ pc[t] = "decrement" => a \in tracked' /\ ~Stored(a)'
  BY <1>1, Zenon DEF OnceAt, Untouched
<1>. QED  BY <1>4, <1>5, <1>6, Zenon DEF OnceAt, Same, SameSetup

\* Uniqueness is kept when no address is stored.
LEMMA UniqueStays ==
  ASSUME SameSetup, UniqueInv,
         \A a \in Addr, i \in TableIds, s \in Slots : slots'[i][s] = a => slots[i][s] = a
  PROVE  UniqueInv'
<1>. SUFFICES ASSUME NEW a \in Addr, NEW i \in TableIds, NEW j \in TableIds, NEW r \in Slots, NEW s \in Slots,
                     slots'[i][r] = a, slots'[j][s] = a
              PROVE  i = j /\ r = s
  BY DEF UniqueInv, SameSetup
<1>1. slots[i][r] = a /\ slots[j][s] = a
  BY Zenon
<1>. QED  BY <1>1 DEF UniqueInv

\* The steps of t concern its own address, and the others stay as they are.
LEMMA OnceOthers ==
  ASSUME TypeInv, FlowInv, SameSetup, OnceInv, NEW t \in Threads, NEW a \in Addr, addr'[t] = a,
         \A u \in Threads : u # t => Same(u),
         \A u \in Threads : u # t /\ pc[u] # "idle" => addr[u] # a,
         \A b \in Addr : b # a => Untouched(b),
         pc[t] \in {"increment", "decrement"} => addr[t] = a,
         pc'[t] # "idle" => OnceAt(t, a)',
         pc'[t] \in {"increment", "decrement"} \/ (Stored(a)' <=> a \in tracked'),
         UniqueInv', ~wrong'
  PROVE  OnceInv'
<1>1. ASSUME NEW u \in Threads, NEW b \in Addr, addr'[u] = b  PROVE OnceAt(u, b)'
  <2>1. CASE pc'[u] = "idle"
    BY <2>1, Zenon DEF OnceAt
  <2>2. CASE pc'[u] # "idle" /\ u = t
    BY <1>1, <2>2, Zenon
  <2>3. CASE pc'[u] # "idle" /\ u # t
    <3>1. Same(u)
      BY <2>3, Zenon
    <3>2. pc[u] # "idle" /\ addr[u] = b
      BY <1>1, <2>3, <3>1, Zenon DEF Same
    <3>3. b # a
      BY <2>3, <3>2, Zenon
    <3>4. FlowAt(u) /\ OnceAt(u, b) /\ Untouched(b)
      BY <3>2, <3>3, Zenon DEF FlowInv, OnceInv
    <3>. QED  BY <3>1, <3>4, OnceStays, Zenon
  <2>. QED  BY <2>1, <2>2, <2>3, Zenon
<1>2. ASSUME NEW b \in Addr, ~Between(b)'  PROVE Stored(b)' <=> b \in tracked'
  <2>1. CASE b = a
    <3>1. pc'[t] \notin {"increment", "decrement"}
      BY <1>2, <2>1, Zenon DEF Between
    <3>. QED  BY <2>1, <3>1, Zenon
  <2>2. CASE b # a
    <3>1. ASSUME NEW u \in Threads, addr[u] = b, pc[u] \in {"increment", "decrement"}  PROVE FALSE
      <4>1. u # t
        BY <2>2, <3>1, Zenon
      <4>2. Same(u)
        BY <4>1, Zenon
      <4>. QED  BY <1>2, <3>1, <4>2, Zenon DEF Between, Same
    <3>2. Stored(b) <=> b \in tracked
      BY <3>1, Zenon DEF OnceInv, Between
    <3>3. Untouched(b)
      BY <2>2, Zenon
    <3>4. Stored(b)' <=> Stored(b)
      BY <3>3, StoredStays, Zenon
    <3>. QED  BY <3>2, <3>3, <3>4, Zenon DEF Untouched
  <2>. QED  BY <2>1, <2>2, Zenon
<1>. QED  BY <1>1, <1>2, Zenon DEF OnceInv, SameSetup

\* A call that returns, having found what it should.
LEMMA ReturnOnce ==
  ASSUME TypeInv, FlowInv, SameSetup, TurnInv, OnceInv,
         NEW t \in Threads, NEW a \in Addr, addr[t] = a, NEW result \in BOOLEAN,
         \A u \in Threads : u # t => Same(u),
         Return(t, result), slots' = slots, pc[t] # "idle",
         op[t] = "add" => pc[t] # "decrement" /\ (result <=> pc[t] = "increment"),
         op[t] = "remove" => ~Stored(a) /\ (result <=> a \in tracked)
  PROVE  OnceInv'
<1>0. CallsTyped /\ OnceAt(t, a)
  BY Zenon DEF TypeInv, OnceInv
<1>1. pc'[t] = "idle" /\ addr'[t] = a /\ op[t] \in {"add", "remove"}
  BY <1>0, Zenon DEF Return, CallsTyped
<1>2. \A u \in Threads : u # t /\ pc[u] # "idle" => addr[u] # a
  BY Zenon DEF TurnInv
<1>3. \A b \in Addr : b # a => Untouched(b)
  BY Zenon DEF Return, Untouched
<1>4. Stored(a)' <=> Stored(a)
  BY Zenon DEF Stored, SameSetup
<1>5. UniqueInv'
  BY UniqueStays, Zenon DEF OnceInv
<1>6. (Stored(a)' <=> a \in tracked') /\ ~wrong'
  <2>1. CASE op[t] = "remove"
    <3>1. a \notin tracked' /\ ~wrong'
      <4>1. a \notin tracked'
        BY <2>1, Zenon DEF Return
      <4>2. result = (a \in tracked)
        BY <2>1
      <4>. QED  BY <2>1, <4>1, <4>2, Zenon DEF Return, OnceInv
    <3>. QED  BY <1>4, <2>1, <3>1, Zenon
  <2>2. CASE op[t] = "add" /\ pc[t] = "increment"
    <3>1. a \in tracked' /\ ~wrong' /\ Stored(a)
      BY <1>0, <2>2, Zenon DEF Return, OnceInv, OnceAt, Addr
    <3>. QED  BY <1>4, <3>1, Zenon
  <2>3. CASE op[t] = "add" /\ pc[t] # "increment"
    <3>1. tracked' = tracked /\ ~wrong' /\ pc[t] \notin {"increment", "decrement"}
      BY <2>3, Zenon DEF Return, OnceInv
    <3>. QED  BY <1>4, <3>1, Alone, Zenon
  <2>. QED  BY <1>1, <2>1, <2>2, <2>3, Zenon
<1>. QED  BY <1>1, <1>2, <1>3, <1>5, <1>6, OnceOthers, Zenon

\* A call that goes on without changing a slot.
LEMMA GoOnce ==
  ASSUME TypeInv, FlowInv, SameSetup, TurnInv, OnceInv,
         NEW t \in Threads, NEW a \in Addr, addr[t] = a,
         \A u \in Threads : u # t => Same(u),
         UNCHANGED <<addr, client>>, slots' = slots, pc[t] # "idle",
         pc[t] \notin {"increment", "decrement"}, OnceAt(t, a)'
  PROVE  OnceInv'
<1>1. \A u \in Threads : u # t /\ pc[u] # "idle" => addr[u] # a
  BY Zenon DEF TurnInv
<1>2. \A b : Untouched(b)
  BY Zenon DEF client, Untouched
<1>3. Stored(a)' <=> a \in tracked'
  <2>1. Stored(a)' <=> Stored(a)
    BY <1>2, StoredStays, Zenon
  <2>. QED  BY <2>1, Alone, Zenon DEF client
<1>4. UniqueInv'
  BY UniqueStays, Zenon DEF OnceInv
<1>5. ~wrong' /\ addr'[t] = a
  BY Zenon DEF OnceInv, client
<1>. QED  BY <1>1, <1>2, <1>3, <1>4, <1>5, OnceOthers, Zenon

\* A search that has not found its address yet will find it further along, if it
\* is stored.
LEMMA NotYet ==
  ASSUME TypeInv, SetupInv, ReachInv, NEW t \in Threads, NEW a \in Addr, addr[t] = a,
         FlowAt(t), OnceAt(t, a), pc[t] = "probe", op[t] = "remove",
         slots[table[t]][slot[t]] # a
  PROVE  /\ slots[table[t]][slot[t]] = Empty => ~Stored(a)
         /\ probe[t] + 1 = MaxProbe => ~Stored(a)
         /\ \A s \in Slots : slots[table[t]][s] = a => probe[t] + 1 <= Dist(TableSize, Home[a], s)
<1>1. PICK n, h, q, p, m :
        /\ n = TableSize /\ h = Home[a] /\ q = slot[t] /\ p = probe[t] /\ m = MaxProbe
        /\ n \in Nat \ {0} /\ h \in 0 .. n - 1 /\ q \in 0 .. n - 1 /\ p \in Nat /\ m \in Nat
        /\ Slots = 0 .. n - 1
  BY Zenon DEF SetupInv, TypeInv, CallsTyped
<1>2. /\ table[t] \in TableIds /\ table[t] = chunk_tables[Chunk[a]]
      /\ p < n => Dist(n, h, q) = p
  BY <1>1, Zenon DEF FlowAt, Using, Looking
<1>3. ASSUME NEW i \in TableIds, NEW s \in Slots, slots[i][s] = a
      PROVE  i = table[t] /\ p + 1 <= Dist(n, h, s) /\ Dist(n, h, s) < m /\ slots[i][q] # Empty
  <2>1. /\ i = table[t] /\ Dist(n, h, s) < m
        /\ Passed(slots[i], n, h, Dist(n, h, s))
    BY <1>1, <1>2, <1>3, Zenon DEF ReachInv, Reached
  <2>2. p <= Dist(n, h, s)
    BY <1>1, <1>3, <2>1, Zenon DEF OnceAt
  <2>3. /\ s \in 0 .. n - 1 /\ s # q
    BY <1>1, <1>3, <2>1, Zenon
  <2>4. n \in Nat \ {0} /\ h \in 0 .. n - 1 /\ q \in 0 .. n - 1 /\ p \in Nat
    BY <1>1, Zenon
  <2>5. Dist(n, h, s) \in 0 .. n - 1 /\ Dist(n, h, q) \in 0 .. n - 1 /\ Dist(n, h, s) # Dist(n, h, q)
    BY <2>3, <2>4, DistIs
  <2>6. Dist(n, h, q) = p /\ p + 1 <= Dist(n, h, s) /\ Dist(n, h, q) < Dist(n, h, s)
    BY <1>2, <2>2, <2>4, <2>5
  <2>7. slots[i][q] # Empty
    BY <2>1, <2>4, <2>6, Zenon DEF Passed
  <2>. QED  BY <2>1, <2>6, <2>7, Zenon
<1>4. p + 1 = m => ~Stored(a)
  <2>1. \A i \in TableIds, s \in Slots : slots[i][s] = a => p + 1 # m
    <3>. SUFFICES ASSUME NEW i \in TableIds, NEW s \in Slots, slots[i][s] = a  PROVE p + 1 # m
      BY Zenon
    <3>1. p + 1 <= Dist(n, h, s) /\ Dist(n, h, s) < m
      BY <1>3, Zenon
    <3>2. n \in Nat \ {0} /\ h \in 0 .. n - 1 /\ s \in 0 .. n - 1 /\ p \in Nat /\ m \in Nat
      BY <1>1, Zenon
    <3>3. Dist(n, h, s) \in 0 .. n - 1
      BY <3>2, DistIs, Zenon
    <3>. QED  BY <3>1, <3>2, <3>3
  <2>. QED  BY <2>1, Zenon DEF Stored
<1>5. slots[table[t]][q] = Empty => ~Stored(a)
  BY <1>3, Zenon DEF Stored
<1>. QED  BY <1>1, <1>2, <1>3, <1>4, <1>5, Zenon

\* A search for an address to remove goes on, or gives up when there is none.
LEMMA SearchOnce ==
  ASSUME TypeInv, FlowInv, SetupInv, SameSetup, ReachInv, TurnInv, OnceInv,
         NEW t \in Threads, NEW a \in Addr, addr[t] = a,
         \A u \in Threads : u # t => Same(u),
         pc[t] = "probe", op[t] = "remove", slots' = slots,
         slots[table[t]][slot[t]] # a, NextSlot(t)
  PROVE  OnceInv'
<1>1. FlowAt(t) /\ OnceAt(t, a) /\ CallsTyped
  BY Zenon DEF FlowInv, OnceInv, TypeInv
<1>2. pc[t] # "idle" /\ pc[t] \notin {"increment", "decrement"} /\ op[t] # "add"
  BY Zenon
<1>3. CASE probe[t] + 1 = MaxProbe
  <2>1. ~Stored(a)
    BY <1>1, <1>3, NotYet, Zenon
  <2>2. a \notin tracked
    BY <1>2, <2>1, Alone, Zenon
  <2>3. Return(t, FALSE)
    BY <1>3, Zenon DEF NextSlot
  <2>. QED  BY <1>2, <2>1, <2>2, <2>3, ReturnOnce, Zenon
<1>4. CASE probe[t] + 1 # MaxProbe
  <2>1. /\ pc'[t] = "probe" /\ op'[t] = op[t] /\ probe'[t] = probe[t] + 1 /\ table'[t] = table[t]
        /\ UNCHANGED <<addr, client>>
    BY <1>1, <1>4, Zenon DEF NextSlot, CallsTyped
  <2>2. \A s \in Slots : slots[table[t]][s] = a => probe[t] + 1 <= Dist(TableSize, Home[a], s)
    BY <1>1, NotYet, Zenon
  <2>3. pc'[t] \notin {"idle", "increment", "erase", "decrement"} /\ op'[t] # "add"
    BY <2>1, Zenon
  <2>4. OnceAt(t, a)'
    BY <2>1, <2>2, <2>3, Zenon DEF OnceAt, SameSetup
  <2>. QED  BY <1>2, <2>1, <2>4, GoOnce, Zenon
<1>. QED  BY <1>3, <1>4, Zenon

\* An add that goes on or gives up.
LEMMA AddOnce ==
  ASSUME TypeInv, FlowInv, SameSetup, TurnInv, OnceInv,
         NEW t \in Threads, NEW a \in Addr, addr[t] = a,
         \A u \in Threads : u # t => Same(u),
         pc[t] # "idle", pc[t] \notin {"increment", "decrement"}, op[t] = "add", slots' = slots,
         \/ Return(t, FALSE)
         \/ /\ pc'[t] \notin {"increment", "erase", "decrement"}
            /\ UNCHANGED <<op, addr, client>>
  PROVE  OnceInv'
<1>1. op[t] # "remove" /\ FALSE \in BOOLEAN /\ pc[t] # "increment" /\ pc[t] # "decrement"
  BY Zenon
<1>2. CASE Return(t, FALSE)
  BY <1>1, <1>2, ReturnOnce, Zenon
<1>3. CASE pc'[t] \notin {"increment", "erase", "decrement"} /\ UNCHANGED <<op, addr, client>>
  <2>1. a \notin tracked
    BY Zenon DEF OnceInv, OnceAt
  <2>2. pc'[t] # "increment" /\ pc'[t] # "erase" /\ pc'[t] # "decrement" /\ op'[t] # "remove"
    BY <1>1, <1>3, Zenon
  <2>3. OnceAt(t, a)'
    BY <1>3, <2>1, <2>2, Zenon DEF OnceAt, client
  <2>. QED  BY <1>3, <2>3, GoOnce, Zenon
<1>. QED  BY <1>2, <1>3, Zenon

\* An address is stored in a free slot.
LEMMA ClaimOnce ==
  ASSUME TypeInv, FlowInv, SetupInv, SameSetup, TurnInv, OnceInv,
         NEW t \in Threads, NEW a \in Addr, addr[t] = a,
         \A u \in Threads : u # t => Same(u), Claim(t), pc'[t] = "increment"
  PROVE  OnceInv'
<1>1. PICK i \in TableIds, s \in Slots :
        /\ slots[i][s] \in {Empty, Deleted} /\ slots'[i][s] = a
        /\ \A j \in TableIds, r \in Slots : j # i \/ r # s => slots'[j][r] = slots[j][r]
  BY ClaimStores, Zenon
<1>2. pc[t] = "claim" /\ UNCHANGED <<op, addr, client>>
  BY Zenon DEF Claim, locals
<1>3. pc[t] # "idle" /\ pc[t] \notin {"increment", "decrement"} /\ pc[t] \in Adding
  BY <1>2, Zenon DEF Adding
<1>4. op[t] = "add" /\ a \notin tracked
  BY <1>3, Zenon DEF FlowInv, FlowAt, OnceInv, OnceAt
<1>5. ~Stored(a)
  BY <1>3, <1>4, Alone, Zenon
<1>6. \A j \in TableIds, r \in Slots : slots'[j][r] = a => j = i /\ r = s
  BY <1>1, <1>5, Zenon DEF Stored
<1>7. \A b \in Addr : b # a => Untouched(b)
  <2>1. \A b \in Addr : slots[i][s] # b
    BY <1>1, Zenon DEF SetupInv
  <2>. QED  BY <1>1, <1>2, <2>1, Zenon DEF Untouched, client
<1>8. UniqueInv'
  <2>. SUFFICES ASSUME NEW b \in Addr, NEW k \in TableIds, NEW j \in TableIds, NEW q \in Slots, NEW r \in Slots,
                       slots'[k][q] = b, slots'[j][r] = b
                PROVE  k = j /\ q = r
    BY DEF UniqueInv, SameSetup
  <2>1. CASE b = a
    BY <1>6, <2>1, Zenon
  <2>2. CASE b # a
    <3>1. slots[k][q] = b /\ slots[j][r] = b
      BY <1>7, <2>2, Zenon DEF Untouched
    <3>2. UniqueInv
      BY Zenon DEF OnceInv
    <3>. QED  BY <3>1, <3>2 DEF UniqueInv
  <2>. QED  BY <2>1, <2>2, Zenon
<1>9. OnceAt(t, a)'
  <2>1. Stored(a)'
    BY <1>1, Zenon DEF Stored, SameSetup
  <2>2. pc'[t] # "erase" /\ pc'[t] # "decrement" /\ pc'[t] # "probe"
    BY Zenon
  <2>. QED  BY <1>2, <1>4, <2>1, <2>2, Zenon DEF OnceAt, client
<1>10. /\ \A u \in Threads : u # t /\ pc[u] # "idle" => addr[u] # a
       /\ ~wrong' /\ addr'[t] = a
  BY <1>2, <1>3, Zenon DEF TurnInv, OnceInv, client
<1>11. pc'[t] \in {"increment", "decrement"}
  BY Zenon
<1>. QED  BY <1>7, <1>8, <1>9, <1>10, <1>11, OnceOthers, Zenon

\* An address is erased.
LEMMA EraseOnce ==
  ASSUME TypeInv, FlowInv, SetupInv, SameSetup, TurnInv, OnceInv,
         NEW t \in Threads, NEW a \in Addr, addr[t] = a,
         \A u \in Threads : u # t => Same(u), Erase(t), pc'[t] = "decrement"
  PROVE  OnceInv'
<1>1. PICK i \in TableIds, s \in Slots :
        /\ slots[i][s] = a /\ slots'[i][s] = Deleted /\ UNCHANGED <<locals, client>>
        /\ \A j \in TableIds, r \in Slots : j # i \/ r # s => slots'[j][r] = slots[j][r]
  BY EraseStores, Zenon
<1>2. pc[t] = "erase" /\ UNCHANGED <<op, addr, client>>
  BY <1>1, Zenon DEF Erase, locals
<1>3. pc[t] # "idle" /\ pc[t] \notin {"increment", "decrement"}
  BY <1>2, Zenon
<1>4. a \in tracked
  <2>1. Stored(a)
    BY <1>1, Zenon DEF Stored
  <2>. QED  BY <1>3, <2>1, Alone, Zenon
<1>5. op[t] # "add"
  <2>1. op[t] = "remove"
    BY <1>2, Zenon DEF FlowInv, FlowAt
  <2>. QED  BY <2>1, Zenon
<1>6. \A b \in Addr : b # Deleted
  BY Zenon DEF SetupInv
<1>7. \A j \in TableIds, r \in Slots : slots'[j][r] # a
  <2>. SUFFICES ASSUME NEW j \in TableIds, NEW r \in Slots, slots'[j][r] = a  PROVE FALSE
    BY Zenon
  <2>1. slots[j][r] = a /\ (j # i \/ r # s)
    BY <1>1, <1>6, Zenon
  <2>2. UniqueInv
    BY Zenon DEF OnceInv
  <2>. QED  BY <1>1, <2>1, <2>2 DEF UniqueInv
<1>8. \A b \in Addr : b # a => Untouched(b)
  BY <1>1, <1>2, <1>6, Zenon DEF Untouched, client
<1>9. UniqueInv'
  <2>1. \A b \in Addr, j \in TableIds, r \in Slots : slots'[j][r] = b => slots[j][r] = b
    BY <1>1, <1>6, Zenon
  <2>. QED  BY <2>1, UniqueStays, Zenon DEF OnceInv
<1>10. OnceAt(t, a)'
  <2>1. ~Stored(a)'
    BY <1>7, Zenon DEF Stored, SameSetup
  <2>2. pc'[t] # "erase" /\ pc'[t] # "increment" /\ pc'[t] # "probe"
    BY Zenon
  <2>. QED  BY <1>2, <1>4, <1>5, <2>1, <2>2, Zenon DEF OnceAt, client
<1>11. /\ \A u \in Threads : u # t /\ pc[u] # "idle" => addr[u] # a
       /\ ~wrong' /\ addr'[t] = a
  BY <1>2, <1>3, Zenon DEF TurnInv, OnceInv, client
<1>12. pc'[t] \in {"increment", "decrement"}
  BY Zenon
<1>. QED  BY <1>8, <1>9, <1>10, <1>11, <1>12, OnceOthers, Zenon

\* A step of a call with the null pointer touches no address.
LEMMA NullOnce ==
  ASSUME TypeInv, FlowInv, SameSetup, OnceInv, NEW t \in Threads, addr'[t] \notin Addr,
         pc[t] \in {"increment", "decrement"} => addr[t] \notin Addr,
         \A u \in Threads : u # t => Same(u),
         \A b \in Addr : Untouched(b), ~wrong'
  PROVE  OnceInv'
<1>1. ASSUME NEW u \in Threads, NEW b \in Addr, addr'[u] = b  PROVE OnceAt(u, b)'
  <2>1. u # t
    BY <1>1, Zenon
  <2>2. Same(u)
    BY <2>1, Zenon
  <2>3. FlowAt(u) /\ OnceAt(u, b) /\ Untouched(b)
    BY <1>1, <2>2, Zenon DEF FlowInv, OnceInv, Same
  <2>. QED  BY <2>2, <2>3, OnceStays, Zenon
<1>2. ASSUME NEW b \in Addr, ~Between(b)'  PROVE Stored(b)' <=> b \in tracked'
  <2>1. ASSUME NEW u \in Threads, addr[u] = b, pc[u] \in {"increment", "decrement"}  PROVE FALSE
    <3>1. u # t
      BY <2>1, Zenon
    <3>2. Same(u)
      BY <3>1, Zenon
    <3>. QED  BY <1>2, <2>1, <3>2, Zenon DEF Between, Same
  <2>2. Stored(b) <=> b \in tracked
    BY <2>1, Zenon DEF OnceInv, Between
  <2>3. Untouched(b)
    BY Zenon
  <2>4. Stored(b)' <=> Stored(b)
    BY <2>3, StoredStays, Zenon
  <2>. QED  BY <2>2, <2>3, <2>4, Zenon DEF Untouched
<1>3. UniqueInv'
  <2>1. \A b \in Addr, i \in TableIds, s \in Slots : slots'[i][s] = b => slots[i][s] = b
    BY Zenon DEF Untouched
  <2>. QED  BY <2>1, UniqueStays, Zenon DEF OnceInv
<1>. QED  BY <1>1, <1>2, <1>3, Zenon DEF OnceInv, SameSetup

\* Stored and tracked addresses go on agreeing.
LEMMA OnceStep ==
  ASSUME TypeInv, FlowInv, ReachInv, ~EarlyReuse, TurnInv, OnceInv, [Next]_vars
  PROVE  OnceInv'
<1>0. SameSetup /\ SetupInv /\ CallsTyped /\ TablesTyped
  BY SetupStays, SetupIs, Zenon DEF TypeInv, TablesTyped
<1>1. ASSUME NEW t \in Threads, NEW a \in Addr, CallAdd(t, a) \/ CallRemove(t, a)  PROVE OnceInv'
  <2>1. \A u \in Threads : u # t => Same(u)
    BY <1>1, OthersStay, Zenon DEF Calls
  <2>2. /\ pc[t] = "idle" /\ pc'[t] = "load" /\ addr'[t] = a /\ slots' = slots
        /\ tracked' = tracked /\ wrong' = wrong
    BY <1>0, <1>1, Zenon DEF CallAdd, CallRemove, Call, Goto, CallsTyped, tables
  <2>3. life[a] # "busy" /\ (op'[t] = "add" => life[a] = "free")
    BY <1>0, <1>1, Zenon DEF CallAdd, CallRemove, Call, CallsTyped
  <2>4. \A u \in Threads : pc[u] # "idle" => addr[u] # a
    BY <2>3, Zenon DEF TurnInv
  <2>5. \A b : Untouched(b)
    BY <2>2, Zenon DEF Untouched
  <2>6. OnceAt(t, a)'
    <3>1. pc'[t] # "increment" /\ pc'[t] # "erase" /\ pc'[t] # "decrement" /\ pc'[t] # "probe"
      BY <2>2, Zenon
    <3>. QED  BY <2>2, <2>3, <3>1, Zenon DEF OnceAt, TurnInv
  <2>7. Stored(a)' <=> a \in tracked'
    <3>1. ~Between(a)
      <4>1. \A u \in Threads : addr[u] = a => pc[u] \notin {"increment", "decrement"}
        BY <2>4, Zenon
      <4>. QED  BY <4>1, Zenon DEF Between
    <3>2. Stored(a)' <=> Stored(a)
      BY <1>0, <2>5, StoredStays, Zenon
    <3>. QED  BY <2>2, <3>1, <3>2, Zenon DEF OnceInv
  <2>8. UniqueInv' /\ ~wrong'
    BY <1>0, <2>2, UniqueStays, Zenon DEF OnceInv
  <2>9. /\ pc[t] \in {"increment", "decrement"} => addr[t] = a
        /\ \A u \in Threads : u # t /\ pc[u] # "idle" => addr[u] # a
        /\ \A b \in Addr : b # a => Untouched(b)
    BY <2>2, <2>4, <2>5, Zenon
  <2>. QED  BY <1>0, <2>1, <2>2, <2>6, <2>7, <2>8, <2>9, OnceOthers, Zenon
<1>2. ASSUME NEW t \in Threads, Step(t), addr[t] \in Addr  PROVE OnceInv'
  <2>1. \A u \in Threads : u # t => Same(u)
    BY <1>2, OthersStay, Zenon
  <2>2. PICK a \in Addr : addr[t] = a
    BY <1>2, Zenon
  <2>3. FlowAt(t) /\ OnceAt(t, a) /\ FALSE \in BOOLEAN /\ TRUE \in BOOLEAN
    BY <2>2, Zenon DEF FlowInv, OnceInv
  <2>4. pc[t] # "idle" /\ op[t] \in {"add", "remove"} /\ "add" # "remove"
    BY <1>0, <1>2, StepKinds, Zenon DEF CallsTyped
  <2>5. ASSUME op[t] = "add", pc[t] \notin {"increment", "decrement"}, slots' = slots, NextSlot(t)
        PROVE  OnceInv'
    <3>1. CASE Return(t, FALSE)
      BY <1>0, <2>1, <2>2, <2>4, <2>5, <3>1, AddOnce, Zenon
    <3>2. CASE ~Return(t, FALSE)
      <4>1. pc'[t] = "probe" /\ UNCHANGED <<op, addr, client>>
        BY <1>0, <2>5, <3>2, Zenon DEF NextSlot, CallsTyped
      <4>2. pc'[t] \notin {"increment", "erase", "decrement"}
        BY <4>1, Zenon
      <4>. QED  BY <1>0, <2>1, <2>2, <2>4, <2>5, <4>1, <4>2, AddOnce, Zenon
    <3>. QED  BY <3>1, <3>2, Zenon
  <2>6. CASE LoadTable(t)
    <3>1. pc[t] = "load" /\ slots' = slots /\ pc[t] \notin {"increment", "decrement"}
      BY <2>6, Zenon DEF LoadTable, Return, tables
    <3>2. CASE chunk_tables[Chunk[a]] = NoTable /\ op[t] = "remove"
      <4>1. Return(t, FALSE)
        BY <2>2, <2>6, <3>2, Zenon DEF LoadTable
      <4>2. ~Stored(a)
        <5>1. \A i \in TableIds, s \in Slots : slots[i][s] = a => i = NoTable
          BY <3>2, Zenon DEF ReachInv, Reached
        <5>. QED  BY <1>0, <5>1, Zenon DEF Stored, SetupInv
      <4>3. a \notin tracked
        BY <2>2, <2>4, <3>1, <4>2, Alone, Zenon
      <4>4. op[t] # "add"
        BY <3>2, Zenon
      <4>. QED  BY <1>0, <2>1, <2>2, <2>4, <3>1, <4>1, <4>2, <4>3, <4>4, ReturnOnce, Zenon
    <3>3. CASE ~(chunk_tables[Chunk[a]] = NoTable /\ op[t] = "remove")
      <4>1. /\ pc'[t] \in {"create", "capacity", "probe"} /\ UNCHANGED <<op, addr, client, probe>>
            /\ pc'[t] = "probe" => op[t] = "remove"
            /\ op[t] = "remove" => table'[t] = chunk_tables[Chunk[a]]
        BY <1>0, <2>2, <2>4, <2>6, <3>3, Zenon DEF LoadTable, CallsTyped
      <4>2. pc'[t] \notin {"increment", "erase", "decrement"}
        BY <4>1, Zenon
      <4>3. CASE op[t] = "add"
        BY <1>0, <2>1, <2>2, <2>4, <3>1, <4>1, <4>2, <4>3, AddOnce, Zenon
      <4>4. CASE op[t] = "remove"
        <5>1. probe[t] = 0
          BY <2>3, <3>1, Zenon DEF FlowAt
        <5>2. \A s \in Slots : 0 <= Dist(TableSize, Home[a], s)
          <6>1. /\ TableSize \in Nat \ {0} /\ Home[a] \in 0 .. TableSize - 1 /\ Slots = 0 .. TableSize - 1
            BY <1>0, Zenon DEF SetupInv
          <6>2. \A s \in Slots : Dist(TableSize, Home[a], s) \in 0 .. TableSize - 1
            BY <6>1, DistIs, Zenon
          <6>. QED  BY <6>1, <6>2
        <5>3. op'[t] # "add" /\ pc'[t] # "increment" /\ pc'[t] # "erase" /\ pc'[t] # "decrement"
          BY <4>1, <4>2, <4>4, Zenon
        <5>4. OnceAt(t, a)'
          BY <1>0, <4>1, <5>1, <5>2, <5>3, Zenon DEF OnceAt, SameSetup
        <5>. QED  BY <1>0, <2>1, <2>2, <2>4, <3>1, <4>1, <5>4, GoOnce, Zenon
      <4>. QED  BY <2>4, <4>3, <4>4, Zenon
    <3>. QED  BY <3>2, <3>3, Zenon
  <2>7. CASE CreateTable(t) \/ InstallTable(t)
    <3>1. /\ pc[t] \notin {"increment", "decrement"} /\ pc[t] \in Adding /\ slots' = slots
          /\ pc'[t] \notin {"increment", "erase", "decrement"} /\ UNCHANGED <<op, addr, client>>
      BY <1>0, <2>7, Zenon DEF CreateTable, InstallTable, Goto, CallsTyped, Adding, tables
    <3>2. op[t] = "add"
      BY <2>3, <3>1, Zenon DEF FlowAt
    <3>. QED  BY <1>0, <2>1, <2>2, <2>4, <3>1, <3>2, AddOnce, Zenon
  <2>8. CASE CheckCapacity(t)
    <3>1. pc[t] = "capacity" /\ slots' = slots
      BY <2>8, Zenon DEF CheckCapacity, tables
    <3>2. \/ Return(t, FALSE)
          \/ pc'[t] = "probe" /\ UNCHANGED <<op, addr, client>>
      BY <1>0, <2>8, Zenon DEF CheckCapacity, CallsTyped, locals
    <3>3. /\ pc[t] \notin {"increment", "decrement"} /\ op[t] = "add"
          /\ pc'[t] = "probe" => pc'[t] \notin {"increment", "erase", "decrement"}
      BY <2>3, <3>1, Zenon DEF FlowAt, Adding
    <3>. QED  BY <1>0, <2>1, <2>2, <2>4, <3>1, <3>2, <3>3, AddOnce, Zenon
  <2>9. CASE ProbeAdd(t)
    <3>1. pc[t] = "probe" /\ slots' = slots /\ op[t] = "add" /\ pc[t] \notin {"increment", "decrement"}
      BY <2>9, Zenon DEF ProbeAdd, tables
    <3>2. CASE NextSlot(t)
      BY <2>5, <3>1, <3>2, Zenon
    <3>3. CASE ~NextSlot(t)
      <4>1. Return(t, FALSE) \/ (pc'[t] = "claim" /\ UNCHANGED <<op, addr, client>>)
        BY <1>0, <2>9, <3>3, Zenon DEF ProbeAdd, CallsTyped
      <4>2. pc'[t] = "claim" => pc'[t] \notin {"increment", "erase", "decrement"}
        BY Zenon
      <4>. QED  BY <1>0, <2>1, <2>2, <2>4, <3>1, <4>1, <4>2, AddOnce, Zenon
    <3>. QED  BY <3>2, <3>3, Zenon
  <2>10. CASE Claim(t)
    <3>1. CASE pc'[t] = "increment"
      BY <1>0, <2>1, <2>2, <2>10, <3>1, ClaimOnce, Zenon
    <3>2. CASE pc'[t] # "increment"
      <4>1. pc[t] = "claim" /\ pc'[t] = "reload" /\ slots' = slots /\ UNCHANGED <<op, addr, client>>
        BY <1>0, <2>10, <3>2, Zenon DEF Claim, CallsTyped, locals
      <4>2. /\ pc[t] \notin {"increment", "decrement"} /\ op[t] = "add"
            /\ pc'[t] \notin {"increment", "erase", "decrement"}
        BY <2>3, <4>1, Zenon DEF FlowAt, Adding
      <4>. QED  BY <1>0, <2>1, <2>2, <2>4, <4>1, <4>2, AddOnce, Zenon
    <3>. QED  BY <3>1, <3>2, Zenon
  <2>11. CASE Reload(t)
    <3>1. pc[t] = "reload" /\ slots' = slots /\ (Return(t, FALSE) \/ NextSlot(t))
      BY <2>11, Zenon DEF Reload, tables
    <3>2. pc[t] \notin {"increment", "decrement"} /\ op[t] = "add"
      BY <2>3, <3>1, Zenon DEF FlowAt, Adding
    <3>. QED  BY <1>0, <2>1, <2>2, <2>4, <2>5, <3>1, <3>2, AddOnce, Zenon
  <2>12. CASE Increment(t)
    <3>1. pc[t] = "increment" /\ slots' = slots /\ Return(t, TRUE)
      BY <2>12, Zenon DEF Increment
    <3>2. op[t] = "add" /\ pc[t] # "decrement" /\ op[t] # "remove"
      BY <2>3, <3>1, Zenon DEF FlowAt, Adding
    <3>. QED  BY <1>0, <2>1, <2>2, <2>3, <2>4, <3>1, <3>2, ReturnOnce, Zenon
  <2>13. CASE ProbeRemove(t)
    <3>1. pc[t] = "probe" /\ slots' = slots /\ op[t] = "remove" /\ pc[t] \notin {"increment", "decrement"} /\ op[t] # "add"
      BY <2>13, Zenon DEF ProbeRemove, tables
    <3>0. a # Empty
      BY <1>0, Zenon DEF SetupInv
    <3>2. CASE slots[table[t]][slot[t]] = Empty
      <4>1. ~Stored(a)
        BY <1>0, <2>2, <2>3, <3>0, <3>1, <3>2, NotYet, Zenon
      <4>2. a \notin tracked
        BY <2>2, <2>4, <3>1, <4>1, Alone, Zenon
      <4>3. Return(t, FALSE)
        BY <2>2, <2>13, <3>0, <3>2, Zenon DEF ProbeRemove
      <4>. QED  BY <1>0, <2>1, <2>2, <2>3, <2>4, <3>1, <4>1, <4>2, <4>3, ReturnOnce, Zenon
    <3>3. CASE slots[table[t]][slot[t]] = a
      <4>1. pc'[t] = "erase" /\ UNCHANGED <<locals, client>>
        BY <1>0, <2>2, <2>13, <3>0, <3>3, Zenon DEF ProbeRemove, CallsTyped
      <4>2. UNCHANGED <<op, addr, table, slot, client>>
        BY <4>1, Zenon DEF locals
      <4>3. pc'[t] # "increment" /\ pc'[t] # "decrement" /\ pc'[t] # "probe" /\ op'[t] # "add"
        BY <3>1, <4>1, <4>2, Zenon
      <4>4. OnceAt(t, a)'
        BY <3>1, <3>3, <4>2, <4>3, Zenon DEF OnceAt
      <4>. QED  BY <1>0, <2>1, <2>2, <2>4, <3>1, <4>2, <4>4, GoOnce, Zenon
    <3>4. CASE slots[table[t]][slot[t]] # Empty /\ slots[table[t]][slot[t]] # a
      <4>1. NextSlot(t)
        BY <2>2, <2>13, <3>4, Zenon DEF ProbeRemove
      <4>. QED  BY <1>0, <2>1, <2>2, <3>1, <3>4, <4>1, SearchOnce, Zenon
    <3>. QED  BY <3>2, <3>3, <3>4, Zenon
  <2>14. CASE Erase(t)
    <3>1. pc[t] = "erase"
      BY <2>14, Zenon DEF Erase
    <3>2. pc'[t] = "decrement"
      BY <1>0, <2>2, <2>3, <2>14, <3>1, Zenon DEF Erase, OnceAt, CallsTyped
    <3>. QED  BY <1>0, <2>1, <2>2, <2>14, <3>2, EraseOnce, Zenon
  <2>15. CASE Decrement(t)
    <3>1. pc[t] = "decrement" /\ slots' = slots /\ Return(t, TRUE)
      BY <2>15, Zenon DEF Decrement
    <3>2. op[t] # "add" /\ a \in tracked /\ ~Stored(a)
      BY <2>3, <3>1, Zenon DEF FlowAt, OnceAt
    <3>. QED  BY <1>0, <2>1, <2>2, <2>3, <2>4, <3>1, <3>2, ReturnOnce, Zenon
  <2>. QED  BY <1>2, <2>6, <2>7, <2>8, <2>9, <2>10, <2>11, <2>12, <2>13, <2>14, <2>15, Zenon DEF Step
<1>3. CASE UNCHANGED vars \/ \E a \in Addr : Allocate(a)
  <2>1. slots' = slots /\ tracked' = tracked /\ wrong' = wrong /\ addr' = addr /\ pc' = pc
        /\ \A u \in Threads : Same(u)
    BY <1>3, Zenon DEF vars, tables, locals, client, Allocate, Same
  <2>2. \A b : Untouched(b)
    BY <2>1, Zenon DEF Untouched
  <2>3. UniqueInv' /\ ~wrong'
    BY <1>0, <2>1, UniqueStays, Zenon DEF OnceInv
  <2>4. \A u \in Threads, b \in Addr : addr'[u] = b => OnceAt(u, b)'
    BY <1>0, <2>1, <2>2, OnceStays, Zenon DEF OnceInv, FlowInv
  <2>5. \A b \in Addr : ~Between(b)' => (Stored(b)' <=> b \in tracked')
    <3>1. \A b : (Stored(b)' <=> Stored(b)) /\ (Between(b)' <=> Between(b))
      BY <1>0, <2>1, Zenon DEF Stored, SameSetup, Between
    <3>. QED  BY <2>1, <3>1, Zenon DEF OnceInv
  <2>. QED  BY <1>0, <2>3, <2>4, <2>5, Zenon DEF OnceInv, SameSetup
<1>4. ASSUME NEW t \in Threads, Step(t), addr[t] \notin Addr  PROVE OnceInv'
  <2>1. \A u \in Threads : u # t => Same(u)
    BY <1>4, OthersStay, Zenon
  <2>2. addr[t] = Null /\ Null \notin Addr /\ op[t] = "add" /\ "add" # "remove"
    BY <1>0, <1>4, Zenon DEF CallsTyped, SetupInv, FlowInv, FlowAt, Null, Addr
  <2>3. addr' = addr /\ tracked' = tracked /\ wrong' = wrong
    <3>1. CASE \E result \in BOOLEAN : Return(t, result)
      <4>1. PICK result \in BOOLEAN : Return(t, result)
        BY <3>1, Zenon
      <4>2. \A x : x \in tracked' <=> x \in tracked
        BY <2>2, <4>1, Zenon DEF Return
      <4>3. tracked' = tracked
        BY <4>2, Zenon
      <4>4. wrong' = (wrong \/ FALSE) /\ wrong \in BOOLEAN
        BY <1>0, <2>2, <4>1, Zenon DEF Return, CallsTyped
      <4>. QED  BY <4>1, <4>3, <4>4, Zenon DEF Return
    <3>2. CASE UNCHANGED <<op, addr, client>>
      BY <3>2, Zenon DEF client
    <3>. QED  BY <1>4, <3>1, <3>2, StepKinds, Zenon
  <2>4. \A b \in Addr : Untouched(b)
    <3>1. CASE slots' = slots
      BY <2>3, <3>1, Zenon DEF Untouched
    <3>2. CASE slots' # slots
      <4>1. ~Erase(t)
        <5>1. pc[t] # "erase"
          BY <2>2, Zenon DEF FlowInv, FlowAt
        <5>. QED  BY <5>1, Zenon DEF Erase
      <4>2. Claim(t)
        BY <1>4, <3>2, <4>1, Zenon DEF Step, LoadTable, CreateTable, InstallTable, CheckCapacity,
             ProbeAdd, Reload, Increment, ProbeRemove, Decrement, tables
      <4>3. PICK i \in TableIds, s \in Slots :
              /\ slots[i][s] \in {Empty, Deleted} /\ slots'[i][s] = addr[t]
              /\ \A j \in TableIds, r \in Slots : j # i \/ r # s => slots'[j][r] = slots[j][r]
        BY <1>0, <3>2, <4>2, ClaimStores, Zenon
      <4>4. \A b \in Addr : slots[i][s] # b /\ slots'[i][s] # b
        BY <1>0, <2>2, <4>3, Zenon DEF SetupInv
      <4>. QED  BY <2>3, <4>3, <4>4, Zenon DEF Untouched
    <3>. QED  BY <3>1, <3>2, Zenon
  <2>. QED  BY <1>0, <1>4, <2>1, <2>3, <2>4, NullOnce, Zenon DEF OnceInv
<1>5. ASSUME NEW t \in Threads, CallAddNull(t)  PROVE OnceInv'
  <2>1. \A u \in Threads : u # t => Same(u)
    BY <1>5, OthersStay, Zenon DEF Calls
  <2>2. /\ pc[t] = "idle" /\ addr'[t] = Null /\ Null \notin Addr /\ slots' = slots
        /\ tracked' = tracked /\ wrong' = wrong
    BY <1>0, <1>5, Zenon DEF CallAddNull, Call, Goto, CallsTyped, tables, Addr
  <2>3. \A b \in Addr : Untouched(b)
    BY <2>2, Zenon DEF Untouched
  <2>4. pc[t] \notin {"increment", "decrement"}
    BY <2>2, Zenon
  <2>. QED  BY <1>0, <2>1, <2>2, <2>3, <2>4, NullOnce, Zenon DEF OnceInv
<1>. QED  BY <1>1, <1>2, <1>3, <1>4, <1>5, Zenon DEF Next

-----------------------------------------------------------------------------
(* Results *)

\* An empty set of tables, with that of large allocations, satisfies the
\* invariant.
LEMMA InitInv ==
  ASSUME Init
  PROVE  IInv
<1>1. setup \in Setups
  BY Zenon DEF Init
<1>2. SetupInv
  BY <1>1, SetupIs, Zenon
<1>3. \A i \in TableIds, s \in Slots : slots[i][s] = Empty /\ slots[i][s] \notin Addr
  BY <1>2, Zenon DEF Init, SetupInv
<1>4. TablesTyped
  <2>1. \A c \in Chunks : <<"init", c>> \in TableIds
    BY Zenon DEF TableIds
  <2>2. chunk_tables \in [Chunks -> TableIds \cup {NoTable}]
    BY <2>1, Zenon DEF Init
  <2>3. count \in [TableIds -> Int] /\ nulls \in [TableIds -> Nat]
    BY DEF Init
  <2>4. slots \in [TableIds -> [Slots -> Addr \cup {Empty, Deleted}]]
    BY Zenon DEF Init
  <2>. QED  BY <1>1, <2>2, <2>3, <2>4, Zenon DEF TablesTyped
<1>5. CallsTyped
  <2>1. (CHOOSE a \in Pointers : TRUE) \in Pointers
    <3>1. DOMAIN setup.chunk # {}
      BY <1>1, SetupsAssumption, Zenon
    <3>. QED  BY <3>1, Zenon DEF Pointers, Chunk
  <2>2. 0 \in Slots /\ 0 \in Nat
    BY <1>2 DEF SetupInv
  <2>3. slot \in [Threads -> Slots] /\ probe \in [Threads -> Nat] /\ addr \in [Threads -> Pointers]
    BY <2>1, <2>2, Zenon DEF Init
  <2>4. pc \in [Threads -> Pcs] /\ op \in [Threads -> {"add", "remove"}] /\ current \in [Threads -> {Empty, Deleted}]
    BY Zenon DEF Init, Pcs
  <2>5. table \in [Threads -> TableIds \cup {NoTable}] /\ life \in [Addr -> {"free", "busy", "live"}]
    BY Zenon DEF Init
  <2>6. tracked \subseteq Addr /\ wrong \in BOOLEAN
    BY Zenon DEF Init
  <2>. QED  BY <2>3, <2>4, <2>5, <2>6, Zenon DEF CallsTyped
<1>6. \A t \in Threads : pc[t] = "idle" /\ probe[t] = 0 /\ op[t] # "remove"
  BY Zenon DEF Init
<1>7. FlowInv /\ SeenInv
  BY <1>6, Zenon DEF FlowInv, FlowAt, SeenInv, SeenAt, Using, Looking, Adding
<1>8. ReachInv
  BY <1>3, Zenon DEF ReachInv
<1>9. CountInv
  <2>. SUFFICES ASSUME NEW i \in TableIds
                PROVE  Sum(i) % CountModulus = (Cardinality(Held(i)) + nulls[i]) % CountModulus
    BY Zenon DEF CountInv
  <2>1. Held(i) = {}
    BY <1>3, Zenon DEF Held
  <2>2. At(i, "increment") = {} /\ At(i, "decrement") = {}
    BY <1>6, Zenon DEF At
  <2>3. count[i] = 0 /\ nulls[i] = 0 /\ Cardinality({}) = 0
    BY FS_EmptySet, Zenon DEF Init
  <2>4. Sum(i) = 0 + 0 - 0
    BY <2>2, <2>3, Zenon DEF Sum
  <2>5. 0 + 0 - 0 = 0 + 0
    OBVIOUS
  <2>. QED  BY <2>1, <2>3, <2>4, <2>5, Zenon
<1>10. TurnInv
  BY <1>6, Zenon DEF TurnInv, Init
<1>11. OnceInv
  <2>1. UniqueInv
    BY <1>2, <1>3, Zenon DEF UniqueInv, SetupInv
  <2>2. \A t \in Threads, a \in Addr : OnceAt(t, a)
    BY <1>6, Zenon DEF OnceAt
  <2>3. \A a \in Addr : ~Stored(a)
    BY <1>3, Zenon DEF Stored
  <2>. QED  BY <2>1, <2>2, <2>3, Zenon DEF OnceInv, Init
<1>. QED  BY <1>4, <1>5, <1>7, <1>8, <1>9, <1>10, <1>11, Zenon DEF IInv, TypeInv

\* Every step keeps the invariant.
LEMMA StepInv ==
  ASSUME IInv, [Next]_vars
  PROVE  IInv'
<1>1. TypeInv /\ FlowInv /\ CountInv /\ (~emptied => SeenInv /\ ReachInv)
  BY Zenon DEF IInv
<1>2. TypeInv' /\ FlowInv' /\ CountInv' /\ (~emptied' => SeenInv' /\ ReachInv')
  BY <1>1, EmptiedStays, TypeStep, FlowStep, SeenStep, ReachStep, CountStep, Zenon
<1>3. EarlyReuse' = EarlyReuse
  BY SetupStays, Zenon DEF SameSetup
<1>4. /\ ~EarlyReuse => TurnInv'
      /\ ~EarlyReuse /\ ~emptied' => OnceInv'
  BY <1>1, EmptiedStays, TurnStep, OnceStep, Zenon DEF IInv
<1>. QED  BY <1>2, <1>3, <1>4, Zenon DEF IInv

\* The invariant of the set of tracked addresses, for any threads, addresses,
\* hash, size of the tables and probe distance.
THEOREM Invariant == Spec => []IInv
BY InitInv, StepInv, PTL DEF Spec

\* remove returns true exactly for the addresses whose add returned true, as long
\* as addresses are removed before they are given out again and no null pointer of
\* a failed allocation took the place of a tombstone: no interleaving of
\* the exchanges of add and remove on colliding addresses, no tombstone that is
\* reused, no null pointer that met an empty slot and no race to install a table
\* hides an address from its search.
THEOREM RemoveFinds == Spec => []RemoveFindsTracked
<1>1. IInv => RemoveFindsTracked
  BY Zenon DEF IInv, OnceInv, RemoveFindsTracked
<1>. QED  BY <1>1, Invariant, PTL

\* The count of a table is that of its stored addresses and of the null pointers
\* that failed allocations ever added to it, modulo 2^64 and up to the
\* calls that have exchanged a slot and not yet changed the count, even when an
\* address is given out again while it is in the set and even when a null pointer
\* replaced a tombstone.
THEOREM CountFollows == Spec => []CountMatches
<1>1. IInv => CountMatches
  <2>. SUFFICES ASSUME IInv, NEW c \in Chunks, NEW i, i = chunk_tables[c], i # NoTable
                PROVE  (count[i] + Cardinality(At(i, "increment")) - Cardinality(At(i, "decrement")))
                         % CountModulus = (Cardinality(Held(i)) + nulls[i]) % CountModulus
    BY Zenon DEF CountMatches
  <2>1. i \in TableIds
    BY Zenon DEF IInv, TypeInv, TablesTyped
  <2>. QED  BY <2>1, Zenon DEF IInv, CountInv, Sum
<1>. QED  BY <1>1, Invariant, PTL

=============================================================================
