---------------------------- MODULE AddressTable ----------------------------
(***************************************************************************)
(* AddressBitset, the set of sampled addresses that the threads of a       *)
(* profiled process share.  Addresses are spread over chunks; each chunk   *)
(* gets, when first used, an open-addressing hash table of atomic slots.   *)
(* Threads add the address of an allocation they sampled before malloc     *)
(* returns it, the null pointer of one that failed included, and remove an *)
(* address before they free it.                                            *)
(***************************************************************************)
EXTENDS Integers, FiniteSets

CONSTANTS
  Threads,
  Setups,         \* the tables and addresses to consider
  MaxAdds         \* bound on the calls of add

\* A setup is a record of
\*   chunk   the chunk of each address (its upper bits), and of the null pointer
\*           if allocations may fail
\*   home    the slot its hash selects
\*   size    slots of a table (a power of two)
\*   probes  _k_max_probe_distance
\*   large   the chunk that stands for the table of large allocations
\*   early   an address may be given out again while it is in the set: it was
\*           freed by a function that is not instrumented, or by one that
\*           frees it before it calls remove (dallocx)

\* kEmptySlot and kDeletedSlot: zero, which is the null pointer, and one, which no
\* allocator returns.
Empty == "empty"
Deleted == "deleted"
Null == Empty

NoTable == <<>>

\* The count is a size_t and wraps; this stands for 2^64.
CountModulus == 65536

ASSUME SetupsAssumption ==
  /\ IsFiniteSet(Threads) /\ MaxAdds \in Nat
  /\ \A s \in Setups :
       /\ DOMAIN s.chunk # {} /\ Deleted \notin DOMAIN s.chunk
       /\ s.size \in Nat \ {0} /\ s.size < CountModulus /\ s.probes \in Nat \ {0}
       /\ s.home \in [DOMAIN s.chunk -> 0 .. s.size - 1]
       /\ s.early \in BOOLEAN

VARIABLES
  setup,          \* one of Setups, which does not change
  chunk_tables,   \* the table of each chunk, or NoTable
  slots,          \* the slots of each table
  count,          \* the number of addresses of each table
  pc,
  op,             \* "add" or "remove"
  addr, table, slot, probe, current,
  life,           \* what the program does with each address
  tracked,        \* addresses whose add returned true and remove did not
  adds,           \* calls of add
  wrong,          \* a remove did not return whether the address was tracked
  nulls,          \* ghost: the null pointers that each table counted
  emptied         \* ghost: a null pointer took the place of a tombstone

tables == <<setup, chunk_tables, slots, count>>
locals == <<op, addr, table, slot, probe, current>>
client == <<life, tracked, adds, wrong>>
ghosts == <<nulls, emptied>>
vars == <<tables, pc, locals, client, ghosts>>

Chunk == setup.chunk
Home == setup.home
TableSize == setup.size
MaxProbe == setup.probes
EarlyReuse == setup.early

\* What add is called with.
Pointers == DOMAIN Chunk
Addr == Pointers \ {Null}
Chunks == {Chunk[a] : a \in Pointers}
Slots == 0 .. TableSize - 1

\* A table by who created it, a thread or init, and the chunk it was created
\* for: no thread creates two for one chunk.
TableIds == (Threads \cup {"init"}) \X Chunks

\* 80 percent of the slots.
MaxCapacity == (TableSize * 80) \div 100

Init ==
  /\ setup \in Setups
  /\ chunk_tables = [c \in Chunks |->
                       IF c = setup.large THEN <<"init", c>> ELSE NoTable]
  /\ slots = [i \in TableIds |-> [s \in Slots |-> Empty]]
  /\ count = [i \in TableIds |-> 0]
  /\ pc = [t \in Threads |-> "idle"]
  /\ op = [t \in Threads |-> "add"]
  /\ addr = [t \in Threads |-> CHOOSE a \in Pointers : TRUE]
  /\ table = [t \in Threads |-> NoTable]
  /\ slot = [t \in Threads |-> 0]
  /\ probe = [t \in Threads |-> 0]
  /\ current = [t \in Threads |-> Empty]
  /\ life = [a \in Addr |-> "free"]
  /\ tracked = {}
  /\ adds = 0
  /\ wrong = FALSE
  /\ nulls = [i \in TableIds |-> 0]
  /\ emptied = FALSE

-----------------------------------------------------------------------------
(* The program *)

Goto(t, from, to) ==
  /\ pc[t] = from
  /\ pc' = [pc EXCEPT ![t] = to]

\* Start a call on address a.
Call(t, o, a) ==
  /\ Goto(t, "idle", "load")
  /\ op' = [op EXCEPT ![t] = o]
  /\ addr' = [addr EXCEPT ![t] = a]
  /\ UNCHANGED <<tables, table, slot, probe, current, tracked, wrong, ghosts>>

\* A thread allocates a and the allocation is sampled; malloc has not yet
\* returned it to the program.
CallAdd(t, a) ==
  /\ life[a] = "free" \/ (EarlyReuse /\ life[a] = "live")
  /\ adds < MaxAdds
  /\ adds' = adds + 1
  /\ life' = [life EXCEPT ![a] = "busy"]
  /\ Call(t, "add", a)

\* An allocation that is sampled fails: the hooks track the null pointer too.
CallAddNull(t) ==
  /\ Null \in Pointers
  /\ adds < MaxAdds
  /\ adds' = adds + 1
  /\ UNCHANGED life
  /\ Call(t, "add", Null)

\* A thread is about to free a, which was perhaps not sampled, or has just
\* freed it.
CallRemove(t, a) ==
  /\ life[a] = "live"
  /\ life' = [life EXCEPT ![a] = IF EarlyReuse THEN "free" ELSE "busy"]
  /\ UNCHANGED adds
  /\ Call(t, "remove", a)

\* A thread allocates an address that is not sampled.
Allocate(a) ==
  /\ life[a] = "free"
  /\ life' = [life EXCEPT ![a] = "live"]
  /\ UNCHANGED <<tables, pc, locals, tracked, adds, wrong, ghosts>>

\* The current call returns result, to a program that has no use of a null pointer.
Return(t, result) ==
  /\ pc' = [pc EXCEPT ![t] = "idle"]
  /\ life' = [a \in Addr |->
                IF a # addr[t] \/ (op[t] = "remove" /\ EarlyReuse) THEN life[a]
                ELSE IF op[t] = "add" THEN "live" ELSE "free"]
  /\ tracked' = IF op[t] = "add"
                  THEN IF result THEN tracked \cup ({addr[t]} \ {Null}) ELSE tracked
                  ELSE tracked \ {addr[t]}
  /\ wrong' = (wrong \/ (op[t] = "remove" /\ (result # (addr[t] \in tracked))))
  /\ table' = [table EXCEPT ![t] = NoTable]
  /\ slot' = [slot EXCEPT ![t] = 0]
  /\ probe' = [probe EXCEPT ![t] = 0]
  /\ current' = [current EXCEPT ![t] = Empty]
  /\ UNCHANGED <<op, addr, adds>>

-----------------------------------------------------------------------------
(* get_table *)

\* The table of the chunk, if there is one; add creates it, remove has nothing
\* to look for.
LoadTable(t) ==
  /\ pc[t] = "load"
  /\ LET i == chunk_tables[Chunk[addr[t]]] IN
       IF i = NoTable /\ op[t] = "remove"
         THEN Return(t, FALSE) /\ UNCHANGED tables
         ELSE /\ pc' = [pc EXCEPT ![t] =
                          IF i = NoTable THEN "create"
                          ELSE IF op[t] = "add" THEN "capacity" ELSE "probe"]
              /\ table' = [table EXCEPT ![t] = i]
              /\ slot' = [slot EXCEPT ![t] = Home[addr[t]]]
              /\ UNCHANGED <<tables, op, addr, probe, current, client>>
  /\ UNCHANGED ghosts

\* new AddressTable
CreateTable(t) ==
  /\ Goto(t, "create", "install")
  /\ table' = [table EXCEPT ![t] = <<t, Chunk[addr[t]]>>]
  /\ UNCHANGED <<tables, op, addr, slot, probe, current, client, ghosts>>

\* compare_exchange_strong: the new table is installed, or deleted if another
\* thread was faster.
InstallTable(t) ==
  /\ Goto(t, "install", "capacity")
  /\ LET mine == Chunk[addr[t]] IN
       IF chunk_tables[mine] = NoTable
         THEN /\ chunk_tables' = [chunk_tables EXCEPT ![mine] = table[t]]
              /\ UNCHANGED table
         ELSE /\ table' = [table EXCEPT ![t] = chunk_tables[mine]]
              /\ UNCHANGED chunk_tables
  /\ UNCHANGED <<setup, slots, count, op, addr, slot, probe, current, client, ghosts>>

-----------------------------------------------------------------------------
(* add *)

\* The load factor is checked once, before probing.
CheckCapacity(t) ==
  /\ pc[t] = "capacity"
  /\ IF count[table[t]] >= MaxCapacity
       THEN Return(t, FALSE) /\ UNCHANGED tables
       ELSE /\ pc' = [pc EXCEPT ![t] = "probe"]
            /\ UNCHANGED <<tables, locals, client>>
  /\ UNCHANGED ghosts

\* The next slot, unless MaxProbe of them were tried.
NextSlot(t) ==
  IF probe[t] + 1 = MaxProbe
    THEN Return(t, FALSE)
    ELSE /\ slot' = [slot EXCEPT ![t] = (@ + 1) % TableSize]
         /\ probe' = [probe EXCEPT ![t] = @ + 1]
         /\ pc' = [pc EXCEPT ![t] = "probe"]
         /\ UNCHANGED <<op, addr, table, current, client>>

\* Load of a slot: free slots are claimed, the address itself ends the search.
ProbeAdd(t) ==
  /\ pc[t] = "probe" /\ op[t] = "add"
  /\ LET cur == slots[table[t]][slot[t]] IN
       \/ /\ cur \in {Empty, Deleted}
          /\ current' = [current EXCEPT ![t] = cur]
          /\ pc' = [pc EXCEPT ![t] = "claim"]
          /\ UNCHANGED <<op, addr, table, slot, probe, client>>
       \/ cur \notin {Empty, Deleted} /\ cur = addr[t] /\ Return(t, FALSE)
       \/ cur \notin {Empty, Deleted, addr[t]} /\ NextSlot(t)
  /\ UNCHANGED <<tables, ghosts>>

\* What a claimed slot says of null pointers: nothing is stored, and what was
\* there is gone.
NullClaimed(t) ==
  /\ nulls' = IF addr[t] = Null THEN [nulls EXCEPT ![table[t]] = @ + 1] ELSE nulls
  /\ emptied' = (emptied \/ (addr[t] = Null /\ current[t] = Deleted))

\* Mutant of Claim: a store in place of the compare-and-exchange.
ClaimStore(t) ==
  /\ pc[t] = "claim"
  /\ slots' = [slots EXCEPT ![table[t]][slot[t]] = addr[t]]
  /\ pc' = [pc EXCEPT ![t] = "increment"]
  /\ NullClaimed(t)
  /\ UNCHANGED <<setup, chunk_tables, count, locals, client>>

\* compare_exchange_strong of the slot from the value that was loaded; with the
\* null pointer the slot becomes, or stays, empty.
Claim(t) ==
  /\ pc[t] = "claim"
  /\ IF slots[table[t]][slot[t]] = current[t]
       THEN /\ slots' = [slots EXCEPT ![table[t]][slot[t]] = addr[t]]
            /\ pc' = [pc EXCEPT ![t] = "increment"]
            /\ NullClaimed(t)
       ELSE /\ pc' = [pc EXCEPT ![t] = "reload"]
            /\ UNCHANGED <<slots, ghosts>>
  /\ UNCHANGED <<setup, chunk_tables, count, locals, client>>

\* After a failed exchange the slot is looked at once more, and left.
Reload(t) ==
  /\ pc[t] = "reload"
  /\ IF slots[table[t]][slot[t]] = addr[t]
       THEN Return(t, FALSE)
       ELSE NextSlot(t)
  /\ UNCHANGED <<tables, ghosts>>

\* fetch_add, after the slot was claimed.
Increment(t) ==
  /\ pc[t] = "increment"
  /\ count' = [count EXCEPT ![table[t]] = (@ + 1) % CountModulus]
  /\ Return(t, TRUE)
  /\ UNCHANGED <<setup, chunk_tables, slots, ghosts>>

-----------------------------------------------------------------------------
(* remove *)

\* An empty slot ends the search, tombstones and other addresses do not.
ProbeRemove(t) ==
  /\ pc[t] = "probe" /\ op[t] = "remove"
  /\ LET cur == slots[table[t]][slot[t]] IN
       \/ cur = Empty /\ Return(t, FALSE)
       \/ /\ cur = addr[t]
          /\ pc' = [pc EXCEPT ![t] = "erase"]
          /\ UNCHANGED <<locals, client>>
       \/ cur \notin {Empty, addr[t]} /\ NextSlot(t)
  /\ UNCHANGED <<tables, ghosts>>

\* Mutant of Erase: the slot becomes empty again.
EraseToEmpty(t) ==
  /\ pc[t] = "erase"
  /\ slots' = [slots EXCEPT ![table[t]][slot[t]] = Empty]
  /\ pc' = [pc EXCEPT ![t] = "decrement"]
  /\ UNCHANGED <<setup, chunk_tables, count, locals, client, ghosts>>

\* compare_exchange_strong to a tombstone.
Erase(t) ==
  /\ pc[t] = "erase"
  /\ IF slots[table[t]][slot[t]] = addr[t]
       THEN /\ slots' = [slots EXCEPT ![table[t]][slot[t]] = Deleted]
            /\ pc' = [pc EXCEPT ![t] = "decrement"]
            /\ UNCHANGED <<locals, client>>
       ELSE Return(t, FALSE) /\ UNCHANGED slots
  /\ UNCHANGED <<setup, chunk_tables, count, ghosts>>

\* fetch_sub, after the slot was freed.
Decrement(t) ==
  /\ pc[t] = "decrement"
  /\ count' = [count EXCEPT ![table[t]] = (@ - 1) % CountModulus]
  /\ Return(t, TRUE)
  /\ UNCHANGED <<setup, chunk_tables, slots, ghosts>>

-----------------------------------------------------------------------------

Step(t) ==
  \/ LoadTable(t) \/ CreateTable(t) \/ InstallTable(t) \/ CheckCapacity(t)
  \/ ProbeAdd(t) \/ Claim(t) \/ Reload(t) \/ Increment(t)
  \/ ProbeRemove(t) \/ Erase(t) \/ Decrement(t)

Next ==
  \/ \E t \in Threads : Step(t)
  \/ \E t \in Threads, a \in Addr : CallAdd(t, a) \/ CallRemove(t, a)
  \/ \E t \in Threads : CallAddNull(t)
  \/ \E a \in Addr : Allocate(a)

Spec == Init /\ [][Next]_vars

-----------------------------------------------------------------------------
(* Properties *)

\* When addresses are removed before they are given out again, remove returns
\* true exactly for the addresses whose add returned true: no
\* interleaving of additions and removals of colliding addresses, no race
\* to create a table and no failed allocation makes an address unreachable by its
\* probe sequence.  Excepted are tables in which the null pointer of a failed
\* allocation replaced a tombstone: the slot is empty again and ends searches
\* for the addresses behind it.
RemoveFindsTracked == ~EarlyReuse /\ ~emptied => ~wrong

\* The threads at step p of a call on table i, and the slots of i in use.
At(i, p) == {t \in Threads : table[t] = i /\ pc[t] = p}
Held(i) == {s \in Slots : slots[i][s] \in Addr}

\* The count is that of the stored addresses and of the null pointers ever added,
\* which take no slot and are never taken off again, up to the calls that have
\* changed a slot and not yet the count: the table loses capacity with every failed
\* allocation that is sampled, and with nothing else.  The count passes below zero
\* when a late removal finds an address before the add that stored it has counted
\* it.
CountMatches ==
  \A c \in Chunks :
    LET i == chunk_tables[c]
    IN i # NoTable =>
         (count[i] + Cardinality(At(i, "increment")) - Cardinality(At(i, "decrement")))
           % CountModulus = (Cardinality(Held(i)) + nulls[i]) % CountModulus

=============================================================================
