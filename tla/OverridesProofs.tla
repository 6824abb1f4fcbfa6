--------------------------- MODULE OverridesProofs ---------------------------
(***************************************************************************)
(* No object calls a hook once profiling has stopped, and the buffers of   *)
(* the tracker outlive the stop: for any threads, objects and addresses,   *)
(* and any number of calls.                                                *)
(***************************************************************************)
EXTENDS Overrides, TLAPS

Images == [lib : Libs, got : {"lazy", "ref", "hook"}, writable : BOOLEAN]

RevertInfo == [name : Libs, old : {"lazy", "ref"}]

\* The entries: a hooked object has a record of what it had, made for it.
EntriesInv ==
  /\ images \in [DOMAIN images -> Images]
  /\ \A x \in overrides : /\ x = [nb |-> x.nb, libs |-> x.libs]
                          /\ x.libs \in [DOMAIN x.libs -> RevertInfo]
  /\ \A x, y \in overrides : x = y
  /\ \A b \in DOMAIN images : images[b].got = "hook" =>
       /\ images[b].lib \notin Excluded
       /\ \E x \in overrides : b \in DOMAIN x.libs /\ x.libs[b].name = images[b].lib

\* Where the threads are in their calls.
PlaceInv ==
  /\ pc = [t \in Threads |-> pc[t]] /\ op = [t \in Threads |-> op[t]]
  /\ reentry_guard = [t \in Threads |-> reentry_guard[t]]
  /\ \A t \in Threads :
       /\ pc[t] = "run" => op[t] = "none"
       /\ pc[t] \in {"resolve", "hook", "push", "timer"} => op[t] = "malloc"
       /\ pc[t] \in {"restore", "free"} => op[t] = "stop"
       /\ pc[t] = "end" => op[t] \in {"start", "stop"}
       /\ pc[t] \in {"count", "apply"} => op[t] # "stop" /\ reentry_guard[t]
  /\ \A t, u \in Threads : op[t] \in {"start", "stop"} /\ op[u] \in {"start", "stop"} => t = u

\* The overrides exist from a start on, until its stop.
PeriodInv ==
  /\ started \in BOOLEAN /\ allocation_profiling_started \in BOOLEAN
  /\ allocation_profiling_started => started
  /\ overrides # {} => allocation_profiling_started \/ \E t \in Threads : op[t] = "start"
  /\ \A t \in Threads : pc[t] \in {"free", "end"} => overrides = {}

IInv == EntriesInv /\ PlaceInv /\ PeriodInv

\* A thread's step is one of these.
Actions(t) ==
  \/ Malloc(t) \/ Dlopen(t) \/ Dlclose(t) \/ Fork(t) \/ Start(t) \/ Stop(t)
  \/ Resolve(t) \/ TrackAllocation(t) \/ Push(t) \/ UpdateTimer(t)
  \/ Lock(t) \/ CountLoadedLibraries(t) \/ ApplyOverrides(t) \/ RestoreOverrides(t)
  \/ AllocationTrackingFree(t) \/ End(t)

\* A library that has just been loaded has none of our entries.
LEMMA ImageTyped ==
  ASSUME NEW lib \in Libs
  PROVE  Image(lib) \in Images /\ Image(lib).lib = lib /\ Image(lib).got # "hook"
BY DEF Image, Images

\* Before setup_overrides nothing is overridden.
LEMMA InitInv == Init => IInv
<1>. SUFFICES ASSUME Init PROVE IInv
  BY Zenon
<1>1. EntriesInv
  BY ImageTyped, OverridesAssumption, Zenon DEF Init, EntriesInv
<1>2. PlaceInv
  <2>1. /\ pc = [t \in Threads |-> pc[t]] /\ op = [t \in Threads |-> op[t]]
        /\ \A t \in Threads : pc[t] = "run" /\ op[t] = "none"
    BY Zenon DEF Init
  <2>2. reentry_guard = [t \in Threads |-> reentry_guard[t]]
    BY Zenon DEF Init
  <2>. QED  BY <2>1, <2>2, Zenon DEF PlaceInv
<1>3. PeriodInv
  BY Zenon DEF Init, PeriodInv
<1>. QED  BY <1>1, <1>2, <1>3, Zenon DEF IInv

\* Only these steps touch the entries or their record.
LEMMA EntriesUntouched ==
  ASSUME NEW t \in Threads,
         \/ Malloc(t) \/ Fork(t) \/ Start(t) \/ Stop(t) \/ TrackAllocation(t) \/ Push(t)
         \/ UpdateTimer(t) \/ Lock(t) \/ AllocationTrackingFree(t) \/ End(t)
  PROVE  UNCHANGED <<images, overrides>>
<1>1. CASE Malloc(t) \/ Fork(t) \/ Start(t) \/ Stop(t)
  BY <1>1, Zenon DEF Malloc, Fork, Start, Stop, object
<1>2. CASE TrackAllocation(t) \/ Lock(t) \/ AllocationTrackingFree(t) \/ End(t)
  BY <1>2, Zenon DEF TrackAllocation, Lock, AllocationTrackingFree, End, object
<1>3. CASE Push(t)
  BY <1>3, Zenon DEF Push, Fault
<1>4. CASE UpdateTimer(t)
  BY <1>4, Zenon DEF UpdateTimer, Fault
<1>. QED  BY <1>1, <1>2, <1>3, <1>4, Zenon

\* An object is hooked together with the record of its entry, the record is
\* kept as long as the object, and goes when no object is hooked any more.
LEMMA EntriesStep ==
  ASSUME NEW t \in Threads, IInv, Actions(t)
  PROVE  EntriesInv'
<1>. USE DEF IInv
<1>1. CASE UNCHANGED <<images, overrides>>
  BY <1>1, Zenon DEF EntriesInv
<1>2. CASE Resolve(t)
  <2>1. overrides' = overrides /\ images' = [images EXCEPT ![from[t]].got = "ref"]
    BY <1>2, Zenon DEF Resolve
  <2>2. images' \in [DOMAIN images -> Images] /\ DOMAIN images' = DOMAIN images
    BY <2>1, Zenon DEF EntriesInv, Images
  <2>3. \A b \in DOMAIN images : images'[b].lib = images[b].lib
                                 /\ (images'[b].got = "hook" => images[b].got = "hook")
    BY <2>1 DEF EntriesInv, Images
  <2>. QED  BY <2>1, <2>2, <2>3 DEF EntriesInv
<1>3. CASE Dlopen(t)
  <2>1. PICK b \in DOMAIN images, c \in Bases \ DOMAIN images, lib \in Libs :
          /\ overrides' = overrides
          /\ images' = [d \in DOMAIN images \cup {c} |-> IF d = c THEN Image(lib) ELSE images[d]]
    BY <1>3, Zenon DEF Dlopen
  <2>. QED  BY <2>1, ImageTyped, Zenon DEF EntriesInv
<1>4. CASE Dlclose(t)
  <2>1. PICK b : overrides' = overrides /\ images' = [d \in DOMAIN images \ {b} |-> images[d]]
    BY <1>4, Zenon DEF Dlclose
  <2>. QED  BY <2>1, Zenon DEF EntriesInv
<1>5. CASE CountLoadedLibraries(t)
  <2>. DEFINE o == IF op[t] = "start" /\ overrides = {} THEN {NoOverrides} ELSE overrides
  <2>1. images' = images /\ (overrides' = o \/ overrides' = {[x EXCEPT !.nb = adds] : x \in o})
    BY <1>5, Zenon DEF CountLoadedLibraries, object
  <2>2. /\ \A x \in o : x = [nb |-> x.nb, libs |-> x.libs] /\ x.libs \in [DOMAIN x.libs -> RevertInfo]
        /\ \A x, y \in o : x = y
        /\ overrides \subseteq o
    <3>1. CASE o = overrides
      BY <3>1, Zenon DEF EntriesInv
    <3>2. CASE overrides = {} /\ o = {NoOverrides}
      <4>1. NoOverrides.libs \in [{} -> RevertInfo] /\ DOMAIN NoOverrides.libs = {}
        BY Zenon DEF NoOverrides
      <4>2. NoOverrides = [nb |-> NoOverrides.nb, libs |-> NoOverrides.libs]
        BY Zenon DEF NoOverrides
      <4>. QED  BY <3>2, <4>1, <4>2, Zenon
    <3>. QED  BY <3>1, <3>2, Zenon
  <2>. HIDE DEF o
  <2>3. CASE overrides' = o
    BY <2>1, <2>2, <2>3, Zenon DEF EntriesInv
  <2>4. CASE overrides' = {[x EXCEPT !.nb = adds] : x \in o}
    <3>1. \A x \in o : [x EXCEPT !.nb = adds] = [nb |-> adds, libs |-> x.libs]
      BY <2>2
    <3>2. \A y \in overrides' : \E x \in o : y = [nb |-> adds, libs |-> x.libs]
      BY <2>4, <3>1, Zenon
    <3>3. \A x \in o : \E y \in overrides' : y.libs = x.libs
      BY <2>4, <3>1, Zenon
    <3>4. /\ \A x \in overrides' : x = [nb |-> x.nb, libs |-> x.libs] /\ x.libs \in [DOMAIN x.libs -> RevertInfo]
          /\ \A x, y \in overrides' : x = y
      BY <3>2, <2>2
    <3>. QED  BY <3>3, <3>4, <2>1, <2>2 DEF EntriesInv
  <2>. QED  BY <2>1, <2>3, <2>4, Zenon
<1>6. CASE ApplyOverrides(t)
  <2>1. PICK x \in overrides, failed \in SUBSET Overridable :
          LET new == Overridable \ DOMAIN x.libs
          IN /\ images' = [b \in DOMAIN images |->
                   IF b \in new \ failed
                     THEN [images[b] EXCEPT !.got = "hook", !.writable = TRUE] ELSE images[b]]
             /\ overrides' = {[x EXCEPT !.libs = [b \in Overridable |->
                   IF b \in new THEN [name |-> images[b].lib, old |-> images[b].got] ELSE x.libs[b]]]}
    BY <1>6, Zenon DEF ApplyOverrides
  <2>. DEFINE new == Overridable \ DOMAIN x.libs
              libs == [b \in Overridable |->
                   IF b \in new THEN [name |-> images[b].lib, old |-> images[b].got] ELSE x.libs[b]]
              Hooked(b) == [images[b] EXCEPT !.got = "hook", !.writable = TRUE]
  <2>2. x = [nb |-> x.nb, libs |-> x.libs] /\ x.libs \in [DOMAIN x.libs -> RevertInfo]
    BY Zenon DEF EntriesInv
  <2>3. overrides' = {[nb |-> x.nb, libs |-> libs]}
    <3>1. overrides' = {[x EXCEPT !.libs = libs]}
      BY <2>1, Zenon
    <3>. HIDE DEF libs
    <3>2. [x EXCEPT !.libs = libs] = [nb |-> x.nb, libs |-> libs]
      BY <2>2
    <3>. QED  BY <3>1, <3>2, Zenon
  <2>4. \A b \in DOMAIN images : Hooked(b) \in Images /\ Hooked(b).lib = images[b].lib /\ images[b] \in Images
    BY Zenon DEF EntriesInv, Images
  <2>5. /\ images' \in [DOMAIN images -> Images] /\ DOMAIN images' = DOMAIN images
        /\ \A b \in DOMAIN images : /\ images'[b].lib = images[b].lib
                                    /\ b \notin new => images'[b] = images[b]
    BY <2>1, <2>4, Zenon
  <2>6. \A b \in new : images[b].got # "hook" /\ images[b] \in Images
    BY <2>4, Zenon DEF EntriesInv, Overridable
  <2>7. libs \in [Overridable -> RevertInfo]
    <3>1. \A b \in new : [name |-> images[b].lib, old |-> images[b].got] \in RevertInfo
      BY <2>6, Zenon DEF Images, RevertInfo
    <3>2. \A b \in Overridable \ new : x.libs[b] \in RevertInfo
      BY <2>2, Zenon
    <3>. QED  BY <3>1, <3>2, Zenon
  <2>8. ASSUME NEW b \in DOMAIN images, images'[b].got = "hook"
        PROVE  b \in Overridable /\ libs[b].name = images[b].lib
    <3>1. CASE b \in new
      BY <3>1, Zenon DEF Overridable
    <3>2. CASE b \notin new
      <4>1. images[b].got = "hook"
        BY <3>2, <2>5, <2>8, Zenon
      <4>2. images[b].lib \notin Excluded /\ b \in DOMAIN x.libs /\ x.libs[b].name = images[b].lib
        BY <4>1, Zenon DEF EntriesInv
      <4>. QED  BY <4>2, <3>2, Zenon DEF Overridable
    <3>. QED  BY <3>1, <3>2, Zenon
  <2>9. \A b \in DOMAIN images' : images'[b].got = "hook" =>
          /\ images'[b].lib \notin Excluded
          /\ \E y \in overrides' : b \in DOMAIN y.libs /\ y.libs[b].name = images'[b].lib
    BY <2>3, <2>5, <2>7, <2>8, Zenon DEF Overridable
  <2>10. /\ \A y \in overrides' : y = [nb |-> y.nb, libs |-> y.libs] /\ y.libs \in [DOMAIN y.libs -> RevertInfo]
         /\ \A y, z \in overrides' : y = z
    BY <2>3, <2>7
  <2>. QED  BY <2>5, <2>9, <2>10, Zenon DEF EntriesInv
<1>7. CASE RestoreOverrides(t)
  <2>1. CASE UNCHANGED <<images, overrides>>
    BY <2>1, <1>1, Zenon
  <2>2. CASE /\ images' = [b \in DOMAIN images |-> IF b \in Restored THEN Restore(b) ELSE images[b]]
             /\ overrides' = {}
    <3>1. ASSUME NEW b \in DOMAIN images
          PROVE  images'[b] \in Images /\ images'[b].got # "hook"
      <4>1. CASE b \in Restored
        <5>1. PICK x \in overrides : b \in DOMAIN x.libs
          BY <4>1, Zenon DEF Restored
        <5>2. (CHOOSE y \in overrides : TRUE) = x
          BY <5>1, Zenon DEF EntriesInv
        <5>3. x.libs[b] \in RevertInfo
          BY <5>1, Zenon DEF EntriesInv
        <5>4. images'[b] = [images[b] EXCEPT !.got = x.libs[b].old]
          BY <2>2, <4>1, <5>2, Zenon DEF Restore
        <5>. QED  BY <5>3, <5>4 DEF EntriesInv, Images, RevertInfo
      <4>2. CASE b \notin Restored
        BY <2>2, <4>2 DEF EntriesInv, Restored
      <4>. QED  BY <4>1, <4>2, Zenon
    <3>2. images' \in [DOMAIN images -> Images] /\ DOMAIN images' = DOMAIN images
      BY <2>2, <3>1, Zenon
    <3>. QED  BY <2>2, <3>1, <3>2, Zenon DEF EntriesInv
  <2>. QED  BY <1>7, <2>1, <2>2, Zenon DEF RestoreOverrides, Fault
<1>. QED  BY <1>1, <1>2, <1>3, <1>4, <1>5, <1>6, <1>7, EntriesUntouched, Zenon DEF Actions

\* The steps that a thread makes in its call keep to the call.
LEMMA PlaceStep ==
  ASSUME NEW t \in Threads, IInv, Actions(t)
  PROVE  PlaceInv'
<1>. USE DEF IInv
<1>. DEFINE P(l, o, g) ==
       /\ l = "run" => o = "none"
       /\ l \in {"resolve", "hook", "push", "timer"} => o = "malloc"
       /\ l \in {"restore", "free"} => o = "stop"
       /\ l = "end" => o \in {"start", "stop"}
       /\ l \in {"count", "apply"} => o # "stop" /\ g
<1>0. P(pc[t], op[t], reentry_guard[t])
  BY Zenon DEF PlaceInv
\* A step of t alone, to a fitting place, in the same call or a call that is
\* not a second start or stop.
<1>1. ASSUME NEW l, NEW o, NEW g,
             pc' = [pc EXCEPT ![t] = l], op' = [op EXCEPT ![t] = o],
             reentry_guard' = [reentry_guard EXCEPT ![t] = g],
             P(l, o, g), o = op[t] \/ o \notin {"start", "stop"} \/ Steady
      PROVE  PlaceInv'
  <2>1. /\ pc' = [u \in Threads |-> pc'[u]] /\ op' = [u \in Threads |-> op'[u]]
        /\ reentry_guard' = [u \in Threads |-> reentry_guard'[u]]
    BY <1>1, Zenon DEF PlaceInv
  <2>2. /\ pc'[t] = l /\ op'[t] = o /\ reentry_guard'[t] = g
        /\ \A u \in Threads \ {t} : pc'[u] = pc[u] /\ op'[u] = op[u] /\ reentry_guard'[u] = reentry_guard[u]
    BY <1>1, Zenon DEF PlaceInv
  <2>3. \A u \in Threads : P(pc'[u], op'[u], reentry_guard'[u])
    <3>1. ASSUME NEW u \in Threads \ {t} PROVE P(pc'[u], op'[u], reentry_guard'[u])
      BY <2>2, Zenon DEF PlaceInv
    <3>. QED  BY <2>2, <1>1, <3>1, Zenon
  <2>4. \A u, v \in Threads : op'[u] \in {"start", "stop"} /\ op'[v] \in {"start", "stop"} => u = v
    BY <2>2, <1>1 DEF PlaceInv, Steady
  <2>. QED  BY <2>1, <2>3, <2>4, Zenon DEF PlaceInv
<1>2. CASE UNCHANGED <<pc, op, reentry_guard>>
  BY <1>2, Zenon DEF PlaceInv
<1>3. ASSUME Return(t) PROVE PlaceInv'
  BY <1>1, <1>3, Zenon DEF Return, Goto
\* A call begins, at l.
<1>4. ASSUME NEW o, NEW b, NEW l, Call(t, o, b), Goto(t, l), UNCHANGED reentry_guard,
             P(l, o, FALSE), o \notin {"start", "stop"} \/ Steady
      PROVE  PlaceInv'
  <2>1. reentry_guard' = [reentry_guard EXCEPT ![t] = reentry_guard[t]]
    BY <1>4, Zenon DEF PlaceInv
  <2>2. P(l, o, reentry_guard[t])
    BY <1>4, Zenon
  <2>. HIDE DEF P
  <2>. QED  BY <1>1, <1>4, <2>1, <2>2, Zenon DEF Call, Goto
<1>5. ASSUME Fault PROVE PlaceInv'
  <2>1. pc' = [u \in Threads |-> "gone"] /\ UNCHANGED <<op, reentry_guard>>
    BY <1>5, Zenon DEF Fault
  <2>. QED  BY <2>1, Zenon DEF PlaceInv
\* The lock is released.
<1>6. ASSUME Unlock(t), op[t] = "stop" \/ pc[t] \in {"count", "apply"} PROVE PlaceInv'
  <2>1. CASE op[t] = "stop"
    <3>1. /\ pc' = [pc EXCEPT ![t] = "free"] /\ op' = op
          /\ reentry_guard' = [reentry_guard EXCEPT ![t] = FALSE]
      BY <2>1, <1>6, Zenon DEF Unlock, Goto
    <3>2. op' = [op EXCEPT ![t] = op[t]]
      BY <3>1, Zenon DEF PlaceInv
    <3>. QED  BY <1>1, <2>1, <3>1, <3>2, Zenon
  <2>2. CASE op[t] # "stop"
    BY <1>3, <1>6, <2>2, Zenon DEF Unlock
  <2>. QED  BY <2>1, <2>2, Zenon
<1>. HIDE DEF P
<1>11. CASE Malloc(t)
  <2>1. PICK b : /\ Call(t, "malloc", b)
                 /\ Goto(t, IF images[b].got = "lazy" THEN "resolve" ELSE "hook")
                 /\ UNCHANGED reentry_guard
    BY <1>11, Zenon DEF Malloc
  <2>2. P("resolve", "malloc", FALSE) /\ P("hook", "malloc", FALSE)
    BY Zenon DEF P
  <2>. QED  BY <1>4, <2>1, <2>2, Zenon
<1>12. CASE Dlopen(t) \/ Dlclose(t)
  <2>1. PICK b : \/ Call(t, "dlopen", b) /\ Goto(t, "lock") /\ UNCHANGED reentry_guard
                 \/ Call(t, "none", -1) /\ UNCHANGED <<pc, reentry_guard>>
    BY <1>12, Zenon DEF Dlopen, Dlclose
  <2>2. P("lock", "dlopen", FALSE) /\ P("run", "none", FALSE)
    BY Zenon DEF P
  <2>3. ASSUME Call(t, "none", -1), UNCHANGED pc PROVE Goto(t, "run")
    BY <2>3, Zenon DEF Call, Goto, PlaceInv
  <2>. QED  BY <1>4, <2>1, <2>2, <2>3, Zenon
<1>13. CASE Fork(t)
  <2>1. /\ Steady /\ pc[t] = "run"
        /\ op' = [op EXCEPT ![t] = "none"] /\ UNCHANGED reentry_guard
        /\ pc' = [u \in Threads |-> IF u = t THEN pc[u] ELSE "gone"]
    BY <1>13, Zenon DEF Fork, Call
  <2>2. /\ op' = [u \in Threads |-> op'[u]] /\ op'[t] = "none"
        /\ \A u \in Threads : op'[u] \notin {"start", "stop"}
    BY <2>1, Zenon DEF PlaceInv, Steady
  <2>3. /\ pc' = [u \in Threads |-> pc'[u]] /\ pc'[t] = "run"
        /\ \A u \in Threads \ {t} : pc'[u] = "gone"
    BY <2>1, Zenon
  <2>. QED  BY <2>1, <2>2, <2>3, Zenon DEF PlaceInv
<1>14. CASE Start(t)
  <2>1. /\ Steady /\ Call(t, "start", -1) /\ UNCHANGED reentry_guard
        /\ Goto(t, "lock") \/ Goto(t, "end")
    BY <1>14, Zenon DEF Start
  <2>2. P("lock", "start", FALSE) /\ P("end", "start", FALSE)
    BY Zenon DEF P
  <2>. QED  BY <1>4, <2>1, <2>2, Zenon
<1>15. CASE Stop(t)
  <2>1. /\ Steady /\ Call(t, "stop", -1) /\ UNCHANGED reentry_guard
        /\ Goto(t, "lock") \/ Goto(t, "end")
    BY <1>15, Zenon DEF Stop
  <2>2. P("lock", "stop", FALSE) /\ P("end", "stop", FALSE)
    BY Zenon DEF P
  <2>. QED  BY <1>4, <2>1, <2>2, Zenon
<1>16. CASE Resolve(t) \/ End(t) \/ AllocationTrackingFree(t)
  BY <1>3, <1>16, Zenon DEF Resolve, End, AllocationTrackingFree
<1>17. CASE TrackAllocation(t)
  <2>1. CASE Return(t)
    BY <1>3, <2>1, Zenon
  <2>2. CASE /\ Goto(t, "push") /\ UNCHANGED op
             /\ reentry_guard' = [reentry_guard EXCEPT ![t] = TRUE]
    <3>1. op' = [op EXCEPT ![t] = op[t]] /\ op[t] = "malloc"
      BY <1>17, <2>2, Zenon DEF PlaceInv, TrackAllocation
    <3>2. P("push", "malloc", TRUE)
      BY Zenon DEF P
    <3>. QED  BY <1>1, <2>2, <3>1, <3>2, Zenon DEF Goto
  <2>. QED  BY <1>17, <2>1, <2>2, Zenon DEF TrackAllocation
<1>18. CASE Push(t)
  <2>1. Fault \/ Return(t) \/ (Goto(t, "timer") /\ UNCHANGED <<op, reentry_guard>>)
    BY <1>18, Zenon DEF Push
  <2>2. CASE Goto(t, "timer") /\ UNCHANGED <<op, reentry_guard>>
    <3>1. /\ op' = [op EXCEPT ![t] = op[t]] /\ op[t] = "malloc"
          /\ reentry_guard' = [reentry_guard EXCEPT ![t] = reentry_guard[t]]
      BY <1>18, <2>2, Zenon DEF PlaceInv, Push
    <3>2. P("timer", "malloc", reentry_guard[t])
      BY Zenon DEF P
    <3>. QED  BY <1>1, <2>2, <3>1, <3>2, Zenon DEF Goto
  <2>. QED  BY <1>3, <1>5, <2>1, <2>2, Zenon
<1>19. CASE UpdateTimer(t)
  <2>1. Fault \/ Return(t) \/ (Goto(t, "lock") /\ UNCHANGED <<op, reentry_guard>>)
    BY <1>19, Zenon DEF UpdateTimer
  <2>2. CASE Goto(t, "lock") /\ UNCHANGED <<op, reentry_guard>>
    <3>1. /\ op' = [op EXCEPT ![t] = op[t]]
          /\ reentry_guard' = [reentry_guard EXCEPT ![t] = reentry_guard[t]]
      BY <2>2, Zenon DEF PlaceInv
    <3>2. P("lock", op[t], reentry_guard[t])
      BY Zenon DEF P
    <3>. QED  BY <1>1, <2>2, <3>1, <3>2, Zenon DEF Goto
  <2>. QED  BY <1>3, <1>5, <2>1, <2>2, Zenon
<1>20. CASE Lock(t)
  <2>1. /\ Goto(t, IF op[t] = "stop" THEN "restore" ELSE "count") /\ UNCHANGED op
        /\ reentry_guard' = [reentry_guard EXCEPT ![t] = TRUE]
    BY <1>20, Zenon DEF Lock
  <2>2. op' = [op EXCEPT ![t] = op[t]]
    BY <2>1, Zenon DEF PlaceInv
  <2>3. P(IF op[t] = "stop" THEN "restore" ELSE "count", op[t], TRUE)
    BY Zenon DEF P
  <2>. QED  BY <1>1, <2>1, <2>2, <2>3, Zenon DEF Goto
<1>21. CASE CountLoadedLibraries(t)
  <2>1. Unlock(t) \/ (Goto(t, "apply") /\ UNCHANGED <<op, reentry_guard>>)
    BY <1>21, Zenon DEF CountLoadedLibraries
  <2>2. pc[t] = "count" /\ op[t] # "stop" /\ reentry_guard[t]
    BY <1>21, Zenon DEF CountLoadedLibraries, PlaceInv
  <2>3. CASE Goto(t, "apply") /\ UNCHANGED <<op, reentry_guard>>
    <3>1. /\ op' = [op EXCEPT ![t] = op[t]]
          /\ reentry_guard' = [reentry_guard EXCEPT ![t] = reentry_guard[t]]
      BY <2>3, Zenon DEF PlaceInv
    <3>2. P("apply", op[t], reentry_guard[t])
      BY <2>2, Zenon DEF P
    <3>. QED  BY <1>1, <2>3, <3>1, <3>2, Zenon DEF Goto
  <2>. QED  BY <1>6, <2>1, <2>2, <2>3, Zenon
<1>22. CASE ApplyOverrides(t)
  <2>1. pc[t] = "apply" /\ ~Reenters(t)
    BY <1>22, Zenon DEF ApplyOverrides, PlaceInv, Reenters
  <2>2. Unlock(t)
    BY <1>22, <2>1, Zenon DEF ApplyOverrides
  <2>. QED  BY <1>6, <2>1, <2>2, Zenon
<1>23. CASE RestoreOverrides(t)
  <2>1. op[t] = "stop" /\ (Unlock(t) \/ Fault)
    BY <1>23, Zenon DEF RestoreOverrides, PlaceInv
  <2>. QED  BY <1>5, <1>6, <2>1, Zenon
<1>. QED
  BY <1>11, <1>12, <1>13, <1>14, <1>15, <1>16, <1>17, <1>18, <1>19, <1>20, <1>21, <1>22, <1>23, Zenon
     DEF Actions

\* The overrides are made by a start, and given up by its stop.
LEMMA PeriodStep ==
  ASSUME NEW t \in Threads, IInv, Actions(t)
  PROVE  PeriodInv'
<1>. USE DEF IInv
<1>1. PlaceInv'
  BY PlaceStep, Zenon
<1>2. Steady => \A u \in Threads : op[u] # "start" /\ pc[u] \notin {"free", "end"}
  BY Zenon DEF PlaceInv, Steady
\* Nothing changes but the place and the call of t, neither of them in start or stop.
<1>3. ASSUME UNCHANGED state, overrides' = {} <=> overrides = {},
             pc' = [pc EXCEPT ![t] = pc'[t]], op' = [op EXCEPT ![t] = op'[t]],
             op[t] = op'[t] \/ op[t] # "start",
             pc'[t] \notin {"free", "end"}
      PROVE  PeriodInv'
  <2>1. /\ \A u \in Threads : op[u] = "start" => op'[u] = "start"
        /\ \A u \in Threads : pc'[u] \in {"free", "end"} => pc[u] \in {"free", "end"}
    BY <1>3, Zenon DEF PlaceInv
  <2>. QED  BY <1>3, <2>1, Zenon DEF PeriodInv, state
\* There are no overrides: all is said by the two flags.
<1>4. ASSUME overrides' = {}, started' \in BOOLEAN, allocation_profiling_started' \in BOOLEAN,
             allocation_profiling_started' => started'
      PROVE  PeriodInv'
  BY <1>4, Zenon DEF PeriodInv
\* The step of a start that holds the lock.
<1>5. ASSUME op[t] = "start", pc[t] \in {"count", "apply"},
             pc' = [pc EXCEPT ![t] = pc'[t]], pc'[t] \notin {"free", "end"},
             \/ started' = TRUE /\ allocation_profiling_started' = TRUE
             \/ UNCHANGED <<op, state>>
      PROVE  PeriodInv'
  <2>1. \A u \in Threads : pc'[u] \notin {"free", "end"}
    BY <1>5, Zenon DEF PlaceInv
  <2>2. CASE started' = TRUE /\ allocation_profiling_started' = TRUE
    BY <2>1, <2>2, Zenon DEF PeriodInv
  <2>3. CASE UNCHANGED <<op, state>>
    <3>1. \E u \in Threads : op'[u] = "start"
      BY <1>5, <2>3, Zenon
    <3>. QED  BY <2>1, <2>3, <3>1, Zenon DEF PeriodInv, state
  <2>. QED  BY <1>5, <2>2, <2>3, Zenon
<1>6. ASSUME Fault, UNCHANGED state PROVE PeriodInv'
  BY <1>6, Zenon DEF Fault, PeriodInv, state
\* Unlock, but for stop.
<1>7. ASSUME Unlock(t), op[t] # "stop", pc[t] \in {"count", "apply"},
             op[t] # "start" => (overrides' = {} <=> overrides = {})
      PROVE  PeriodInv'
  <2>1. /\ pc' = [pc EXCEPT ![t] = "run"] /\ op' = [op EXCEPT ![t] = "none"]
        /\ op[t] = "start" => started' = TRUE /\ allocation_profiling_started' = TRUE
        /\ op[t] # "start" => UNCHANGED state
    BY <1>7, Zenon DEF Unlock, Return, Goto
  <2>2. pc' = [pc EXCEPT ![t] = pc'[t]] /\ op' = [op EXCEPT ![t] = op'[t]] /\ pc'[t] = "run"
    BY <2>1, Zenon DEF PlaceInv
  <2>. QED  BY <1>3, <1>5, <1>7, <2>1, <2>2, Zenon
<1>11. CASE Malloc(t) \/ Dlopen(t) \/ Dlclose(t)
  <2>1. /\ pc[t] = "run" /\ UNCHANGED <<state, overrides>>
        /\ pc' = pc \/ \E l \in {"resolve", "hook", "lock"} : pc' = [pc EXCEPT ![t] = l]
        /\ \E o \in {"malloc", "dlopen", "none"} : op' = [op EXCEPT ![t] = o]
    BY <1>11, Zenon DEF Malloc, Dlopen, Dlclose, Call, Goto
  <2>2. op[t] = "none" /\ pc' = [pc EXCEPT ![t] = pc'[t]] /\ op' = [op EXCEPT ![t] = op'[t]]
    BY <2>1, Zenon DEF PlaceInv
  <2>3. pc'[t] \notin {"free", "end"}
    BY <2>1, Zenon DEF PlaceInv
  <2>. QED  BY <1>3, <2>1, <2>2, <2>3, Zenon
<1>12. CASE Fork(t)
  <2>1. /\ pc[t] = "run" /\ UNCHANGED <<state, overrides>> /\ Steady
        /\ pc' = [u \in Threads |-> IF u = t THEN pc[u] ELSE "gone"]
    BY <1>12, Zenon DEF Fork, Call
  <2>2. \A u \in Threads : pc'[u] \notin {"free", "end"}
    BY <2>1, Zenon
  <2>. QED  BY <1>2, <2>1, <2>2, Zenon DEF PeriodInv, state
<1>13. CASE Start(t)
  <2>1. /\ Steady /\ ~started /\ UNCHANGED <<overrides, allocation_profiling_started>>
        /\ started' = TRUE \/ started' = started
    BY <1>13, Zenon DEF Start
  <2>2. overrides = {} /\ allocation_profiling_started = FALSE
    BY <1>2, <2>1, Zenon DEF PeriodInv
  <2>. QED  BY <1>4, <2>1, <2>2, Zenon DEF PeriodInv
<1>14. CASE Stop(t)
  <2>1. /\ Steady /\ UNCHANGED <<overrides, allocation_profiling_started>>
        /\ started' = allocation_profiling_started
        /\ pc' = [pc EXCEPT ![t] = IF allocation_profiling_started THEN "lock" ELSE "end"]
    BY <1>14, Zenon DEF Stop, Goto
  <2>2. CASE allocation_profiling_started
    <3>1. \A u \in Threads : pc'[u] \notin {"free", "end"}
      BY <1>2, <2>1, <2>2, Zenon DEF PlaceInv
    <3>. QED  BY <2>1, <2>2, <3>1, Zenon DEF PeriodInv
  <2>3. CASE ~allocation_profiling_started
    <3>1. overrides = {}
      BY <1>2, <2>1, <2>3, Zenon DEF PeriodInv
    <3>. QED  BY <1>4, <2>1, <3>1, Zenon DEF PeriodInv
  <2>. QED  BY <2>2, <2>3, Zenon
<1>15. CASE End(t)
  <2>1. overrides' = {} /\ UNCHANGED state
    BY <1>15, Zenon DEF End, PeriodInv
  <2>. QED  BY <1>4, <2>1, Zenon DEF PeriodInv, state
<1>16. CASE AllocationTrackingFree(t)
  <2>1. overrides' = {} /\ started' = FALSE /\ allocation_profiling_started' = FALSE
    BY <1>16, Zenon DEF AllocationTrackingFree, PeriodInv
  <2>. QED  BY <1>4, <2>1, Zenon
<1>17. CASE Resolve(t) \/ TrackAllocation(t) \/ Push(t) \/ UpdateTimer(t)
  <2>1. UNCHANGED <<state, overrides>> /\ op[t] = "malloc"
    BY <1>17, Zenon DEF Resolve, TrackAllocation, Push, UpdateTimer, Return, Fault, PlaceInv
  <2>2. \/ Fault
        \/ Return(t)
        \/ UNCHANGED op /\ \E l \in {"push", "timer", "lock"} : pc' = [pc EXCEPT ![t] = l]
    BY <1>17, Zenon DEF Resolve, TrackAllocation, Push, UpdateTimer, Goto
  <2>3. CASE Fault
    BY <1>6, <2>1, <2>3, Zenon
  <2>4. CASE ~Fault
    <3>1. /\ \E l \in {"run", "push", "timer", "lock"} : pc' = [pc EXCEPT ![t] = l]
          /\ op' = op \/ op' = [op EXCEPT ![t] = "none"]
      BY <2>2, <2>4, Zenon DEF Return, Goto
    <3>2. pc' = [pc EXCEPT ![t] = pc'[t]] /\ pc'[t] \notin {"free", "end"}
      BY <3>1, Zenon DEF PlaceInv
    <3>3. op' = [op EXCEPT ![t] = op'[t]]
      BY <3>1, Zenon DEF PlaceInv
    <3>. QED  BY <1>3, <2>1, <3>2, <3>3, Zenon
  <2>. QED  BY <2>3, <2>4, Zenon
<1>18. CASE Lock(t)
  <2>1. /\ UNCHANGED <<state, overrides, op>>
        /\ \E l \in {"restore", "count"} : pc' = [pc EXCEPT ![t] = l]
    BY <1>18, Zenon DEF Lock, Goto
  <2>2. pc' = [pc EXCEPT ![t] = pc'[t]] /\ pc'[t] \notin {"free", "end"}
    BY <2>1, Zenon DEF PlaceInv
  <2>3. op' = [op EXCEPT ![t] = op'[t]]
    BY <2>1, Zenon DEF PlaceInv
  <2>. QED  BY <1>3, <2>1, <2>2, <2>3, Zenon
<1>19. CASE CountLoadedLibraries(t)
  <2>1. pc[t] = "count" /\ op[t] # "stop"
    BY <1>19, Zenon DEF CountLoadedLibraries, PlaceInv
  <2>2. op[t] # "start" => (overrides' = {} <=> overrides = {})
    BY <1>19, Zenon DEF CountLoadedLibraries
  <2>3. CASE Unlock(t)
    BY <1>7, <2>1, <2>2, <2>3, Zenon
  <2>4. CASE ~Unlock(t)
    <3>1. UNCHANGED <<state, op>> /\ pc' = [pc EXCEPT ![t] = "apply"]
      BY <1>19, <2>4, Zenon DEF CountLoadedLibraries, Goto
    <3>2. pc' = [pc EXCEPT ![t] = pc'[t]] /\ pc'[t] = "apply" /\ op' = [op EXCEPT ![t] = op'[t]]
      BY <3>1, Zenon DEF PlaceInv
    <3>. QED  BY <1>3, <1>5, <2>1, <2>2, <3>1, <3>2, Zenon
  <2>. QED  BY <2>3, <2>4, Zenon
<1>20. CASE ApplyOverrides(t)
  <2>1. pc[t] = "apply" /\ op[t] # "stop" /\ ~Reenters(t)
    BY <1>20, Zenon DEF ApplyOverrides, PlaceInv, Reenters
  <2>2. Unlock(t)
    BY <1>20, <2>1, Zenon DEF ApplyOverrides
  <2>3. overrides # {} /\ overrides' # {}
    BY <1>20, Zenon DEF ApplyOverrides
  <2>. QED  BY <1>7, <2>1, <2>2, <2>3, Zenon
<1>21. CASE RestoreOverrides(t)
  <2>1. op[t] = "stop"
    BY <1>21, Zenon DEF RestoreOverrides, PlaceInv
  <2>2. \/ overrides' = {} /\ Unlock(t)
        \/ Fault /\ UNCHANGED state
    BY <1>21, Zenon DEF RestoreOverrides
  <2>3. CASE overrides' = {} /\ Unlock(t)
    <3>1. UNCHANGED state
      BY <2>1, <2>3, Zenon DEF Unlock
    <3>. QED  BY <1>4, <2>3, <3>1, Zenon DEF PeriodInv, state
  <2>. QED  BY <1>6, <2>2, <2>3, Zenon
<1>. QED
  BY <1>11, <1>12, <1>13, <1>14, <1>15, <1>16, <1>17, <1>18, <1>19, <1>20, <1>21, Zenon DEF Actions

\* SymbolOverrides and g_symbol_overrides: whatever the threads load, unload
\* and call, and whichever of them is checking the libraries when another
\* stops, no object calls a hook once ddprof_stop_profiling has returned.
THEOREM StoppedNeverHooked == Spec => []StoppedUnhooked
<1>1. IInv /\ [Next]_vars => IInv'
  <2>. SUFFICES ASSUME IInv, [Next]_vars PROVE IInv'
    BY Zenon
  <2>1. ASSUME NEW t \in Threads, Actions(t) PROVE IInv'
    BY <2>1, EntriesStep, PlaceStep, PeriodStep, Zenon DEF IInv
  <2>2. CASE TimePasses \/ UNCHANGED vars
    <3>1. UNCHANGED <<images, overrides, started, allocation_profiling_started, pc, op, reentry_guard>>
      BY <2>2, Zenon DEF TimePasses, vars, object, state, thread
    <3>. QED  BY <3>1, Zenon DEF IInv, EntriesInv, PlaceInv, PeriodInv
  <2>. QED  BY <2>1, <2>2, Zenon DEF Next, Step, Actions
<1>2. IInv => StoppedUnhooked
  BY Zenon DEF IInv, EntriesInv, PeriodInv, StoppedUnhooked, Steady
<1>. QED  BY InitInv, <1>1, <1>2, PTL DEF Spec
-----------------------------------------------------------------------------
(* The buffers *)

\* A thread holds buffers of a start up to the one the tracker refers to, and
\* those of the last start exist if the tracker refers to them.
BufferInv ==
  /\ session \in Nat /\ rb \in 0 .. session
  /\ hold \in [Threads -> 0 .. rb]
  /\ rb = session => mapped = session

\* Only a start changes what exists, and only the beginning of a hook what is held.
LEMMA BufferStep ==
  ASSUME NEW t \in Threads, BufferInv, Actions(t)
  PROVE  BufferInv'
<1>1. ASSUME UNCHANGED <<session, rb, mapped>>,
             hold' = hold \/ \E h \in {0, rb} : hold' = [hold EXCEPT ![t] = h]
      PROVE  BufferInv'
  BY <1>1 DEF BufferInv
<1>2. Return(t) => hold' = [hold EXCEPT ![t] = 0]
  BY Zenon DEF Return
<1>3. Fault => hold' = hold
  BY Zenon DEF Fault
<1>4. Unlock(t) => hold' = hold \/ hold' = [hold EXCEPT ![t] = 0]
  BY Zenon DEF Unlock, Return
<1>5. CASE Malloc(t) \/ Dlopen(t) \/ Dlclose(t) \/ Fork(t) \/ Stop(t) \/ Lock(t)
  BY <1>1, <1>5, Zenon DEF Malloc, Dlopen, Dlclose, Fork, Stop, Lock, tracker
<1>6. CASE Resolve(t) \/ TrackAllocation(t) \/ AllocationTrackingFree(t) \/ End(t)
  BY <1>1, <1>2, <1>6, Zenon DEF Resolve, TrackAllocation, AllocationTrackingFree, End, tracker
<1>7. CASE Push(t)
  BY <1>1, <1>2, <1>3, <1>7, Zenon DEF Push
<1>8. CASE UpdateTimer(t)
  BY <1>1, <1>2, <1>3, <1>8, Zenon DEF UpdateTimer
<1>9. CASE CountLoadedLibraries(t) \/ ApplyOverrides(t)
  <2>1. UNCHANGED <<session, rb, mapped>> /\ (Unlock(t) \/ UNCHANGED hold)
    BY <1>9, Zenon DEF CountLoadedLibraries, ApplyOverrides
  <2>. QED  BY <1>1, <1>4, <2>1, Zenon
<1>10. CASE RestoreOverrides(t)
  BY <1>1, <1>3, <1>4, <1>10, Zenon DEF RestoreOverrides
<1>11. CASE Start(t)
  <2>1. /\ session' = session + 1 /\ UNCHANGED hold
        /\ \/ rb' = session' /\ mapped' = session'
           \/ rb' = rb
    BY <1>11, Zenon DEF Start
  <2>. QED  BY <2>1 DEF BufferInv
<1>. QED
  BY <1>5, <1>6, <1>7, <1>8, <1>9, <1>10, <1>11, Zenon DEF Actions

\* AllocationTracker::allocation_tracking_free leaves the ring buffer mapped and
\* the address set alone: for any threads and any order of starts and stops, a
\* hook that a stop overtook finds the buffers it began with, until the next start.
THEOREM BuffersOutlive == Spec => []BuffersOutliveStop
<1>1. Init => BufferInv
  BY DEF Init, BufferInv
<1>2. BufferInv /\ [Next]_vars => BufferInv'
  <2>. SUFFICES ASSUME BufferInv, [Next]_vars PROVE BufferInv'
    OBVIOUS
  <2>1. CASE \E t \in Threads : Actions(t)
    BY <2>1, BufferStep, Zenon
  <2>2. CASE TimePasses \/ UNCHANGED vars
    BY <2>2, Zenon DEF TimePasses, vars, tracker, thread, BufferInv
  <2>. QED  BY <2>1, <2>2, Zenon DEF Next, Step, Actions
<1>3. BufferInv => BuffersOutliveStop
  BY DEF BufferInv, BuffersOutliveStop
<1>. QED  BY <1>1, <1>2, <1>3, PTL DEF Spec
=============================================================================
