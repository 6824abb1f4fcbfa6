--------------------------- MODULE MCAddressTable ---------------------------
(* Instances of AddressTable. *)
EXTENDS AddressTable, TLC

CONSTANTS t1, t2, a1, a2, a3, a4, near, far

\* Three addresses that collide and one in the table of large allocations.
Clash ==
  [chunk |-> (a1 :> near) @@ (a2 :> near) @@ (a3 :> near) @@ (a4 :> far),
   home |-> (a1 :> 2) @@ (a2 :> 2) @@ (a3 :> 3) @@ (a4 :> 2),
   size |-> 4, probes |-> 3, large |-> far, early |-> FALSE]

\* Three addresses with the same first slot, in tables of a given size.
Same(n, distance, reuse) ==
  [chunk |-> (a1 :> near) @@ (a2 :> near) @@ (a3 :> near),
   home |-> (a1 :> 1) @@ (a2 :> 1) @@ (a3 :> 1),
   size |-> n, probes |-> distance, large |-> far, early |-> reuse]

\* Two addresses that are given out again while they are in the set.
Pair ==
  [chunk |-> (a1 :> near) @@ (a2 :> near), home |-> (a1 :> 1) @@ (a2 :> 1),
   size |-> 4, probes |-> 3, large |-> far, early |-> TRUE]

\* Allocations that fail, on the probe sequence of two addresses.
Failing(reuse) ==
  [chunk |-> (a1 :> near) @@ (a2 :> near) @@ (Null :> near),
   home |-> (a1 :> 1) @@ (a2 :> 1) @@ (Null :> 1),
   size |-> 4, probes |-> 3, large |-> far, early |-> reuse]

AllSetups == {Clash, Same(2, 2, FALSE), Pair, Failing(FALSE), Failing(TRUE)}

Symmetry == Permutations({t1, t2})

=============================================================================
