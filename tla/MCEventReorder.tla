--------------------------- MODULE MCEventReorder ---------------------------
(* Instances of EventReorder. *)
EXTENDS EventReorder

Ordered(kinds) == [kind |-> kinds, reorder |-> TRUE, untimed |-> FALSE]

\* Two ring buffers, with and without reordering.  Records without time are
\* left to the other loop: see ReorderUntimed.
AllSetups ==
  {Ordered(<<"perf", "perf">>), Ordered(<<"perf", "mpsc">>),
   [kind |-> <<"perf", "mpsc">>, reorder |-> FALSE, untimed |-> TRUE]}

UntimedSetup ==
  {[kind |-> <<"perf", "perf">>, reorder |-> TRUE, untimed |-> TRUE]}

=============================================================================
