---------------------------- MODULE EventChannel ----------------------------
(***************************************************************************)
(* What an event ring buffer promises its two ends: events are sent one at *)
(* a time, each is processed at most once and only after it has been sent, *)
(* and none is taken back.  Nothing is promised about their order.         *)
(***************************************************************************)

VARIABLES
  sent,           \* events the writers have committed
  delivered       \* events the reader has processed

Init == sent = {} /\ delivered = {}

\* A writer commits an event that was not there before.
Send ==
  /\ \E e \in sent' : e \notin sent /\ sent' = sent \cup {e}
  /\ UNCHANGED delivered

\* The reader processes one of the events it has not processed yet.
Deliver ==
  /\ \E e \in sent \ delivered : delivered' = delivered \cup {e}
  /\ UNCHANGED sent

Next == Send \/ Deliver

Spec == Init /\ [][Next]_<<sent, delivered>>

=============================================================================
