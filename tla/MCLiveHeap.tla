----------------------------- MODULE MCLiveHeap -----------------------------
(***************************************************************************)
(* An instance of LiveHeap for TLC: a process with two threads, and the    *)
(* child it may fork.                                                      *)
(***************************************************************************)
EXTENDS LiveHeap, TLC

CONSTANTS t1, t2, t3, p1, s1

MCFirst == {t1, t2}
MCThreads == MCFirst \cup {t3}
MCSamples == {[stack |-> s, value |-> 1] : s \in {s1, NoStack}}
MCSymmetry == Permutations(MCFirst)
=============================================================================
