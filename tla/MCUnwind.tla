------------------------------ MODULE MCUnwind ------------------------------
(***************************************************************************)
(* An instance of Unwind for TLC: two processes, an executable of three    *)
(* pages whose second one a JIT compiler takes for its code, and libraries *)
(* at pages 4 and 5.                                                       *)
(***************************************************************************)
EXTENDS Unwind

CONSTANTS a, b, c, f, g

M(s, e, file) == [start |-> s, end |-> e, offset |-> 0, file |-> file, prot_exec |-> TRUE]

MCFiles == {a, b, c}

MCLoaded == {M(1, 3, a), M(4, 4, b)}

MCExes == {M(1, 3, a), M(1, 1, b)}

\* b is an executable and a library, at two places; c has no usable segment;
\* the last three take the first page of a, split it, or remap a segment of it.
MCCandidates ==
  {M(4, 4, b), M(5, 5, b), M(4, 4, c), M(6, 6, JitDump),
   M(1, 1, Anon), M(2, 2, Anon), [M(2, 2, a) EXCEPT !.offset = 1]}

MCJitRecords == {[addr |-> 2, size |-> 1, name |-> f], [addr |-> 2, size |-> 1, name |-> g]}

MCFileSize == [x \in MCFiles |-> IF x = a THEN 3 ELSE 1]

MCInlined == [x \in MCFiles |-> IF x = a THEN 1 ELSE 0]

W(pcs, broken, skip) == [pcs |-> pcs, broken |-> broken, skip |-> skip]

MCWalks ==
  {W(<<3>>, FALSE, 0), W(<<4, 1, 0>>, FALSE, 2), W(<<2, 3, 1>>, FALSE, 0),
   W(<<5, 5, 5, 5, 5>>, TRUE, 0), W(<<1, -1, 4, 1, 1>>, FALSE, 0)}

\* The two functions are interchangeable.
Symmetry == Permutations({f, g})
=============================================================================
