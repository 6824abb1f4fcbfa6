----------------------------- MODULE MCMappings -----------------------------
(***************************************************************************)
(* An instance of Mappings for TLC: two processes and three pages.         *)
(***************************************************************************)
EXTENDS Mappings

CONSTANTS a, b

M(s, e, o, f, x) == [start |-> s, end |-> e, offset |-> o, file |-> f, prot_exec |-> x]

MCFiles == {a, b}

\* A library over all pages, another over a part of it, and memory without a
\* file in the middle and at the end of them.
MCCandidates ==
  {M(1, 3, 0, a, TRUE), M(2, 3, 0, b, TRUE), M(2, 2, 0, Anon, TRUE), M(3, 3, 0, Anon, FALSE)}

MCLoaded == {M(1, 3, 0, a, TRUE)}
=============================================================================
