----------------------------- MODULE MCKnowledge -----------------------------
(***************************************************************************)
(* Small instances of Knowledge for TLC.                                   *)
(***************************************************************************)
EXTENDS Knowledge, TLC

CONSTANTS i1, i2, c1, k1, k2

\* Ids and slots carry no meaning of their own.
Interchangeable == Permutations(Items) \cup Permutations(Calls)
=============================================================================
