---------------------------- MODULE MCSourceIntake ----------------------------
(***************************************************************************)
(* A small instance of SourceIntake for TLC.                               *)
(***************************************************************************)
EXTENDS SourceIntake, TLC

CONSTANTS s1, s2, s3, c1, c2, k1, k2

\* Ids, contents and slots carry no meaning of their own.
Interchangeable == Permutations(Sources) \cup Permutations(Contents) \cup Permutations(Calls)
=============================================================================
