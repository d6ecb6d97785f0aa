---------------------------- MODULE MCEmbeddingSets ----------------------------
(***************************************************************************)
(* A small instance of EmbeddingSets for TLC.                              *)
(***************************************************************************)
EXTENDS EmbeddingSets, TLC

CONSTANTS e1, e2, e3, m1, m2, i1, o1

\* The ids of sets carry no meaning of their own.
Interchangeable == Permutations(Sets)
=============================================================================
