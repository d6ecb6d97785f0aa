------------------------------ MODULE MCChunking ------------------------------
(***************************************************************************)
(* Settings within the limits of config.py (a chunk of 128 tokens or more, *)
(* an overlap of up to 1024), in units of 32 tokens, and a paragraph of    *)
(* three chunks.                                                           *)
(***************************************************************************)
EXTENDS Chunking

Overlaps == {[budget |-> 4, overlap |-> o] : o \in {0, 1, 4, 5}}
OneParagraph == {<<<<n>>>> : n \in 1 .. 12}
=============================================================================
