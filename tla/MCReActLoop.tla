---------------------------- MODULE MCReActLoop ----------------------------
(* ReActLoop for TLC: non-empty texts are interchangeable.                 *)
EXTENDS ReActLoop, TLC

Interchangeable == Permutations(Text \ {EmptyText})
=============================================================================
