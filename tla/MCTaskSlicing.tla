--------------------------- MODULE MCTaskSlicing ---------------------------
(* Small instances of TaskSlicing.                                           *)
EXTENDS TaskSlicing

\* Words an out-of-bounds read may find: zero, a small one, the largest.
MCGarbage == {0, 2, Word - 1}
============================================================================
