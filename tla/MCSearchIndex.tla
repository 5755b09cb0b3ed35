---------------------------- MODULE MCSearchIndex -----------------------------
(* Three searches over three documents, with more survivors than TOP_K and   *)
(* scores below, at and above the threshold.                               *)
EXTENDS SearchIndex, TLC

Symmetry == Permutations(Source)
===============================================================================
