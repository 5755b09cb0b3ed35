--------------------------- MODULE MCReleasePipeline ---------------------------
(* Two pushes onto a released commit, two prompts that can be edited, added *)
(* and removed, two versions: records, deployments and tags of two pushes   *)
(* race with each other.                                                    *)
EXTENDS ReleasePipeline, TLC

Symmetry == Permutations(Prompt) \cup Permutations(Hash)
================================================================================
