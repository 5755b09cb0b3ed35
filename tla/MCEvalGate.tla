------------------------------ MODULE MCEvalGate ------------------------------
(* Two overlapping runs of three questions, one of which is to be refused. *)
EXTENDS EvalGate, TLC

CONSTANTS q1, q2, q3

Symmetry == Permutations(Run) \cup Permutations({q1, q2})
===============================================================================
