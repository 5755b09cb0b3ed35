---------------------------- MODULE MCQueryService ----------------------------
(* QueryService on small sets.  Requests, sessions and replicas are        *)
(* interchangeable in it, so the safety runs reduce by their permutations. *)
EXTENDS QueryService, TLC

Symmetry ==
  Permutations(Request) \cup Permutations(SessionId) \cup Permutations(Replica)
===============================================================================
