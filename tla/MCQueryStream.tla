---------------------------- MODULE MCQueryStream -----------------------------
(* One request whose synthesizer may stream up to MaxText text tokens. *)
EXTENDS QueryStream
===============================================================================
