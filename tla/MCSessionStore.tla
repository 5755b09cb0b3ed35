---------------------------- MODULE MCSessionStore ----------------------------
(* SessionStore with two sessions and two exchanges: the smallest instance *)
(* in which one session could answer for another or for an older exchange. *)
EXTENDS SessionStore
===============================================================================
