---------------------------- MODULE MCStoreThreads ----------------------------
(* Two threads, the store's methods step by step. *)
EXTENDS StoreThreads
===============================================================================
