---------------------------- MODULE SessionEntries ----------------------------
(***************************************************************************)
(* The dict behind InMemorySessionStore (agent/memory/session.py), as a    *)
(* total function from session id to entry or NoEntry, with one pure       *)
(* operator per method.  `table' is self._store and `t' the reading of     *)
(* time.time() the method makes, in whole ticks.                           *)
(*                                                                         *)
(* SessionEntry's session_id repeats the key and its created_at is never   *)
(* read, so an entry keeps the remembered exchange and last_accessed only. *)
(***************************************************************************)
EXTENDS Integers

CONSTANTS SessionId,   \* the keys of the dict
          Context,     \* the (query, answer, chunks) triples that can be stored
          NoContext,   \* None, as returned by get
          NoEntry,     \* marks a key the dict does not hold
          TTL          \* ttl_seconds, in ticks

Entry == [context : Context, last : Nat]

ASSUME TTLAssumption == TTL \in Nat
ASSUME NoContextAssumption == NoContext \notin Context
ASSUME NoEntryAssumption == NoEntry \notin Entry

Table == [SessionId -> Entry \cup {NoEntry}]

EmptyTable == [s \in SessionId |-> NoEntry]

(* Mutant: an entry expires when it has been idle for exactly TTL. *)
ExpiredAtTTL(e, t) == t - e.last >= TTL

(* The strict comparison: an entry idle for exactly TTL still counts. *)
Expired(e, t) == t - e.last > TTL

Live(table, s, t) == table[s] # NoEntry /\ ~Expired(table[s], t)

(* Mutant: get hands out the entry instead of its fields. *)
FoundEntry(table, s, t) == IF Live(table, s, t) THEN table[s] ELSE NoContext

(* What get returns: the three fields of a live entry, else None. *)
Found(table, s, t) == IF Live(table, s, t) THEN table[s].context ELSE NoContext

(* Mutant: get does not renew last_accessed. *)
AfterGetUntouched(table, s, t) ==
  [table EXCEPT ![s] = IF Live(table, s, t) THEN @ ELSE NoEntry]

(* What get does to the dict: a live entry is touched, an expired one is *)
(* deleted, an absent one stays absent.                                  *)
AfterGet(table, s, t) ==
  [table EXCEPT ![s] = IF Live(table, s, t)
                       THEN [context |-> table[s].context, last |-> t]
                       ELSE NoEntry]

(* set always stores a new SessionEntry, whatever was there. *)
AfterSet(table, s, c, t) == [table EXCEPT ![s] = [context |-> c, last |-> t]]

AfterClear(table, s) == [table EXCEPT ![s] = NoEntry]

AfterPurge(table, t) ==
  [s \in SessionId |-> IF Live(table, s, t) THEN table[s] ELSE NoEntry]

===============================================================================
