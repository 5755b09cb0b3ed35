----------------------------- MODULE SessionStore -----------------------------
(***************************************************************************)
(* InMemorySessionStore (agent/memory/session.py) as its callers use it:   *)
(* a table with a clock, one action per method.  The service runs it on    *)
(* one event loop and no method awaits, so each call is one step.          *)
(***************************************************************************)
EXTENDS SessionEntries

CONSTANT MaxTime   \* bound on the clock, for TLC

ASSUME MaxTimeAssumption == MaxTime \in Nat

VARIABLES store,   \* self._store
          now,     \* time.time(), in ticks
          reply    \* what the last get returned

vars == <<store, now, reply>>

TypeOK ==
  /\ store \in Table
  /\ now \in 0..MaxTime
  /\ reply \in Context \cup {NoContext}

Init ==
  /\ store = EmptyTable
  /\ now = 0
  /\ reply = NoContext

get(s) ==
  /\ reply' = Found(store, s, now)
  /\ store' = AfterGet(store, s, now)
  /\ UNCHANGED now

set(s, c) ==
  /\ store' = AfterSet(store, s, c, now)
  /\ UNCHANGED <<now, reply>>

clear(s) ==
  /\ store' = AfterClear(store, s)
  /\ UNCHANGED <<now, reply>>

purge_expired ==
  /\ store' = AfterPurge(store, now)
  /\ UNCHANGED <<now, reply>>

Tick ==
  /\ now < MaxTime
  /\ now' = now + 1
  /\ UNCHANGED <<store, reply>>

Next ==
  \/ \E s \in SessionId : get(s) \/ clear(s) \/ \E c \in Context : set(s, c)
  \/ purge_expired
  \/ Tick

Spec == Init /\ [][Next]_vars

-------------------------------------------------------------------------------
(* The refinement mapping: what a session remembers is what get would find *)
(* now, so deleting an expired entry is a stuttering step.                 *)
Remembered == [s \in SessionId |-> Found(store, s, now)]

Idle == [s \in SessionId |-> IF Live(store, s, now) THEN now - store[s].last ELSE 0]

Memory == INSTANCE SessionMemory WITH memory <- Remembered, idle <- Idle

(* The store keeps the promise of SessionMemory: get answers with the last *)
(* exchange set for that session and nothing else, for as long as no gap   *)
(* between uses exceeds TTL, an exchange once forgotten does not return,   *)
(* and whether _purge_expired is ever called makes no difference.          *)
Refinement == Memory!Spec

(* No entry was used in the future, so idle time is never negative. *)
ClockOK == \A s \in SessionId : store[s] # NoEntry => store[s].last <= now

===============================================================================
