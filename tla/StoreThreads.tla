----------------------------- MODULE StoreThreads -----------------------------
(***************************************************************************)
(* InMemorySessionStore (agent/memory/session.py) called from several      *)
(* threads.  The interpreter may switch threads after any call a method    *)
(* makes and at each turn of its loops, so the steps here are the          *)
(* stretches between those points.  Entries are shared objects: a thread   *)
(* that has looked one up keeps it, whatever becomes of the dict.          *)
(*                                                                         *)
(* The service itself makes these calls from one event loop, which is      *)
(* SessionStore; this is the claim the class makes for itself.             *)
(***************************************************************************)
EXTENDS Integers, Sequences, FiniteSets

CONSTANTS Thread, SessionId,
          Nothing,      \* marks a key the dict does not hold
          TTL,          \* ttl_seconds, in ticks
          MaxTime,      \* bound on the clock
          MaxEntries    \* bound on the entries ever built

VARIABLES store,    \* self._store: session -> the number of its entry
          last,     \* entry -> its last_accessed, in the order they were built
          now,      \* time.time()
          thread    \* thread -> where its call is and its local variables

vars == <<store, last, now, thread>>

Held == {s \in SessionId : store[s] # Nothing}

Idle == [pc |-> "idle"]

Init ==
  /\ store = [s \in SessionId |-> Nothing]
  /\ last = << >>
  /\ now = 0
  /\ thread = [t \in Thread |-> Idle]

At(t, pc) == thread[t].pc = pc

Goes(t, locals) == thread' = [thread EXCEPT ![t] = locals]

(* The lookup; a key that is absent changes nothing. *)
get(t, s) ==
  /\ At(t, "idle") /\ s \in Held
  /\ Goes(t, [pc |-> "found", session |-> s, entry |-> store[s]])
  /\ UNCHANGED <<store, last, now>>

(* Both readings of the clock, before the comparison and before the touch. *)
reads_clock(t, from, to) ==
  /\ At(t, from)
  /\ Goes(t, [pc |-> to, session |-> thread[t].session, entry |-> thread[t].entry,
              time |-> now])
  /\ UNCHANGED <<store, last, now>>

Raised(t) == [pc |-> "raised", from |-> thread[t].pc]

IsExpired(entry, time) == time - last[entry] > TTL

(* del self._store[...]: the entry there now goes, whichever it is; with   *)
(* none there the statement raises KeyError.                               *)
Deletes(t, s, then) ==
  /\ store' = [store EXCEPT ![s] = Nothing]
  /\ Goes(t, IF s \in Held THEN then ELSE Raised(t))

get_forgets(t) ==
  /\ At(t, "timed") /\ IsExpired(thread[t].entry, thread[t].time)
  /\ Deletes(t, thread[t].session, Idle)
  /\ UNCHANGED <<last, now>>

get_goes_on(t) ==
  /\ At(t, "timed") /\ ~IsExpired(thread[t].entry, thread[t].time)
  /\ Goes(t, [thread[t] EXCEPT !.pc = "live"])
  /\ UNCHANGED <<store, last, now>>

get_touches(t) ==
  /\ At(t, "touching")
  /\ last' = [last EXCEPT ![thread[t].entry] = thread[t].time]
  /\ Goes(t, Idle)
  /\ UNCHANGED <<store, now>>

(* SessionEntry(...) reads the clock before the dict is written. *)
set(t, s) ==
  /\ At(t, "idle") /\ Len(last) < MaxEntries
  /\ last' = Append(last, now)
  /\ Goes(t, [pc |-> "built", session |-> s, entry |-> Len(last) + 1])
  /\ UNCHANGED <<store, now>>

set_stores(t) ==
  /\ At(t, "built")
  /\ store' = [store EXCEPT ![thread[t].session] = thread[t].entry]
  /\ Goes(t, Idle)
  /\ UNCHANGED <<last, now>>

clear(t, s) ==
  /\ At(t, "idle")
  /\ store' = [store EXCEPT ![s] = Nothing]
  /\ UNCHANGED <<last, now, thread>>

Scanned(s, time) == IF IsExpired(store[s], time) THEN {s} ELSE {}

(* The clock and the first item of the comprehension; an empty dict has    *)
(* none and nothing follows.                                               *)
purge_expired(t) ==
  /\ At(t, "idle")
  /\ \E s \in Held :
       Goes(t, [pc |-> "scanning", time |-> now, size |-> Cardinality(Held),
                todo |-> Held \ {s}, expired |-> Scanned(s, now)])
  /\ UNCHANGED <<store, last, now>>

(* The next item: a dict whose size has changed since raises RuntimeError. *)
purge_scans(t) ==
  /\ At(t, "scanning")
  /\ LET todo == thread[t].todo \cap Held IN
     \/ /\ Cardinality(Held) # thread[t].size
        /\ Goes(t, Raised(t))
     \/ /\ Cardinality(Held) = thread[t].size
        /\ \E s \in todo :
             Goes(t, [thread[t] EXCEPT !.todo = todo \ {s},
                                       !.expired = @ \cup Scanned(s, thread[t].time)])
     \/ /\ Cardinality(Held) = thread[t].size /\ todo = {}
        /\ Goes(t, [pc |-> "deleting", expired |-> thread[t].expired])
  /\ UNCHANGED <<store, last, now>>

purge_deletes(t) ==
  /\ At(t, "deleting")
  /\ \/ \E s \in thread[t].expired :
          Deletes(t, s, [thread[t] EXCEPT !.expired = @ \ {s}])
     \/ thread[t].expired = {} /\ Goes(t, Idle) /\ UNCHANGED store
  /\ UNCHANGED <<last, now>>

Tick == now < MaxTime /\ now' = now + 1 /\ UNCHANGED <<store, last, thread>>

Next ==
  \/ \E t \in Thread :
       \/ \E s \in SessionId : get(t, s) \/ set(t, s) \/ clear(t, s)
       \/ reads_clock(t, "found", "timed") \/ reads_clock(t, "live", "touching")
       \/ get_forgets(t) \/ get_goes_on(t) \/ get_touches(t) \/ set_stores(t)
       \/ purge_expired(t) \/ purge_scans(t) \/ purge_deletes(t)
  \/ Tick

Spec == Init /\ [][Next]_vars

-------------------------------------------------------------------------------
(* "Thread-safe in-memory session store" (session.py:29): get, which      *)
(* cannot raise when it runs alone, does not because others run beside it. *)
GetReturns == \A t \in Thread : At(t, "raised") => thread[t].from # "timed"

===============================================================================
