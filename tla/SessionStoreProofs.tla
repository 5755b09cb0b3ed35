-------------------------- MODULE SessionStoreProofs --------------------------
(***************************************************************************)
(* Proofs about the session store, for every set of sessions and contexts, *)
(* every TTL and every clock bound.                                        *)
(***************************************************************************)
EXTENDS SessionStore, TLAPS

Inv == TypeOK /\ ClockOK

(* A live entry can be read back: get finds a context, and conversely a  *)
(* context found is that of the entry under the same key (get, l.37-50). *)
LEMMA FoundIffLive ==
  ASSUME NEW table \in Table, NEW s \in SessionId, NEW t \in Nat
  PROVE  /\ Found(table, s, t) # NoContext <=> Live(table, s, t)
         /\ Live(table, s, t) => Found(table, s, t) = table[s].context
BY NoContextAssumption, NoEntryAssumption DEF Found, Live, Table, Entry

(* Every method maps a table to a table. *)
LEMMA TablesClosed ==
  ASSUME NEW table \in Table, NEW s \in SessionId, NEW c \in Context, NEW t \in Nat
  PROVE  /\ AfterGet(table, s, t) \in Table
         /\ AfterSet(table, s, c, t) \in Table
         /\ AfterClear(table, s) \in Table
         /\ AfterPurge(table, t) \in Table
         /\ EmptyTable \in Table
         /\ Found(table, s, t) \in Context \cup {NoContext}
<1>1. Live(table, s, t) => table[s] \in Entry
  BY DEF Live, Table
<1>2. Live(table, s, t) => table[s].context \in Context
  BY <1>1 DEF Entry
<1>3. AfterGet(table, s, t) \in Table
  BY <1>2 DEF AfterGet, Table, Entry
<1>4. AfterSet(table, s, c, t) \in Table
  BY DEF AfterSet, Table, Entry
<1>5. AfterClear(table, s) \in Table
  BY DEF AfterClear, Table
<1>6. AfterPurge(table, t) \in Table
  BY DEF AfterPurge, Table
<1>7. EmptyTable \in Table
  BY DEF EmptyTable, Table
<1>8. Found(table, s, t) \in Context \cup {NoContext}
  BY <1>2 DEF Found
<1>. QED BY <1>3, <1>4, <1>5, <1>6, <1>7, <1>8

LEMMA InitInv == Init => Inv
BY MaxTimeAssumption DEF Init, Inv, TypeOK, ClockOK, EmptyTable, Table

LEMMA NextInv == Inv /\ [Next]_vars => Inv'
<1>. SUFFICES ASSUME Inv, [Next]_vars PROVE Inv'
  OBVIOUS
<1>. USE MaxTimeAssumption DEF Inv
<1>0. now \in Nat /\ store \in Table
  BY DEF TypeOK
<1>1. ASSUME NEW s \in SessionId, get(s) PROVE Inv'
  <2>1. TypeOK'
    <3>1. store' \in Table
      <4>1. Live(store, s, now) => store[s].context \in Context
        BY <1>0 DEF Live, Table, Entry
      <4>. QED BY <1>0, <1>1, <4>1 DEF get, AfterGet, Table, Entry
    <3>2. reply' \in Context \cup {NoContext}
      BY <1>0, <1>1 DEF get, Found, Live, Table, Entry
    <3>. QED BY <1>1, <3>1, <3>2 DEF get, TypeOK
  <2>2. ClockOK'
    BY <1>0, <1>1 DEF get, AfterGet, ClockOK, Table
  <2>. QED BY <2>1, <2>2
<1>2. ASSUME NEW s \in SessionId, NEW c \in Context, set(s, c) PROVE Inv'
  <2>1. TypeOK'
    BY <1>0, <1>2, TablesClosed DEF set, TypeOK
  <2>2. ClockOK'
    BY <1>0, <1>2 DEF set, AfterSet, ClockOK, Table
  <2>. QED BY <2>1, <2>2
<1>3. ASSUME NEW s \in SessionId, clear(s) PROVE Inv'
  BY <1>0, <1>3 DEF clear, AfterClear, TypeOK, ClockOK, Table
<1>4. ASSUME purge_expired PROVE Inv'
  BY <1>0, <1>4 DEF purge_expired, AfterPurge, TypeOK, ClockOK, Table
<1>5. ASSUME Tick PROVE Inv'
  <2>1. ClockOK'
    <3>. SUFFICES ASSUME NEW s \in SessionId, store[s] # NoEntry
                  PROVE  store[s].last <= now + 1
      BY <1>5 DEF Tick, ClockOK
    <3>1. store[s].last \in Nat /\ store[s].last <= now
      BY <1>0 DEF ClockOK, Table, Entry
    <3>. QED BY <1>0, <3>1
  <2>. QED BY <1>5, <2>1 DEF Tick, TypeOK
<1>6. CASE UNCHANGED vars
  BY <1>6 DEF vars, TypeOK, ClockOK
<1>. QED BY <1>1, <1>2, <1>3, <1>4, <1>5, <1>6 DEF Next

(* The type invariant of SessionStore. *)
THEOREM TypeCorrect == Spec => []TypeOK
<1>1. Inv => TypeOK
  BY DEF Inv
<1>. QED BY InitInv, NextInv, <1>1, PTL DEF Spec

-------------------------------------------------------------------------------
(* How each method acts on what is remembered and for how long it has been *)
(* idle: the step-by-step content of the refinement.                       *)

LEMMA GetRefines ==
  ASSUME Inv, NEW s \in SessionId, get(s)
  PROVE  Memory!Recall(s)
<1>0. now \in Nat /\ store \in Table /\ now' = now
  BY MaxTimeAssumption DEF Inv, TypeOK, get
<1>1. reply' = Remembered[s]
  BY DEF get, Remembered
<1>2. ASSUME NEW x \in SessionId
      PROVE  /\ Found(store', x, now') = Found(store, x, now)
             /\ Idle'[x] = IF x = s THEN 0 ELSE Idle[x]
  <2>1. CASE x = s
    <3>1. store'[s] = IF Live(store, s, now)
                      THEN [context |-> store[s].context, last |-> now] ELSE NoEntry
      BY <1>0 DEF get, AfterGet, Table
    <3>2. CASE Live(store, s, now)
      <4>1. [context |-> store[s].context, last |-> now] \in Entry
        BY <3>2, <1>0 DEF Live, Table, Entry
      <4>2. Live(store', s, now')
        BY <3>1, <3>2, <4>1, <1>0, NoEntryAssumption, TTLAssumption DEF Live, Expired
      <4>. QED BY <2>1, <3>1, <3>2, <4>2, <1>0 DEF Found, Idle
    <3>3. CASE ~Live(store, s, now)
      BY <2>1, <3>1, <3>3 DEF Live, Found, Idle
    <3>. QED BY <3>2, <3>3
  <2>2. CASE x # s
    <3>1. store'[x] = store[x]
      BY <2>2, <1>0 DEF get, AfterGet, Table
    <3>. QED BY <2>2, <3>1, <1>0 DEF Found, Live, Idle
  <2>. QED BY <2>1, <2>2
<1>3. Remembered' = Remembered
  BY <1>2 DEF Remembered
<1>4. Idle' = [Idle EXCEPT ![s] = 0]
  BY <1>2 DEF Idle
<1>. QED BY <1>1, <1>3, <1>4 DEF Memory!Recall

LEMMA SetRefines ==
  ASSUME Inv, NEW s \in SessionId, NEW c \in Context, set(s, c)
  PROVE  Memory!Remember(s, c)
<1>0. now \in Nat /\ store \in Table /\ now' = now
  BY MaxTimeAssumption DEF Inv, TypeOK, set
<1>1. store' = [store EXCEPT ![s] = [context |-> c, last |-> now]] /\ UNCHANGED reply
  BY DEF set, AfterSet
<1>2. ASSUME NEW x \in SessionId
      PROVE  /\ Found(store', x, now') = IF x = s THEN c ELSE Found(store, x, now)
             /\ Idle'[x] = IF x = s THEN 0 ELSE Idle[x]
  <2>1. CASE x = s
    <3>1. store'[s] = [context |-> c, last |-> now] /\ store'[s] \in Entry
      BY <1>0, <1>1 DEF Table, Entry
    <3>2. Live(store', s, now')
      BY <3>1, <1>0, NoEntryAssumption, TTLAssumption DEF Live, Expired
    <3>. QED BY <2>1, <3>1, <3>2, <1>0 DEF Found, Idle
  <2>2. CASE x # s
    <3>1. store'[x] = store[x]
      BY <2>2, <1>0, <1>1 DEF Table
    <3>. QED BY <2>2, <3>1, <1>0 DEF Found, Live, Idle
  <2>. QED BY <2>1, <2>2
<1>3. Remembered' = [Remembered EXCEPT ![s] = c]
  BY <1>2 DEF Remembered
<1>4. Idle' = [Idle EXCEPT ![s] = 0]
  BY <1>2 DEF Idle
<1>. QED BY <1>1, <1>3, <1>4 DEF Memory!Remember

LEMMA ClearRefines ==
  ASSUME Inv, NEW s \in SessionId, clear(s)
  PROVE  Memory!Forget(s)
<1>0. now \in Nat /\ store \in Table /\ now' = now
  BY MaxTimeAssumption DEF Inv, TypeOK, clear
<1>1. store' = [store EXCEPT ![s] = NoEntry] /\ UNCHANGED reply
  BY DEF clear, AfterClear
<1>2. ASSUME NEW x \in SessionId
      PROVE  /\ Found(store', x, now') = IF x = s THEN NoContext ELSE Found(store, x, now)
             /\ Idle'[x] = IF x = s THEN 0 ELSE Idle[x]
  BY <1>0, <1>1 DEF Table, Found, Live, Idle
<1>3. Remembered' = [Remembered EXCEPT ![s] = NoContext]
  BY <1>2 DEF Remembered
<1>4. Idle' = [Idle EXCEPT ![s] = 0]
  BY <1>2 DEF Idle
<1>. QED BY <1>1, <1>3, <1>4 DEF Memory!Forget

(* Purging cannot be observed: it only drops what get would not return. *)
LEMMA PurgeRefines ==
  ASSUME Inv, purge_expired
  PROVE  UNCHANGED Memory!vars
<1>0. now \in Nat /\ store \in Table /\ now' = now /\ reply' = reply
  BY MaxTimeAssumption DEF Inv, TypeOK, purge_expired
<1>1. ASSUME NEW x \in SessionId
      PROVE  /\ Found(store', x, now') = Found(store, x, now)
             /\ Idle'[x] = Idle[x]
  <2>1. store'[x] = IF Live(store, x, now) THEN store[x] ELSE NoEntry
    BY DEF purge_expired, AfterPurge
  <2>. QED BY <1>0, <2>1 DEF Found, Live, Idle
<1>2. Remembered' = Remembered
  BY <1>1 DEF Remembered
<1>3. Idle' = Idle
  BY <1>1 DEF Idle
<1>. QED BY <1>0, <1>2, <1>3 DEF Memory!vars

LEMMA TickRefines ==
  ASSUME Inv, Tick
  PROVE  Memory!Age
<1>0. now \in Nat /\ store \in Table /\ now' = now + 1 /\ store' = store /\ reply' = reply
  BY MaxTimeAssumption DEF Inv, TypeOK, Tick
<1>1. ASSUME NEW x \in SessionId
      PROVE  LET kept == Remembered[x] # NoContext /\ Idle[x] < TTL
             IN /\ Found(store', x, now') = IF kept THEN Remembered[x] ELSE NoContext
                /\ Idle'[x] = IF kept THEN Idle[x] + 1 ELSE 0
  <2>1. Remembered[x] # NoContext <=> Live(store, x, now)
    BY <1>0, FoundIffLive DEF Remembered
  <2>2. CASE Live(store, x, now)
    <3>1. /\ store[x].last \in Nat
          /\ store[x] # NoEntry
          /\ Idle[x] = now - store[x].last
          /\ Idle[x] >= 0
          /\ Remembered[x] = store[x].context
      BY <2>2, <1>0 DEF Inv, ClockOK, Live, Table, Entry, Idle, Remembered, Found
    <3>2. Live(store', x, now') <=> Idle[x] < TTL
      BY <3>1, <1>0, TTLAssumption DEF Live, Expired
    <3>. QED BY <2>1, <2>2, <3>1, <3>2, <1>0 DEF Found, Idle
  <2>3. CASE ~Live(store, x, now)
    <3>1. ~Live(store', x, now')
      BY <2>3, <1>0, TTLAssumption DEF Live, Expired, Table, Entry
    <3>. QED BY <2>1, <2>3, <3>1 DEF Found, Idle
  <2>. QED BY <2>2, <2>3
<1>2. Remembered' = [x \in SessionId |->
                       IF Remembered[x] # NoContext /\ Idle[x] < TTL
                       THEN Remembered[x] ELSE NoContext]
  BY <1>1 DEF Remembered
<1>3. Idle' = [x \in SessionId |->
                 IF Remembered[x] # NoContext /\ Idle[x] < TTL THEN Idle[x] + 1 ELSE 0]
  BY <1>1 DEF Idle
<1>. QED BY <1>0, <1>2, <1>3 DEF Memory!Age

(* InMemorySessionStore implements SessionMemory: every behaviour of its   *)
(* get, set, clear and _purge_expired over a clock is one of a register    *)
(* per session that forgets after TTL ticks without use.                   *)
THEOREM StoreImplementsMemory == Spec => Refinement
<1>1. Init => Memory!Init
  BY DEF Init, EmptyTable, Memory!Init, Remembered, Idle, Found, Live
<1>2. Inv /\ [Next]_vars => [Memory!Next]_(Memory!vars)
  <2>. SUFFICES ASSUME Inv, [Next]_vars PROVE [Memory!Next]_(Memory!vars)
    OBVIOUS
  <2>1. ASSUME NEW s \in SessionId, get(s) PROVE Memory!Next
    BY <2>1, GetRefines DEF Memory!Next
  <2>2. ASSUME NEW s \in SessionId, NEW c \in Context, set(s, c) PROVE Memory!Next
    BY <2>2, SetRefines DEF Memory!Next
  <2>3. ASSUME NEW s \in SessionId, clear(s) PROVE Memory!Next
    BY <2>3, ClearRefines DEF Memory!Next
  <2>4. ASSUME Tick PROVE Memory!Next
    BY <2>4, TickRefines DEF Memory!Next
  <2>5. ASSUME UNCHANGED vars PROVE UNCHANGED Memory!vars
    BY <2>5 DEF vars, Memory!vars, Remembered, Idle, Found, Live
  <2>. QED BY <2>1, <2>2, <2>3, <2>4, <2>5, PurgeRefines DEF Next
<1>. QED BY <1>1, <1>2, InitInv, NextInv, PTL DEF Spec, Refinement, Memory!Spec

===============================================================================
