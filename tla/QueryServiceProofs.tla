-------------------------- MODULE QueryServiceProofs --------------------------
(***************************************************************************)
(* Proofs about the query service, for any number of requests, sessions    *)
(* and replicas, any TTL and any bounds on the clock and on restarts.      *)
(***************************************************************************)
EXTENDS QueryService, TLAPS

(* Every entry of every store was put there by a request that was answered *)
(* and saved, on that replica and under that session id.                   *)
EntriesWereSaved ==
  \A p \in Replica, s \in SessionId :
    stores[p][s] # NoEntry =>
      /\ phase[stores[p][s].context] = "saved"
      /\ session[stores[p][s].context] = s
      /\ home[stores[p][s].context] = p

(* A request that was accepted has a session and a replica; one that was   *)
(* not has no context and no minted id.                                    *)
AcceptedAreServed ==
  \A r \in Request :
    IF phase[r] = "idle"
    THEN seen[r] = NoContext /\ r \notin minted
    ELSE session[r] \in SessionId /\ home[r] \in Replica

Inv ==
  /\ TypeOK
  /\ EntriesWereSaved
  /\ AcceptedAreServed
  /\ ContextComesFromOwnSession
  /\ NewSessionIsBlank

-------------------------------------------------------------------------------
(* What get finds is the context of an entry of the table. *)
LEMMA FoundIsStored ==
  ASSUME NEW table \in Table, NEW s \in SessionId, NEW t \in Nat
  PROVE  /\ Found(table, s, t) \in Request \cup {NoContext}
         /\ Found(table, s, t) # NoContext =>
              /\ table[s] # NoEntry
              /\ Found(table, s, t) = table[s].context
BY StoreAssumption DEF Found, Live, Table, Entry

(* get leaves every other key alone, and its own either keeps its context  *)
(* or is deleted.                                                          *)
LEMMA GetKeepsContexts ==
  ASSUME NEW table \in Table, NEW s \in SessionId, NEW t \in Nat
  PROVE  /\ AfterGet(table, s, t) \in Table
         /\ \A x \in SessionId :
              AfterGet(table, s, t)[x] # NoEntry =>
                /\ table[x] # NoEntry
                /\ AfterGet(table, s, t)[x].context = table[x].context
<1>1. AfterGet(table, s, t) \in Table
  <2>1. Live(table, s, t) => table[s].context \in Request
    BY DEF Live, Table, Entry
  <2>. QED BY <2>1 DEF AfterGet, Table, Entry
<1>2. ASSUME NEW x \in SessionId, AfterGet(table, s, t)[x] # NoEntry
      PROVE  /\ table[x] # NoEntry
             /\ AfterGet(table, s, t)[x].context = table[x].context
  BY <1>2 DEF AfterGet, Live, Table
<1>. QED BY <1>1, <1>2

LEMMA SetStores ==
  ASSUME NEW table \in Table, NEW s \in SessionId, NEW r \in Request, NEW t \in Nat
  PROVE  /\ AfterSet(table, s, r, t) \in Table
         /\ AfterSet(table, s, r, t)[s].context = r
         /\ \A x \in SessionId \ {s} : AfterSet(table, s, r, t)[x] = table[x]
BY DEF AfterSet, Table, Entry

LEMMA NothingIsStoredFirst ==
  EmptyTable \in Table /\ \A s \in SessionId : EmptyTable[s] = NoEntry
BY DEF EmptyTable, Table

LEMMA InitInv == Init => Inv
BY NothingIsStoredFirst, BoundsAssumption
   DEF Init, Inv, TypeOK, EntriesWereSaved, AcceptedAreServed,
       ContextComesFromOwnSession, NewSessionIsBlank, Phases

-------------------------------------------------------------------------------
LEMMA QueryTypes ==
  ASSUME Inv, NEW r \in Request, NEW s \in SessionId, NEW p \in Replica,
         query(r, s, p), minted' \in SUBSET Request
  PROVE  TypeOK'
<1>0. now \in Nat /\ stores[p] \in Table
  BY BoundsAssumption DEF Inv, TypeOK
<1>1. stores' \in [Replica -> Table]
  BY <1>0, GetKeepsContexts DEF Inv, TypeOK, query
<1>2. seen' \in [Request -> Request \cup {NoContext}]
  BY <1>0, FoundIsStored DEF Inv, TypeOK, query
<1>3. log' \in Seq(Access \cup Reboot)
  <2>1. [op |-> "get", request |-> r, session |-> s, replica |-> p, time |-> now] \in Access
    BY <1>0 DEF Access
  <2>2. log \in Seq(Access \cup Reboot)
    BY DEF Inv, TypeOK
  <2>. QED BY <2>1, <2>2 DEF query, Logged
<1>4. phase' \in [Request -> Phases]
  BY DEF Inv, TypeOK, query, Phases, Running
<1>. QED BY <1>1, <1>2, <1>3, <1>4 DEF Inv, TypeOK, query

(* Accepting a request: the heart of the matter.  What it reads was saved  *)
(* under its own session, and under a freshly minted id nothing was.       *)
LEMMA QueryInv ==
  ASSUME Inv, NEW r \in Request, NEW s \in SessionId, NEW p \in Replica,
         query_with_id(r, s, p) \/ query_without_id(r, s, p)
  PROVE  Inv'
<1>0. query(r, s, p) /\ now \in Nat /\ stores[p] \in Table
  BY BoundsAssumption DEF Inv, TypeOK, query_with_id, query_without_id
<1>. DEFINE q == Found(stores[p], s, now)
<1>1. minted' \in SUBSET Request /\ (minted' = minted \/ (minted' = minted \cup {r} /\ Fresh(s)))
  BY DEF Inv, TypeOK, query_with_id, query_without_id
<1>2. TypeOK'
  BY <1>0, <1>1, QueryTypes
<1>3. /\ phase[r] = "idle" /\ phase' = [phase EXCEPT ![r] = "streaming"]
      /\ session' = [session EXCEPT ![r] = s]
      /\ home' = [home EXCEPT ![r] = p]
      /\ seen' = [seen EXCEPT ![r] = q]
      /\ stores' = [stores EXCEPT ![p] = AfterGet(stores[p], s, now)]
  BY <1>0 DEF query
<1>4. q # NoContext => /\ q \in Request \ {r}
                       /\ phase[q] = "saved" /\ session[q] = s /\ home[q] = p
  <2>. SUFFICES ASSUME q # NoContext
                PROVE  q \in Request \ {r} /\ phase[q] = "saved" /\ session[q] = s /\ home[q] = p
    OBVIOUS
  <2>1. stores[p][s] # NoEntry /\ q = stores[p][s].context /\ q \in Request
    BY <1>0, FoundIsStored
  <2>2. phase[q] = "saved" /\ session[q] = s /\ home[q] = p
    BY <2>1 DEF Inv, EntriesWereSaved
  <2>. QED BY <1>3, <2>1, <2>2
<1>5. EntriesWereSaved'
  <2>. SUFFICES ASSUME NEW x \in Replica, NEW y \in SessionId, stores'[x][y] # NoEntry
                PROVE  /\ phase'[stores'[x][y].context] = "saved"
                       /\ session'[stores'[x][y].context] = y
                       /\ home'[stores'[x][y].context] = x
    BY DEF EntriesWereSaved
  <2>1. stores[x][y] # NoEntry /\ stores'[x][y].context = stores[x][y].context
    BY <1>0, <1>3, GetKeepsContexts DEF Inv, TypeOK
  <2>2. /\ phase[stores[x][y].context] = "saved"
        /\ session[stores[x][y].context] = y
        /\ home[stores[x][y].context] = x
    BY <2>1 DEF Inv, EntriesWereSaved
  <2>3. stores[x][y].context \in Request
    BY <2>1 DEF Inv, TypeOK, Table, Entry
  <2>4. stores[x][y].context # r
    BY <1>3, <2>2
  <2>. QED BY <1>3, <2>1, <2>2, <2>3, <2>4 DEF Inv, TypeOK
<1>6. AcceptedAreServed'
  <2>. SUFFICES ASSUME NEW x \in Request
                PROVE  IF phase'[x] = "idle"
                       THEN seen'[x] = NoContext /\ x \notin minted'
                       ELSE session'[x] \in SessionId /\ home'[x] \in Replica
    BY DEF AcceptedAreServed
  <2>1. CASE x = r
    BY <1>3, <2>1 DEF Inv, TypeOK
  <2>2. CASE x # r
    BY <1>1, <1>3, <2>2 DEF Inv, TypeOK, AcceptedAreServed
  <2>. QED BY <2>1, <2>2
<1>7. ContextComesFromOwnSession'
  <2>. SUFFICES ASSUME NEW x \in Request, seen'[x] # NoContext
                PROVE  /\ phase'[seen'[x]] = "saved"
                       /\ session'[seen'[x]] = session'[x]
                       /\ home'[seen'[x]] = home'[x]
                       /\ seen'[x] # x
    BY DEF ContextComesFromOwnSession
  <2>1. CASE x = r
    BY <1>3, <1>4, <2>1 DEF Inv, TypeOK
  <2>2. CASE x # r
    <3>1. /\ seen'[x] = seen[x] /\ session'[x] = session[x] /\ home'[x] = home[x]
          /\ seen[x] \in Request
      BY <1>3, <2>2 DEF Inv, TypeOK
    <3>2. /\ phase[seen[x]] = "saved" /\ session[seen[x]] = session[x]
          /\ home[seen[x]] = home[x] /\ seen[x] # x
      BY <3>1 DEF Inv, ContextComesFromOwnSession
    <3>3. seen[x] # r
      BY <1>3, <3>2
    <3>. QED BY <1>3, <3>1, <3>2, <3>3 DEF Inv, TypeOK
  <2>. QED BY <2>1, <2>2
<1>8. NewSessionIsBlank'
  <2>. SUFFICES ASSUME NEW x \in minted' PROVE seen'[x] = NoContext
    BY DEF NewSessionIsBlank
  <2>1. CASE x = r
    <3>1. r \notin minted
      BY <1>3 DEF Inv, AcceptedAreServed
    <3>2. Fresh(s)
      BY <1>1, <2>1, <3>1
    <3>3. q = NoContext
      BY <1>4, <3>2 DEF Fresh, Accepted
    <3>. QED BY <1>3, <2>1, <3>3 DEF Inv, TypeOK
  <2>2. CASE x # r
    BY <1>1, <1>3, <2>2 DEF Inv, TypeOK, NewSessionIsBlank
  <2>. QED BY <2>1, <2>2
<1>. QED BY <1>2, <1>5, <1>6, <1>7, <1>8 DEF Inv

-------------------------------------------------------------------------------
(* Steps that move one running request without touching a store. *)
LEMMA PhaseStepInv ==
  ASSUME Inv, NEW r \in Request, NEW f \in Phases \ {"idle"},
         phase[r] \in Running,
         phase' = [phase EXCEPT ![r] = f],
         UNCHANGED <<stores, now, session, home, seen, minted, restarts, log>>
  PROVE  Inv'
<1>1. TypeOK'
  BY DEF Inv, TypeOK
<1>2. \A x \in Request : (phase[x] = "idle" <=> phase'[x] = "idle")
                         /\ (phase[x] = "saved" => phase'[x] = "saved")
  BY DEF Inv, TypeOK, Running
<1>3. EntriesWereSaved'
  <2>1. \A p \in Replica, s \in SessionId :
          stores[p][s] # NoEntry => stores[p][s].context \in Request
    BY DEF Inv, TypeOK, Table, Entry
  <2>. QED BY <1>2, <2>1 DEF Inv, EntriesWereSaved
<1>4. AcceptedAreServed'
  BY <1>2 DEF Inv, AcceptedAreServed
<1>5. ContextComesFromOwnSession'
  BY <1>2 DEF Inv, TypeOK, ContextComesFromOwnSession
<1>6. NewSessionIsBlank'
  BY DEF Inv, NewSessionIsBlank
<1>. QED BY <1>1, <1>3, <1>4, <1>5, <1>6 DEF Inv

LEMMA SaveInv ==
  ASSUME Inv, NEW r \in Request, save(r)
  PROVE  Inv'
<1>. DEFINE p == home[r]
            s == session[r]
<1>0. /\ phase[r] = "answered" /\ p \in Replica /\ s \in SessionId
      /\ now \in Nat /\ stores[p] \in Table
  BY BoundsAssumption DEF Inv, TypeOK, AcceptedAreServed, save
<1>1. /\ phase' = [phase EXCEPT ![r] = "saved"]
      /\ stores' = [stores EXCEPT ![p] = AfterSet(stores[p], s, r, now)]
      /\ session' = session /\ home' = home /\ seen' = seen /\ minted' = minted
  BY DEF save
<1>2. TypeOK'
  <2>1. stores' \in [Replica -> Table]
    BY <1>0, <1>1, SetStores DEF Inv, TypeOK
  <2>2. log' \in Seq(Access \cup Reboot)
    <3>1. [op |-> "set", request |-> r, session |-> s, replica |-> p, time |-> now] \in Access
      BY <1>0 DEF Access
    <3>2. log \in Seq(Access \cup Reboot)
      BY DEF Inv, TypeOK
    <3>. QED BY <3>1, <3>2 DEF save, Logged
  <2>3. phase' \in [Request -> Phases]
    BY <1>1 DEF Inv, TypeOK, Phases, Running
  <2>. QED BY <2>1, <2>2, <2>3 DEF Inv, TypeOK, save
<1>3. \A x \in Request : (phase[x] = "idle" <=> phase'[x] = "idle")
                         /\ (phase[x] = "saved" => phase'[x] = "saved")
  BY <1>0, <1>1 DEF Inv, TypeOK
<1>4. EntriesWereSaved'
  <2>. SUFFICES ASSUME NEW x \in Replica, NEW y \in SessionId, stores'[x][y] # NoEntry
                PROVE  /\ phase'[stores'[x][y].context] = "saved"
                       /\ session[stores'[x][y].context] = y
                       /\ home[stores'[x][y].context] = x
    BY <1>1 DEF EntriesWereSaved
  <2>1. CASE x = p /\ y = s
    <3>1. stores'[x][y].context = r
      BY <1>0, <1>1, <2>1, SetStores DEF Inv, TypeOK
    <3>. QED BY <1>1, <2>1, <3>1 DEF Inv, TypeOK
  <2>2. CASE ~(x = p /\ y = s)
    <3>1. stores'[x][y] = stores[x][y]
      BY <1>0, <1>1, <2>2, SetStores DEF Inv, TypeOK
    <3>2. stores[x][y].context \in Request
      BY <3>1 DEF Inv, TypeOK, Table, Entry
    <3>. QED BY <1>3, <3>1, <3>2 DEF Inv, EntriesWereSaved
  <2>. QED BY <2>1, <2>2
<1>5. AcceptedAreServed'
  BY <1>1, <1>3 DEF Inv, AcceptedAreServed
<1>6. ContextComesFromOwnSession'
  BY <1>1, <1>3 DEF Inv, TypeOK, ContextComesFromOwnSession
<1>7. NewSessionIsBlank'
  BY <1>1 DEF Inv, NewSessionIsBlank
<1>. QED BY <1>2, <1>4, <1>5, <1>6, <1>7 DEF Inv

LEMMA RestartInv ==
  ASSUME Inv, NEW p \in Replica, restart(p)
  PROVE  Inv'
<1>1. /\ stores' = [stores EXCEPT ![p] = EmptyTable]
      /\ session' = session /\ home' = home /\ seen' = seen /\ minted' = minted
  BY DEF restart
<1>2. TypeOK'
  <2>1. stores' \in [Replica -> Table]
    BY <1>1, NothingIsStoredFirst DEF Inv, TypeOK
  <2>2. phase' \in [Request -> Phases]
    BY DEF Inv, TypeOK, restart, Phases
  <2>3. log' \in Seq(Access \cup Reboot)
    <3>1. [op |-> "restart", replica |-> p] \in Reboot
      BY DEF Reboot
    <3>2. log \in Seq(Access \cup Reboot)
      BY DEF Inv, TypeOK
    <3>. QED BY <3>1, <3>2 DEF restart
  <2>4. restarts' \in 0..MaxRestarts
    BY BoundsAssumption DEF Inv, TypeOK, restart
  <2>. QED BY <2>1, <2>2, <2>3, <2>4 DEF Inv, TypeOK, restart
<1>3. \A x \in Request : (phase[x] = "idle" <=> phase'[x] = "idle")
                         /\ (phase[x] = "saved" => phase'[x] = "saved")
  BY DEF Inv, TypeOK, restart, Running
<1>4. EntriesWereSaved'
  <2>. SUFFICES ASSUME NEW x \in Replica, NEW y \in SessionId, stores'[x][y] # NoEntry
                PROVE  /\ phase'[stores'[x][y].context] = "saved"
                       /\ session[stores'[x][y].context] = y
                       /\ home[stores'[x][y].context] = x
    BY <1>1 DEF EntriesWereSaved
  <2>1. stores'[x][y] = stores[x][y]
    BY <1>1, NothingIsStoredFirst DEF Inv, TypeOK
  <2>2. stores[x][y].context \in Request
    BY <2>1 DEF Inv, TypeOK, Table, Entry
  <2>. QED BY <1>3, <2>1, <2>2 DEF Inv, EntriesWereSaved
<1>5. AcceptedAreServed'
  BY <1>1, <1>3 DEF Inv, AcceptedAreServed
<1>6. ContextComesFromOwnSession'
  BY <1>1, <1>3 DEF Inv, TypeOK, ContextComesFromOwnSession
<1>7. NewSessionIsBlank'
  BY <1>1 DEF Inv, NewSessionIsBlank
<1>. QED BY <1>2, <1>4, <1>5, <1>6, <1>7 DEF Inv

LEMMA NextInv == Inv /\ [Next]_vars => Inv'
<1>. SUFFICES ASSUME Inv, [Next]_vars PROVE Inv'
  OBVIOUS
<1>1. ASSUME NEW r \in Request, NEW s \in SessionId, NEW p \in Replica,
             query_with_id(r, s, p) \/ query_without_id(r, s, p)
      PROVE  Inv'
  BY <1>1, QueryInv
<1>2. ASSUME NEW r \in Request, Progress(r) \/ disconnect(r) PROVE Inv'
  <2>1. "answered" \in Phases \ {"idle"} /\ "failed" \in Phases \ {"idle"}
        /\ "cut" \in Phases \ {"idle"} /\ "streaming" \in Running
    BY DEF Phases, Running
  <2>2. CASE send_done(r)
    BY <2>1, <2>2, PhaseStepInv DEF send_done
  <2>3. CASE send_error(r)
    BY <2>1, <2>3, PhaseStepInv DEF send_error
  <2>4. CASE disconnect(r)
    BY <2>1, <2>4, PhaseStepInv DEF disconnect
  <2>. QED BY <1>2, <2>2, <2>3, <2>4 DEF Progress
<1>3. ASSUME NEW r \in Request, save(r) PROVE Inv'
  BY <1>3, SaveInv
<1>4. ASSUME NEW p \in Replica, restart(p) PROVE Inv'
  BY <1>4, RestartInv
<1>5. CASE clock_changes
  BY <1>5, BoundsAssumption
     DEF clock_changes, Inv, TypeOK, EntriesWereSaved, AcceptedAreServed,
         ContextComesFromOwnSession, NewSessionIsBlank
<1>6. CASE UNCHANGED vars
  BY <1>6 DEF vars, Inv, TypeOK, EntriesWereSaved, AcceptedAreServed,
              ContextComesFromOwnSession, NewSessionIsBlank
<1>. QED BY <1>1, <1>2, <1>3, <1>4, <1>5, <1>6 DEF Next

-------------------------------------------------------------------------------
(* The type invariant of QueryService. *)
THEOREM TypeCorrect == Spec => []TypeOK
<1>1. Inv => TypeOK
  BY DEF Inv
<1>. QED BY InitInv, NextInv, <1>1, PTL DEF Spec

(* No leak: the context a request is given (query.py:132) is that of a     *)
(* request that was answered and saved under the same session id on the    *)
(* same replica, however requests, disconnects and restarts interleave.    *)
THEOREM NoLeak == Spec => []ContextComesFromOwnSession
<1>1. Inv => ContextComesFromOwnSession
  BY DEF Inv
<1>. QED BY InitInv, NextInv, <1>1, PTL DEF Spec

(* A request without a session id starts a blank conversation (query.py:   *)
(* 131-132).                                                               *)
THEOREM BlankStart == Spec => []NewSessionIsBlank
<1>1. Inv => NewSessionIsBlank
  BY DEF Inv
<1>. QED BY InitInv, NextInv, <1>1, PTL DEF Spec

(* One step of the service is at most one turn in the life of each         *)
(* request, whichever request, replica or clock makes it.                  *)
LEMMA StepOfLife ==
  ASSUME TypeOK, [Next]_vars, NEW x \in Request
  PROVE  [Life(x)!Next]_(phase[x])
<1>0. phase \in [Request -> Phases]
  BY DEF TypeOK
<1>1. ASSUME NEW r \in Request, NEW s \in SessionId, NEW p \in Replica,
             query_with_id(r, s, p) \/ query_without_id(r, s, p)
      PROVE  phase'[x] = phase[x] \/ Life(x)!Open
  BY <1>0, <1>1 DEF query_with_id, query_without_id, query, Life!Open
<1>2. ASSUME NEW r \in Request, Progress(r)
      PROVE  phase'[x] = phase[x] \/ Life(x)!End
  BY <1>0, <1>2 DEF Progress, send_done, send_error, Life!End
<1>3. ASSUME NEW r \in Request, save(r)
      PROVE  phase'[x] = phase[x] \/ Life(x)!Save
  BY <1>0, <1>3 DEF save, Life!Save
<1>4. ASSUME NEW r \in Request, disconnect(r)
      PROVE  phase'[x] = phase[x] \/ Life(x)!Cut
  BY <1>0, <1>4 DEF disconnect, Running, Life!Cut
<1>5. ASSUME NEW p \in Replica, restart(p)
      PROVE  phase'[x] = phase[x] \/ Life(x)!Cut
  BY <1>0, <1>5 DEF restart, Running, Life!Cut
<1>6. CASE clock_changes \/ UNCHANGED vars
  BY <1>6 DEF clock_changes, vars
<1>. QED BY <1>1, <1>2, <1>3, <1>4, <1>5, <1>6 DEF Next, Life!Next

(* Every request lives the life of StreamLifecycle, whatever the others    *)
(* do: the service implements it once for each of them (query.py:176-219). *)
THEOREM LivesItsLife == Spec => EachLivesItsLife
<1>1. Init => \A r \in Request : Life(r)!Init
  BY DEF Init, Life!Init
<1>2. TypeOK /\ [Next]_vars => [\A r \in Request : [Life(r)!Next]_(phase[r])]_vars
  BY StepOfLife
<1>. QED BY <1>1, <1>2, TypeCorrect, PTL DEF Spec, EachLivesItsLife

-------------------------------------------------------------------------------
(* Every context a request is given is the one the history of accesses     *)
(* calls for.  A history is any function h on 1..n; the lemmas say how one *)
(* more access changes what it makes due, and the invariant that the dict  *)
(* holds it.                                                               *)

(* Access k of history h is a use of session s on replica p. *)
Use(h, k, p, s) ==
  h[k].op # "restart" /\ h[k].replica = p /\ h[k].session = s

RestartOf(h, k, p) == h[k].op = "restart" /\ h[k].replica = p

Adjacent(h, k, l, p, s) ==
  /\ k < l /\ Use(h, k, p, s) /\ Use(h, l, p, s)
  /\ \A m \in (k + 1)..(l - 1) : ~Use(h, m, p, s)

(* After n accesses, session s on replica p remembers the exchange of the  *)
(* set at j: the last one, not lost in a restart, always used in time.     *)
Current(h, n, j, p, s) ==
  /\ j \in 1..n /\ Use(h, j, p, s) /\ h[j].op = "set"
  /\ \A k \in (j + 1)..n : /\ ~(Use(h, k, p, s) /\ h[k].op = "set")
                           /\ ~RestartOf(h, k, p)
  /\ \A k, l \in j..n : Adjacent(h, k, l, p, s) => h[l].time - h[k].time <= TTL

LastUse(h, n, k, p, s) ==
  /\ k \in 1..n /\ Use(h, k, p, s)
  /\ \A m \in (k + 1)..n : ~Use(h, m, p, s)

(* What a dict holds is what the history makes current, last used when the *)
(* history says.                                                           *)
EntryMatches(h, n, entry, p, s) ==
  IF entry = NoEntry
  THEN \A j : ~Current(h, n, j, p, s)
  ELSE \E j, k : /\ Current(h, n, j, p, s) /\ h[j].request = entry.context
                 /\ LastUse(h, n, k, p, s) /\ h[k].time = entry.last

EntriesMatch ==
  \A p \in Replica, s \in SessionId : EntryMatches(log, Len(log), stores[p][s], p, s)

(* What a get at i gave its request is what is current right after it. *)
Answers(h, i, context, p, s) ==
  /\ \A j : Current(h, i, j, p, s) => context = h[j].request
  /\ (\A j : ~Current(h, i, j, p, s)) => context = NoContext

GetAnswered(h, i, phases, contexts) ==
  h[i].op = "get" =>
    /\ h[i].request \in Request /\ phases[h[i].request] # "idle"
    /\ Answers(h, i, contexts[h[i].request], h[i].replica, h[i].session)

GetsMatch == \A i \in 1..Len(log) : GetAnswered(log, i, phase, seen)

HistoryInv == Inv /\ EntriesMatch /\ GetsMatch

-------------------------------------------------------------------------------
(* Histories. *)

(* There is one current exchange and one last use at most. *)
LEMMA CurrentIsUnique ==
  ASSUME NEW n \in Nat, NEW h, NEW i, NEW j, NEW p, NEW s,
         Current(h, n, i, p, s), Current(h, n, j, p, s)
  PROVE  i = j
<1>1. i \in 1..n /\ j \in 1..n
  BY DEF Current
<1>2. ~(i < j) /\ ~(j < i)
  BY <1>1 DEF Current
<1>. QED BY <1>1, <1>2

LEMMA LastUseIsUnique ==
  ASSUME NEW n \in Nat, NEW h, NEW i, NEW j, NEW p, NEW s,
         LastUse(h, n, i, p, s), LastUse(h, n, j, p, s)
  PROVE  i = j
<1>1. i \in 1..n /\ j \in 1..n
  BY DEF LastUse
<1>2. ~(i < j) /\ ~(j < i)
  BY <1>1 DEF LastUse
<1>. QED BY <1>1, <1>2

(* Only the first n accesses count. *)
LEMMA PrefixDecides ==
  ASSUME NEW n \in Nat, NEW h, NEW g, \A i \in 1..n : g[i] = h[i],
         NEW j, NEW p, NEW s
  PROVE  /\ (Current(g, n, j, p, s) <=> Current(h, n, j, p, s))
         /\ (LastUse(g, n, j, p, s) <=> LastUse(h, n, j, p, s))
<1>1. ASSUME NEW k \in 1..n
      PROVE  /\ Use(g, k, p, s) <=> Use(h, k, p, s)
             /\ RestartOf(g, k, p) <=> RestartOf(h, k, p)
  BY DEF Use, RestartOf
<1>2. ASSUME NEW k \in 1..n, NEW l \in 1..n
      PROVE  Adjacent(g, k, l, p, s) <=> Adjacent(h, k, l, p, s)
  BY <1>1 DEF Adjacent
<1>3. LastUse(g, n, j, p, s) <=> LastUse(h, n, j, p, s)
  BY <1>1 DEF LastUse
<1>4. ASSUME j \in 1..n
      PROVE  Current(g, n, j, p, s) <=> Current(h, n, j, p, s)
  <2>1. \A k \in j..n : k \in 1..n
    BY <1>4
  <2>2. \A k \in (j + 1)..n : k \in 1..n
    BY <1>4
  <2>. QED BY <1>1, <1>2, <1>4, <2>1, <2>2 DEF Current
<1>. QED BY <1>3, <1>4 DEF Current

(* An access to another session or replica changes nothing. *)
LEMMA OthersDoNotMatter ==
  ASSUME NEW n \in Nat, NEW h, NEW j, NEW p, NEW s,
         ~Use(h, n + 1, p, s), ~RestartOf(h, n + 1, p)
  PROVE  /\ (Current(h, n + 1, j, p, s) <=> Current(h, n, j, p, s))
         /\ (LastUse(h, n + 1, j, p, s) <=> LastUse(h, n, j, p, s))
<1>1. j = n + 1 => ~Current(h, n + 1, j, p, s) /\ ~LastUse(h, n + 1, j, p, s)
  BY DEF Current, LastUse
<1>2. \A k : ~Adjacent(h, k, n + 1, p, s)
  BY DEF Adjacent
<1>3. ASSUME j \in 1..n
      PROVE  Current(h, n + 1, j, p, s) <=> Current(h, n, j, p, s)
  <2>1. Current(h, n + 1, j, p, s) => Current(h, n, j, p, s)
    BY <1>3 DEF Current
  <2>2. ASSUME Current(h, n, j, p, s)
        PROVE  Current(h, n + 1, j, p, s)
    <3>1. ASSUME NEW k \in j..(n + 1), NEW l \in j..(n + 1), Adjacent(h, k, l, p, s)
          PROVE  h[l].time - h[k].time <= TTL
      <4>1. l # n + 1
        BY <1>2, <3>1
      <4>2. k < l
        BY <3>1 DEF Adjacent
      <4>3. k \in j..n /\ l \in j..n
        BY <1>3, <4>1, <4>2
      <4>. QED BY <2>2, <3>1, <4>3 DEF Current
    <3>2. \A k \in (j + 1)..(n + 1) : /\ ~(Use(h, k, p, s) /\ h[k].op = "set")
                                      /\ ~RestartOf(h, k, p)
      BY <1>3, <2>2 DEF Current
    <3>. QED BY <1>3, <2>2, <3>1, <3>2 DEF Current
  <2>. QED BY <2>1, <2>2
<1>4. LastUse(h, n + 1, j, p, s) <=> LastUse(h, n, j, p, s)
  BY <1>1 DEF LastUse
<1>5. j \in 1..(n + 1) <=> j \in 1..n \/ j = n + 1
  OBVIOUS
<1>. QED BY <1>1, <1>3, <1>4, <1>5 DEF Current

(* A get is a use: it keeps what is current if it comes in time. *)
LEMMA GetRenews ==
  ASSUME NEW n \in Nat, NEW h, NEW j, NEW p, NEW s,
         Use(h, n + 1, p, s), h[n + 1].op = "get"
  PROVE  /\ Current(h, n + 1, j, p, s) => Current(h, n, j, p, s)
         /\ \A k : Current(h, n, j, p, s) /\ LastUse(h, n, k, p, s) =>
              (Current(h, n + 1, j, p, s) <=> h[n + 1].time - h[k].time <= TTL)
         /\ LastUse(h, n + 1, n + 1, p, s)
<1>1. Current(h, n + 1, j, p, s) => Current(h, n, j, p, s)
  BY DEF Current
<1>2. LastUse(h, n + 1, n + 1, p, s)
  BY DEF LastUse
<1>3. ASSUME NEW k, Current(h, n, j, p, s), LastUse(h, n, k, p, s)
      PROVE  Current(h, n + 1, j, p, s) <=> h[n + 1].time - h[k].time <= TTL
  <2>1. j \in 1..n /\ k \in 1..n /\ j <= k
    BY <1>3 DEF Current, LastUse
  <2>2. Adjacent(h, k, n + 1, p, s)
    BY <1>3, <2>1 DEF LastUse, Adjacent
  <2>3. Current(h, n + 1, j, p, s) => h[n + 1].time - h[k].time <= TTL
    BY <2>1, <2>2 DEF Current
  <2>4. ASSUME h[n + 1].time - h[k].time <= TTL
        PROVE  Current(h, n + 1, j, p, s)
    <3>1. ASSUME NEW a \in j..(n + 1), NEW b \in j..(n + 1), Adjacent(h, a, b, p, s)
          PROVE  h[b].time - h[a].time <= TTL
      <4>0. a < b /\ a \in 1..n /\ Use(h, a, p, s)
        BY <2>1, <3>1 DEF Adjacent
      <4>1. CASE b = n + 1
        <5>1. ~(a < k)
          BY <1>3, <2>1, <3>1, <4>0, <4>1 DEF Adjacent, LastUse
        <5>2. ~(k < a)
          BY <1>3, <2>1, <4>0 DEF LastUse
        <5>3. a = k
          BY <2>1, <4>0, <5>1, <5>2
        <5>. QED BY <2>4, <4>1, <5>3
      <4>2. CASE b # n + 1
        <5>1. a \in j..n /\ b \in j..n
          BY <2>1, <4>0, <4>2
        <5>. QED BY <1>3, <3>1, <5>1 DEF Current
      <4>. QED BY <4>1, <4>2
    <3>2. \A m \in (j + 1)..(n + 1) : /\ ~(Use(h, m, p, s) /\ h[m].op = "set")
                                      /\ ~RestartOf(h, m, p)
      BY <1>3, <2>1 DEF Current, RestartOf
    <3>. QED BY <1>3, <2>1, <3>1, <3>2 DEF Current
  <2>. QED BY <2>3, <2>4
<1>. QED BY <1>1, <1>2, <1>3

(* A set is what is current then, and nothing else is. *)
LEMMA SetReplaces ==
  ASSUME NEW n \in Nat, NEW h, NEW p, NEW s,
         Use(h, n + 1, p, s), h[n + 1].op = "set"
  PROVE  /\ Current(h, n + 1, n + 1, p, s)
         /\ LastUse(h, n + 1, n + 1, p, s)
<1>1. \A k, l \in (n + 1)..(n + 1) : ~Adjacent(h, k, l, p, s)
  BY DEF Adjacent
<1>. QED BY <1>1 DEF Current, LastUse

LEMMA RestartForgets ==
  ASSUME NEW n \in Nat, NEW h, NEW j, NEW p, NEW s, RestartOf(h, n + 1, p)
  PROVE  ~Current(h, n + 1, j, p, s)
<1>1. j \in 1..n => n + 1 \in (j + 1)..(n + 1)
  OBVIOUS
<1>2. ~Use(h, n + 1, p, s)
  BY DEF Use, RestartOf
<1>3. j \in 1..(n + 1) => j \in 1..n \/ j = n + 1
  OBVIOUS
<1>. QED BY <1>1, <1>2, <1>3 DEF Current

(* The same of what a dict holds and of what a get answers. *)
LEMMA SameMatches ==
  ASSUME NEW h, NEW n, NEW g, NEW m, NEW p, NEW s, NEW entry,
         \A j : /\ (Current(g, m, j, p, s) <=> Current(h, n, j, p, s))
               /\ (LastUse(g, m, j, p, s) <=> LastUse(h, n, j, p, s)),
         \A j : Current(h, n, j, p, s) \/ LastUse(h, n, j, p, s) => g[j] = h[j],
         EntryMatches(h, n, entry, p, s)
  PROVE  EntryMatches(g, m, entry, p, s)
<1>1. CASE entry = NoEntry
  BY <1>1 DEF EntryMatches
<1>2. CASE entry # NoEntry
  <2>1. PICK j, k : /\ Current(h, n, j, p, s) /\ h[j].request = entry.context
                    /\ LastUse(h, n, k, p, s) /\ h[k].time = entry.last
    BY <1>2 DEF EntryMatches
  <2>2. g[j] = h[j] /\ g[k] = h[k] /\ Current(g, m, j, p, s) /\ LastUse(g, m, k, p, s)
    BY <2>1
  <2>. QED BY <1>2, <2>1, <2>2 DEF EntryMatches
<1>. QED BY <1>1, <1>2

LEMMA PrefixMatches ==
  ASSUME NEW n \in Nat, NEW h, NEW g, \A i \in 1..n : g[i] = h[i],
         NEW p, NEW s, NEW entry, EntryMatches(h, n, entry, p, s)
  PROVE  EntryMatches(g, n, entry, p, s)
<1>1. \A j : /\ (Current(g, n, j, p, s) <=> Current(h, n, j, p, s))
            /\ (LastUse(g, n, j, p, s) <=> LastUse(h, n, j, p, s))
  BY PrefixDecides
<1>2. \A j : Current(h, n, j, p, s) \/ LastUse(h, n, j, p, s) => g[j] = h[j]
  BY DEF Current, LastUse
<1>. QED BY <1>1, <1>2, SameMatches

LEMMA PrefixAnswers ==
  ASSUME NEW n \in Nat, NEW h, NEW g, \A i \in 1..n : g[i] = h[i],
         NEW p, NEW s, NEW context, Answers(h, n, context, p, s)
  PROVE  Answers(g, n, context, p, s)
<1>1. \A j : Current(g, n, j, p, s) <=> Current(h, n, j, p, s)
  BY PrefixDecides
<1>2. \A j : Current(h, n, j, p, s) => g[j] = h[j]
  BY DEF Current
<1>. QED BY <1>1, <1>2 DEF Answers

-------------------------------------------------------------------------------
(* The dict. *)

(* get answers with what is current, and leaves what is current after it.  *)
LEMMA GetMatches ==
  ASSUME NEW n \in Nat, NEW h, NEW p, NEW s \in SessionId, NEW table \in Table,
         NEW t \in Nat, EntryMatches(h, n, table[s], p, s),
         Use(h, n + 1, p, s), h[n + 1].op = "get", h[n + 1].time = t
  PROVE  /\ EntryMatches(h, n + 1, AfterGet(table, s, t)[s], p, s)
         /\ Answers(h, n + 1, Found(table, s, t), p, s)
<1>1. \A j : Current(h, n + 1, j, p, s) => Current(h, n, j, p, s)
  BY GetRenews
<1>2. CASE table[s] = NoEntry
  <2>1. \A j : ~Current(h, n + 1, j, p, s)
    BY <1>1, <1>2 DEF EntryMatches
  <2>2. AfterGet(table, s, t)[s] = NoEntry /\ Found(table, s, t) = NoContext
    BY <1>2 DEF AfterGet, Found, Live, Table
  <2>. QED BY <2>1, <2>2 DEF EntryMatches, Answers
<1>3. CASE table[s] # NoEntry
  <2>0. table[s] \in Entry
    BY <1>3 DEF Table
  <2>1. PICK j, k : /\ Current(h, n, j, p, s) /\ h[j].request = table[s].context
                    /\ LastUse(h, n, k, p, s) /\ h[k].time = table[s].last
    BY <1>3 DEF EntryMatches
  <2>2. /\ Current(h, n + 1, j, p, s) <=> t - table[s].last <= TTL
        /\ LastUse(h, n + 1, n + 1, p, s)
    BY <2>1, GetRenews
  <2>3. \A i : Current(h, n + 1, i, p, s) => i = j
    BY <1>1, <2>1, CurrentIsUnique
  <2>4. Live(table, s, t) <=> t - table[s].last <= TTL
    BY <1>3, <2>0, StoreAssumption DEF Live, Expired, Entry
  <2>5. CASE Live(table, s, t)
    <3>1. AfterGet(table, s, t)[s] = [context |-> table[s].context, last |-> t]
      BY <2>5 DEF AfterGet, Table
    <3>2. Found(table, s, t) = table[s].context
      BY <2>5 DEF Found
    <3>3. [context |-> table[s].context, last |-> t] # NoEntry
      BY <2>0, StoreAssumption DEF Entry
    <3>. QED BY <2>1, <2>2, <2>3, <2>4, <2>5, <3>1, <3>2, <3>3 DEF EntryMatches, Answers
  <2>6. CASE ~Live(table, s, t)
    <3>1. AfterGet(table, s, t)[s] = NoEntry /\ Found(table, s, t) = NoContext
      BY <2>6 DEF AfterGet, Found, Table
    <3>. QED BY <2>2, <2>3, <2>4, <2>6, <3>1 DEF EntryMatches, Answers
  <2>. QED BY <2>5, <2>6
<1>. QED BY <1>2, <1>3

-------------------------------------------------------------------------------
(* The service. *)

(* One more access leaves the histories of the others, and the gets behind *)
(* it, as they were.                                                       *)
LEMMA OthersStillMatch ==
  ASSUME HistoryInv, NEW e \in Access \cup Reboot, log' = Append(log, e),
         NEW p \in Replica, NEW s \in SessionId,
         stores'[p][s] = stores[p][s],
         ~Use(log', Len(log) + 1, p, s), ~RestartOf(log', Len(log) + 1, p)
  PROVE  EntryMatches(log', Len(log'), stores'[p][s], p, s)
<1>1. log \in Seq(Access \cup Reboot)
  BY DEF HistoryInv, Inv, TypeOK
<1>2. Len(log) \in Nat /\ Len(log') = Len(log) + 1 /\ \A i \in 1..Len(log) : log'[i] = log[i]
  BY <1>1
<1>3. EntryMatches(log, Len(log), stores[p][s], p, s)
  BY DEF HistoryInv, EntriesMatch
<1>4. EntryMatches(log', Len(log), stores[p][s], p, s)
  BY <1>2, <1>3, PrefixMatches
<1>5. \A j : /\ (Current(log', Len(log) + 1, j, p, s) <=> Current(log', Len(log), j, p, s))
            /\ (LastUse(log', Len(log) + 1, j, p, s) <=> LastUse(log', Len(log), j, p, s))
  BY <1>2, OthersDoNotMatter
<1>6. EntryMatches(log', Len(log) + 1, stores[p][s], p, s)
  <2>. DEFINE h == log'
              n == Len(log)
  <2>1. \A j : /\ (Current(h, n + 1, j, p, s) <=> Current(h, n, j, p, s))
              /\ (LastUse(h, n + 1, j, p, s) <=> LastUse(h, n, j, p, s))
    BY <1>5
  <2>2. EntryMatches(h, n, stores[p][s], p, s)
    BY <1>4
  <2>. HIDE DEF h, n
  <2>3. EntryMatches(h, n + 1, stores[p][s], p, s)
    BY <2>1, <2>2, SameMatches
  <2>. QED BY <2>3 DEF h, n
<1>. QED BY <1>2, <1>6

LEMMA OldGetsStillMatch ==
  ASSUME HistoryInv, NEW e \in Access \cup Reboot, log' = Append(log, e),
         \A r \in Request : phase[r] # "idle" => phase'[r] # "idle" /\ seen'[r] = seen[r],
         NEW i \in 1..Len(log)
  PROVE  GetAnswered(log', i, phase', seen')
<1>1. log \in Seq(Access \cup Reboot)
  BY DEF HistoryInv, Inv, TypeOK
<1>2. i \in Nat /\ \A k \in 1..i : log'[k] = log[k]
  BY <1>1
<1>3. GetAnswered(log, i, phase, seen)
  BY DEF HistoryInv, GetsMatch
<1>4. ASSUME log[i].op = "get"
      PROVE  Answers(log', i, seen[log[i].request], log[i].replica, log[i].session)
  <2>1. Answers(log, i, seen[log[i].request], log[i].replica, log[i].session)
    BY <1>3, <1>4 DEF GetAnswered
  <2>. DEFINE h == log
              g == log'
              c == seen[log[i].request]
              p == log[i].replica
              s == log[i].session
  <2>2. i \in Nat /\ (\A k \in 1..i : g[k] = h[k]) /\ Answers(h, i, c, p, s)
    BY <1>2, <2>1
  <2>. HIDE DEF h, g, c, p, s
  <2>3. Answers(g, i, c, p, s)
    BY <2>2, PrefixAnswers
  <2>. QED BY <2>3 DEF h, g, c, p, s
<1>5. log'[i] = log[i]
  BY <1>2
<1>. QED BY <1>3, <1>4, <1>5 DEF GetAnswered

(* Accepting a request. *)
LEMMA QueryMatches ==
  ASSUME HistoryInv, NEW r \in Request, NEW s \in SessionId, NEW p \in Replica,
         query(r, s, p)
  PROVE  EntriesMatch' /\ GetsMatch'
<1>. DEFINE e == [op |-> "get", request |-> r, session |-> s, replica |-> p, time |-> now]
            n == Len(log)
<1>1. /\ TypeOK /\ now \in Nat /\ stores[p] \in Table /\ e \in Access
      /\ log \in Seq(Access \cup Reboot)
  BY BoundsAssumption DEF HistoryInv, Inv, TypeOK, Access
<1>2. log' = Append(log, e)
  BY DEF query, Logged
<1>3. /\ n \in Nat /\ Len(log') = n + 1 /\ log'[n + 1] = e
      /\ \A i \in 1..n : log'[i] = log[i]
  BY <1>1, <1>2
<1>4. /\ seen' = [seen EXCEPT ![r] = Found(stores[p], s, now)]
      /\ stores' = [stores EXCEPT ![p] = AfterGet(stores[p], s, now)]
      /\ phase[r] = "idle" /\ phase' = [phase EXCEPT ![r] = "streaming"]
  BY DEF query
<1>5. /\ Use(log', n + 1, p, s) /\ ~RestartOf(log', n + 1, p)
      /\ \A x, y : Use(log', n + 1, x, y) => x = p /\ y = s
      /\ \A x : ~RestartOf(log', n + 1, x)
  BY <1>3 DEF Use, RestartOf
<1>6. EntryMatches(log', n, stores[p][s], p, s)
  BY <1>3, PrefixMatches DEF HistoryInv, EntriesMatch
<1>7. /\ EntryMatches(log', n + 1, AfterGet(stores[p], s, now)[s], p, s)
      /\ Answers(log', n + 1, Found(stores[p], s, now), p, s)
  <2>1. log'[n + 1].op = "get" /\ log'[n + 1].time = now
    BY <1>3
  <2>. QED BY <1>1, <1>3, <1>5, <1>6, <2>1, GetMatches
<1>8. EntriesMatch'
  <2>. SUFFICES ASSUME NEW x \in Replica, NEW y \in SessionId
                PROVE  EntryMatches(log', Len(log'), stores'[x][y], x, y)
    BY DEF EntriesMatch
  <2>1. CASE x = p /\ y = s
    <3>1. stores'[p] = AfterGet(stores[p], s, now)
      BY <1>1, <1>4 DEF TypeOK
    <3>. QED BY <1>3, <1>7, <2>1, <3>1
  <2>2. CASE ~(x = p /\ y = s)
    <3>1. stores'[x][y] = stores[x][y]
      BY <1>1, <1>4, <2>2 DEF TypeOK, AfterGet, Table
    <3>. QED BY <1>1, <1>2, <1>5, <2>2, <3>1, OthersStillMatch
  <2>. QED BY <2>1, <2>2
<1>9. GetsMatch'
  <2>1. \A q \in Request : phase[q] # "idle" => phase'[q] # "idle" /\ seen'[q] = seen[q]
    BY <1>1, <1>4 DEF TypeOK
  <2>2. \A i \in 1..n : GetAnswered(log', i, phase', seen')
    BY <1>1, <1>2, <2>1, OldGetsStillMatch
  <2>3. GetAnswered(log', n + 1, phase', seen')
    <3>1. /\ log'[n + 1].request = r /\ log'[n + 1].replica = p /\ log'[n + 1].session = s
          /\ phase'[r] # "idle" /\ seen'[r] = Found(stores[p], s, now)
      BY <1>1, <1>3, <1>4 DEF TypeOK
    <3>. QED BY <1>7, <3>1 DEF GetAnswered
  <2>4. \A i \in 1..Len(log') : i \in 1..n \/ i = n + 1
    BY <1>3
  <2>. QED BY <2>2, <2>3, <2>4 DEF GetsMatch
<1>. QED BY <1>8, <1>9

(* Saving an exchange. *)
LEMMA SaveMatches ==
  ASSUME HistoryInv, NEW r \in Request, save(r)
  PROVE  EntriesMatch' /\ GetsMatch'
<1>. DEFINE p == home[r]
            s == session[r]
            e == [op |-> "set", request |-> r, session |-> s, replica |-> p, time |-> now]
            n == Len(log)
<1>1. /\ TypeOK /\ phase[r] = "answered" /\ p \in Replica /\ s \in SessionId
      /\ now \in Nat /\ stores[p] \in Table /\ log \in Seq(Access \cup Reboot)
  BY BoundsAssumption DEF HistoryInv, Inv, TypeOK, AcceptedAreServed, save
<1>2. log' = Append(log, e) /\ e \in Access
  BY <1>1 DEF save, Logged, Access
<1>3. /\ n \in Nat /\ Len(log') = n + 1 /\ log'[n + 1] = e
      /\ \A i \in 1..n : log'[i] = log[i]
  BY <1>1, <1>2
<1>4. /\ seen' = seen /\ phase' = [phase EXCEPT ![r] = "saved"]
      /\ stores' = [stores EXCEPT ![p] = AfterSet(stores[p], s, r, now)]
  BY DEF save
<1>5. /\ Use(log', n + 1, p, s)
      /\ \A x, y : Use(log', n + 1, x, y) => x = p /\ y = s
      /\ \A x : ~RestartOf(log', n + 1, x)
  BY <1>3 DEF Use, RestartOf
<1>6. EntriesMatch'
  <2>. SUFFICES ASSUME NEW x \in Replica, NEW y \in SessionId
                PROVE  EntryMatches(log', Len(log'), stores'[x][y], x, y)
    BY DEF EntriesMatch
  <2>1. CASE x = p /\ y = s
    <3>1. stores'[p][s] = [context |-> r, last |-> now]
      BY <1>1, <1>4 DEF TypeOK, AfterSet, Table
    <3>2. [context |-> r, last |-> now] # NoEntry
      BY <1>1, StoreAssumption DEF Entry
    <3>3. Current(log', n + 1, n + 1, p, s) /\ LastUse(log', n + 1, n + 1, p, s)
      BY <1>3, <1>5, SetReplaces
    <3>4. log'[n + 1].request = r /\ log'[n + 1].time = now
      BY <1>3
    <3>5. EntryMatches(log', n + 1, [context |-> r, last |-> now], p, s)
      BY <3>2, <3>3, <3>4 DEF EntryMatches
    <3>. QED BY <1>3, <2>1, <3>1, <3>5
  <2>2. CASE ~(x = p /\ y = s)
    <3>1. stores'[x][y] = stores[x][y]
      BY <1>1, <1>4, <2>2 DEF TypeOK, AfterSet, Table
    <3>. QED BY <1>2, <1>5, <2>2, <3>1, OthersStillMatch
  <2>. QED BY <2>1, <2>2
<1>7. GetsMatch'
  <2>1. \A q \in Request : phase[q] # "idle" => phase'[q] # "idle" /\ seen'[q] = seen[q]
    BY <1>1, <1>4 DEF TypeOK
  <2>2. \A i \in 1..n : GetAnswered(log', i, phase', seen')
    BY <1>2, <2>1, OldGetsStillMatch
  <2>3. GetAnswered(log', n + 1, phase', seen')
    BY <1>3 DEF GetAnswered
  <2>4. \A i \in 1..Len(log') : i \in 1..n \/ i = n + 1
    BY <1>3
  <2>. QED BY <2>2, <2>3, <2>4 DEF GetsMatch
<1>. QED BY <1>6, <1>7

(* Losing a replica's dict. *)
LEMMA RestartMatches ==
  ASSUME HistoryInv, NEW p \in Replica, restart(p)
  PROVE  EntriesMatch' /\ GetsMatch'
<1>. DEFINE e == [op |-> "restart", replica |-> p]
            n == Len(log)
<1>1. TypeOK /\ log \in Seq(Access \cup Reboot)
  BY DEF HistoryInv, Inv, TypeOK
<1>2. log' = Append(log, e) /\ e \in Reboot
  BY DEF restart, Reboot
<1>3. /\ n \in Nat /\ Len(log') = n + 1 /\ log'[n + 1] = e
      /\ \A i \in 1..n : log'[i] = log[i]
  BY <1>1, <1>2
<1>4. seen' = seen /\ stores' = [stores EXCEPT ![p] = EmptyTable]
  BY DEF restart
<1>5. /\ RestartOf(log', n + 1, p)
      /\ \A x : RestartOf(log', n + 1, x) => x = p
      /\ \A x, y : ~Use(log', n + 1, x, y)
  BY <1>3 DEF Use, RestartOf
<1>6. EntriesMatch'
  <2>. SUFFICES ASSUME NEW x \in Replica, NEW y \in SessionId
                PROVE  EntryMatches(log', Len(log'), stores'[x][y], x, y)
    BY DEF EntriesMatch
  <2>1. CASE x = p
    <3>1. stores'[x][y] = NoEntry
      BY <1>1, <1>4, <2>1 DEF TypeOK, EmptyTable
    <3>2. \A j : ~Current(log', n + 1, j, x, y)
      BY <1>3, <1>5, <2>1, RestartForgets
    <3>. QED BY <1>3, <3>1, <3>2 DEF EntryMatches
  <2>2. CASE x # p
    <3>1. stores'[x][y] = stores[x][y]
      BY <1>1, <1>4, <2>2 DEF TypeOK
    <3>. QED BY <1>2, <1>5, <2>2, <3>1, OthersStillMatch
  <2>. QED BY <2>1, <2>2
<1>7. GetsMatch'
  <2>1. \A q \in Request : phase[q] # "idle" => phase'[q] # "idle" /\ seen'[q] = seen[q]
    BY <1>1, <1>4 DEF TypeOK, restart
  <2>2. \A i \in 1..n : GetAnswered(log', i, phase', seen')
    BY <1>2, <2>1, OldGetsStillMatch
  <2>3. GetAnswered(log', n + 1, phase', seen')
    BY <1>3 DEF GetAnswered
  <2>4. \A i \in 1..Len(log') : i \in 1..n \/ i = n + 1
    BY <1>3
  <2>. QED BY <2>2, <2>3, <2>4 DEF GetsMatch
<1>. QED BY <1>6, <1>7

(* A step that touches no store. *)
LEMMA IdleMatches ==
  ASSUME HistoryInv, log' = log, stores' = stores, seen' = seen,
         \A r \in Request : phase[r] # "idle" => phase'[r] # "idle"
  PROVE  EntriesMatch' /\ GetsMatch'
<1>1. EntriesMatch'
  BY DEF HistoryInv, EntriesMatch
<1>2. GetsMatch'
  BY DEF HistoryInv, GetsMatch, GetAnswered
<1>. QED BY <1>1, <1>2

LEMMA HistoryInit == Init => HistoryInv
<1>1. Init => EntriesMatch
  <2>. SUFFICES ASSUME Init, NEW p \in Replica, NEW s \in SessionId
                PROVE  EntryMatches(log, Len(log), stores[p][s], p, s)
    BY DEF EntriesMatch
  <2>1. stores[p][s] = NoEntry /\ Len(log) = 0
    BY DEF Init, EmptyTable
  <2>2. \A j : ~Current(log, 0, j, p, s)
    BY DEF Current
  <2>. QED BY <2>1, <2>2 DEF EntryMatches
<1>2. Init => GetsMatch
  BY DEF Init, GetsMatch
<1>. QED BY <1>1, <1>2, InitInv DEF HistoryInv

LEMMA HistoryNext == HistoryInv /\ [Next]_vars => HistoryInv'
<1>. SUFFICES ASSUME HistoryInv, [Next]_vars PROVE HistoryInv'
  OBVIOUS
<1>0. Inv' /\ phase \in [Request -> Phases]
  BY NextInv DEF HistoryInv, Inv, TypeOK
<1>1. ASSUME NEW r \in Request, NEW s \in SessionId, NEW p \in Replica,
             query_with_id(r, s, p) \/ query_without_id(r, s, p)
      PROVE  EntriesMatch' /\ GetsMatch'
  BY <1>1, QueryMatches DEF query_with_id, query_without_id
<1>2. ASSUME NEW r \in Request, Progress(r) \/ disconnect(r)
      PROVE  EntriesMatch' /\ GetsMatch'
  BY <1>0, <1>2, IdleMatches DEF Progress, send_done, send_error, disconnect
<1>3. ASSUME NEW r \in Request, save(r) PROVE EntriesMatch' /\ GetsMatch'
  BY <1>3, SaveMatches
<1>4. ASSUME NEW p \in Replica, restart(p) PROVE EntriesMatch' /\ GetsMatch'
  BY <1>4, RestartMatches
<1>5. ASSUME clock_changes \/ UNCHANGED vars PROVE EntriesMatch' /\ GetsMatch'
  BY <1>5, IdleMatches DEF clock_changes, vars
<1>6. EntriesMatch' /\ GetsMatch'
  BY <1>1, <1>2, <1>3, <1>4, <1>5 DEF Next
<1>. QED BY <1>0, <1>6 DEF HistoryInv

-------------------------------------------------------------------------------
(* What ContextMatchesHistory calls due at a get is what is current then.  *)
LEMMA DueIsCurrent ==
  ASSUME TypeOK, NEW i \in 1..Len(log), log[i].op = "get", NEW j
  PROVE  (j \in LastSetBefore(i) /\ KeptInUse(j, i)) <=>
         Current(log, i, j, log[i].replica, log[i].session)
<1>. DEFINE p == log[i].replica
            s == log[i].session
<1>0. i \in Nat /\ i >= 1 /\ Use(log, i, p, s)
  BY DEF Use
<1>1. \A a, b : Touches(a, b) = {k \in a..b : Use(log, k, log[b].replica, log[b].session)}
  BY DEF Touches, Use
<1>2. ASSUME NEW a \in Nat
      PROVE  Touches(a, i) = {k \in a..i : Use(log, k, p, s)}
  BY <1>1
<1>3. j \in LastSetBefore(i) => j \in 1..i
  BY <1>2 DEF LastSetBefore
<1>4. ASSUME j \in 1..i
      PROVE  j \in LastSetBefore(i) <=>
               /\ Use(log, j, p, s) /\ log[j].op = "set"
               /\ \A k \in (j + 1)..i : /\ ~(Use(log, k, p, s) /\ log[k].op = "set")
                                        /\ ~RestartOf(log, k, p)
  <2>1. j \in Nat /\ Touches(j, i) = {k \in j..i : Use(log, k, p, s)}
        /\ Touches(1, i) = {k \in 1..i : Use(log, k, p, s)}
    BY <1>2, <1>4
  <2>2. j \in LastSetBefore(i) <=>
          /\ Use(log, j, p, s) /\ j # i /\ log[j].op = "set"
          /\ \A k \in j..i : Use(log, k, p, s) /\ k # i /\ k # j => log[k].op # "set"
          /\ \A k \in j..i : ~RestartOf(log, k, p)
    BY <1>4, <2>1 DEF LastSetBefore, RestartOf
  <2>3. log[j].op = "set" => j # i /\ ~RestartOf(log, j, p)
    BY DEF RestartOf
  <2>4. \A k : k \in j..i <=> k = j \/ k \in (j + 1)..i
    BY <1>4
  <2>5. \A k \in (j + 1)..i : k # j
    BY <1>4
  <2>. QED BY <2>2, <2>3, <2>4, <2>5
<1>5. ASSUME j \in 1..i
      PROVE  KeptInUse(j, i) <=>
             \A k, l \in j..i : Adjacent(log, k, l, p, s) => log[l].time - log[k].time <= TTL
  <2>1. Touches(j, i) = {k \in j..i : Use(log, k, p, s)}
    BY <1>2, <1>5
  <2>2. ASSUME NEW k \in j..i, NEW l \in j..i
        PROVE  (k \in Touches(j, i) /\ l \in Touches(j, i) /\ k < l /\ Touches(k, l) = {k, l})
               <=> Adjacent(log, k, l, p, s)
    <3>1. k \in Nat /\ l \in Nat
      BY <1>5
    <3>2. k \in Touches(j, i) /\ l \in Touches(j, i) <=> Use(log, k, p, s) /\ Use(log, l, p, s)
      BY <2>1
    <3>3. Use(log, l, p, s) => Touches(k, l) = {m \in k..l : Use(log, m, p, s)}
      BY <1>1 DEF Use
    <3>4. \A m : m \in k..l /\ m # k /\ m # l <=> m \in (k + 1)..(l - 1)
      BY <3>1
    <3>5. k < l => k \in k..l /\ l \in k..l
      BY <3>1
    <3>6. ASSUME Use(log, k, p, s), Use(log, l, p, s), k < l
          PROVE  Touches(k, l) = {k, l} <=> \A m \in (k + 1)..(l - 1) : ~Use(log, m, p, s)
      BY <3>3, <3>4, <3>5, <3>6
    <3>. QED BY <3>2, <3>6 DEF Adjacent
  <2>3. Touches(j, i) \subseteq j..i
    BY <2>1
  <2>. QED BY <2>2, <2>3 DEF KeptInUse
<1>. QED BY <1>3, <1>4, <1>5 DEF Current

LEMMA HistoryImplies == HistoryInv => ContextMatchesHistory
<1>. SUFFICES ASSUME HistoryInv, NEW i \in DOMAIN log, log[i].op = "get"
              PROVE  LET Due == {j \in LastSetBefore(i) : KeptInUse(j, i)}
                     IN seen[log[i].request] =
                          IF Due = {} THEN NoContext ELSE log[CHOOSE j \in Due : TRUE].request
  BY DEF ContextMatchesHistory
<1>. DEFINE Due == {j \in LastSetBefore(i) : KeptInUse(j, i)}
            c == seen[log[i].request]
            p == log[i].replica
            s == log[i].session
<1>1. TypeOK /\ i \in 1..Len(log)
  BY DEF HistoryInv, Inv, TypeOK
<1>2. Answers(log, i, c, p, s)
  BY <1>1 DEF HistoryInv, GetsMatch, GetAnswered
<1>3. \A j : j \in Due <=> Current(log, i, j, p, s)
  BY <1>1, DueIsCurrent
<1>4. CASE Due = {}
  BY <1>2, <1>3, <1>4 DEF Answers
<1>5. CASE Due # {}
  <2>1. (CHOOSE j \in Due : TRUE) \in Due
    BY <1>5
  <2>. QED BY <1>2, <1>3, <1>5, <2>1 DEF Answers
<1>. QED BY <1>4, <1>5

(* Every context a request is given is the one the history of accesses     *)
(* calls for: sliding expiry, last writer wins, lost on restart, with a    *)
(* clock that may be set back (session.py:37-65, query.py:132, 211).       *)
THEOREM ContextsMatch == Spec => []ContextMatchesHistory
BY HistoryInit, HistoryNext, HistoryImplies, PTL DEF Spec

===============================================================================
