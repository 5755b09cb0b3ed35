----------------------------- MODULE QueryService -----------------------------
(***************************************************************************)
(* Many POST /query requests (api/routers/query.py) against the session    *)
(* stores of the replicas that serve them.  A request reads its session's  *)
(* context when it is accepted, streams an answer for as long as the graph *)
(* takes, sends the done event, and only then writes the store; in between *)
(* the event loop runs other requests, time passes, clients disconnect and *)
(* replicas restart.                                                       *)
(*                                                                         *)
(* What a request would store, its (query, answer, chunks), is identified  *)
(* with the request.  QueryStream says what is in it.                      *)
(***************************************************************************)
EXTENDS Integers, Sequences

CONSTANTS Request,      \* requests that may be made
          Replica,      \* processes, each with a session_store of its own
          SessionId,    \* session ids, supplied by clients or minted
          NoContext, NoEntry, NoSession, NoReplica,
          TTL,          \* ttl_seconds, in ticks
          MaxTime,      \* bound on the clock
          MaxRestarts   \* bound on the number of restarts

INSTANCE SessionEntries WITH Context <- Request

ASSUME StoreAssumption ==
  /\ TTL \in Nat
  /\ NoContext \notin Request
  /\ NoEntry \notin Entry
ASSUME AbsenceAssumption == NoSession \notin SessionId /\ NoReplica \notin Replica
ASSUME BoundsAssumption == MaxTime \in Nat /\ MaxRestarts \in Nat

VARIABLES stores,     \* replica -> the dict of its session_store
          now,        \* time.time(), in ticks
          phase,      \* request -> where its life is, as in StreamLifecycle
          session,    \* request -> session_id, once accepted
          home,       \* request -> the replica that serves it
          seen,       \* request -> the session_context it was given
          minted,     \* requests that sent no session_id and were given a uuid4
          restarts,   \* restarts so far
          log         \* every read and write of a store and every restart, in order

vars == <<stores, now, phase, session, home, seen, minted, restarts, log>>

Running == {"streaming", "answered"}
Phases == Running \cup {"idle", "saved", "failed", "cut"}

Accepted == {r \in Request : phase[r] # "idle"}

Access == [op : {"get", "set"}, request : Request,
           session : SessionId, replica : Replica, time : Nat]
Reboot == [op : {"restart"}, replica : Replica]

TypeOK ==
  /\ stores \in [Replica -> Table]
  /\ now \in 0..MaxTime
  /\ phase \in [Request -> Phases]
  /\ session \in [Request -> SessionId \cup {NoSession}]
  /\ home \in [Request -> Replica \cup {NoReplica}]
  /\ seen \in [Request -> Request \cup {NoContext}]
  /\ minted \in SUBSET Request
  /\ restarts \in 0..MaxRestarts
  /\ log \in Seq(Access \cup Reboot)

Init ==
  /\ stores = [p \in Replica |-> EmptyTable]
  /\ now = 0
  /\ phase = [r \in Request |-> "idle"]
  /\ session = [r \in Request |-> NoSession]
  /\ home = [r \in Request |-> NoReplica]
  /\ seen = [r \in Request |-> NoContext]
  /\ minted = {}
  /\ restarts = 0
  /\ log = << >>

-------------------------------------------------------------------------------
Logged(op, r, s, p) ==
  Append(log, [op |-> op, request |-> r, session |-> s, replica |-> p, time |-> now])

(* The route's body up to the StreamingResponse: no await, so one step. *)
query(r, s, p) ==
  /\ phase[r] = "idle"
  /\ phase' = [phase EXCEPT ![r] = "streaming"]
  /\ session' = [session EXCEPT ![r] = s]
  /\ home' = [home EXCEPT ![r] = p]
  /\ seen' = [seen EXCEPT ![r] = Found(stores[p], s, now)]
  /\ stores' = [stores EXCEPT ![p] = AfterGet(stores[p], s, now)]
  /\ log' = Logged("get", r, s, p)
  /\ UNCHANGED <<now, restarts>>

(* A client may send any session_id it likes: one it was given, one of  *)
(* somebody's else it was told, or one it made up.                      *)
query_with_id(r, s, p) == query(r, s, p) /\ UNCHANGED minted

(* Mutant: requests without an id share a default one. *)
FreshByDefault(s) == s = s

(* Without one, uuid.uuid4() mints an id that nothing uses yet. *)
Fresh(s) == \A q \in Accepted : session[q] # s

query_without_id(r, s, p) ==
  /\ Fresh(s)
  /\ query(r, s, p)
  /\ minted' = minted \cup {r}

(* The graph has completed and the generator yields the done event. *)
send_done(r) ==
  /\ phase[r] = "streaming"
  /\ phase' = [phase EXCEPT ![r] = "answered"]
  /\ UNCHANGED <<stores, now, session, home, seen, minted, restarts, log>>

(* Mutant: the update sits in a finally block and also runs after an error. *)
save_in_finally(r) ==
  /\ phase[r] \in {"answered", "failed"}
  /\ phase' = [phase EXCEPT ![r] = IF phase[r] = "answered" THEN "saved" ELSE "cut"]
  /\ stores' = [stores EXCEPT ![home[r]] = AfterSet(stores[home[r]], session[r], r, now)]
  /\ log' = Logged("set", r, session[r], home[r])
  /\ UNCHANGED <<now, session, home, seen, minted, restarts>>

(* The generator is resumed after the done event and updates the store. *)
save(r) ==
  /\ phase[r] = "answered"
  /\ phase' = [phase EXCEPT ![r] = "saved"]
  /\ stores' = [stores EXCEPT ![home[r]] = AfterSet(stores[home[r]], session[r], r, now)]
  /\ log' = Logged("set", r, session[r], home[r])
  /\ UNCHANGED <<now, session, home, seen, minted, restarts>>

(* The graph has raised; the generator yields the error event and returns. *)
send_error(r) ==
  /\ phase[r] = "streaming"
  /\ phase' = [phase EXCEPT ![r] = "failed"]
  /\ UNCHANGED <<stores, now, session, home, seen, minted, restarts, log>>

(* The client goes away and the server cancels the generator, which does *)
(* not catch that: nothing after its current yield is executed.          *)
disconnect(r) ==
  /\ phase[r] \in Running
  /\ phase' = [phase EXCEPT ![r] = "cut"]
  /\ UNCHANGED <<stores, now, session, home, seen, minted, restarts, log>>

(* A replica is stopped and started again: a crash, a deployment, or the *)
(* scaling down to zero.  Its store and the requests it was serving go;  *)
(* a restart of one that has neither is left out, as it changes nothing. *)
restart(p) ==
  /\ restarts < MaxRestarts
  /\ stores[p] # EmptyTable \/ \E r \in Request : home[r] = p /\ phase[r] \in Running
  /\ restarts' = restarts + 1
  /\ stores' = [stores EXCEPT ![p] = EmptyTable]
  /\ phase' = [r \in Request |-> IF home[r] = p /\ phase[r] \in Running
                                 THEN "cut" ELSE phase[r]]
  /\ log' = Append(log, [op |-> "restart", replica |-> p])
  /\ UNCHANGED <<now, session, home, seen, minted>>

(* time.time() is the wall clock: it advances by any amount, and it is set *)
(* back when the host's clock is corrected.                                *)
clock_changes ==
  /\ now' \in 0..MaxTime
  /\ UNCHANGED <<stores, phase, session, home, seen, minted, restarts, log>>

Progress(r) == send_done(r) \/ send_error(r)

Next ==
  \/ \E r \in Request, s \in SessionId, p \in Replica :
       query_with_id(r, s, p) \/ query_without_id(r, s, p)
  \/ \E r \in Request : Progress(r) \/ save(r) \/ disconnect(r)
  \/ \E p \in Replica : restart(p)
  \/ clock_changes

Spec == Init /\ [][Next]_vars

-------------------------------------------------------------------------------
(* Safety.                                                                 *)

(* A request is given the context of another request only if that request  *)
(* ran to completion on the same replica under the same session id: no     *)
(* leak between sessions, nothing from a request that failed or was cut    *)
(* off while it streamed (query.py:132, 211).                              *)
ContextComesFromOwnSession ==
  \A r \in Request :
    seen[r] # NoContext =>
      /\ phase[seen[r]] = "saved"
      /\ session[seen[r]] = session[r]
      /\ home[seen[r]] = home[r]
      /\ seen[r] # r

(* A conversation that was opened without a session id starts blank: the   *)
(* minted id finds nothing in any store (query.py:131-132).                *)
NewSessionIsBlank == \A r \in minted : seen[r] = NoContext

(* What the history of store accesses says get must return to access i:    *)
(* the last exchange set before it for that session on that replica since  *)
(* the replica started, unless from one use to the next the clock once     *)
(* advanced by more than TTL.                                              *)
Touches(i, j) ==
  {k \in i..j : /\ log[k].op # "restart"
                /\ log[k].replica = log[j].replica
                /\ log[k].session = log[j].session}

LastSetBefore(i) ==
  {j \in Touches(1, i) \ {i} :
     /\ log[j].op = "set"
     /\ \A k \in Touches(j, i) \ {i, j} : log[k].op # "set"
     /\ \A k \in j..i : ~(log[k].op = "restart" /\ log[k].replica = log[i].replica)}

KeptInUse(j, i) ==
  \A k, l \in Touches(j, i) :
    (k < l /\ Touches(k, l) = {k, l}) => log[l].time - log[k].time <= TTL

(* Every context a request was given is the one the history calls for, and *)
(* a request given none had none to be given: sliding expiry, last writer  *)
(* wins, lost on restart, whether the clock advances or is set back        *)
(* (session.py:37-65, query.py:132, 211).                                  *)
ContextMatchesHistory ==
  \A i \in DOMAIN log :
    log[i].op = "get" =>
      LET Due == {j \in LastSetBefore(i) : KeptInUse(j, i)}
      IN seen[log[i].request] =
           IF Due = {} THEN NoContext ELSE log[CHOOSE j \in Due : TRUE].request

(* Seen alone, every request lives the life StreamLifecycle describes,     *)
(* whatever the others, the clock and the restarts do: no step takes two   *)
(* turns of one request and an ended one is never reopened                 *)
(* (query.py:176-219).                                                     *)
Life(r) == INSTANCE StreamLifecycle WITH phase <- phase[r]

EachLivesItsLife ==   \* \A r \in Request : Life(r)!Spec, in TLC's normal form
  /\ \A r \in Request : Life(r)!Init
  /\ [][\A r \in Request : [Life(r)!Next]_(phase[r])]_vars

===============================================================================
