----------------------------- MODULE QueryStream ------------------------------
(***************************************************************************)
(* One POST /query from the moment it is accepted: the graph, a task that  *)
(* runs planner, retriever and synthesizer in turn (agent/graph.py,        *)
(* agent/nodes/), the events it emits, and the generator that consumes     *)
(* them and writes the client's SSE stream (api/routers/query.py).  The    *)
(* graph may be any number of events ahead of the generator.               *)
(*                                                                         *)
(* A chat model's reply is the sequence of token classes it streams and    *)
(* the verdict the node reaches on it.  Text is abstracted to words that   *)
(* say what they are part of; AnswerExtractor has the characters.          *)
(***************************************************************************)
EXTENDS Integers, Sequences, SequencesExt, AccessControl

CONSTANT MaxText   \* bound on the text tokens of a reply

ASSUME MaxTextAssumption == MaxText \in Nat \ {0}

VARIABLES phase,       \* the request's life, as in StreamLifecycle
          auth_enabled, authorization,   \* the setting and the request's header
          status,      \* the HTTP status, once there is one
          index,       \* the search index: "up", "down" or "unset" (no endpoint)
          openai,      \* whether the chat model can be constructed
          task,        \* the node the graph is at, or how it stopped
          call,        \* the chat model call the node awaits
          sub_tasks, retrieved_chunks, answer, citations,   \* AgentState
          step_log,    \* trace.step_log
          searched,    \* whether the index was queried
          reply,       \* the synthesizer's reply, to compare the stream with
          events,      \* emitted by the graph, not yet consumed
          extractor,   \* state of _JsonAnswerExtractor
          answer_parts,
          held,        \* citations and chunks captured from on_chain_end
          wire,        \* what the client has received
          record       \* what session_store.set was given

config == <<auth_enabled, authorization, index, openai>>
request == <<status, config>>
agent_state == <<sub_tasks, retrieved_chunks, answer, citations, step_log>>
graph == <<task, call, agent_state, searched, reply>>
generator == <<extractor, answer_parts, held, wire, record>>
vars == <<phase, request, graph, events, generator>>

Nodes == {"planner", "retriever", "synthesizer"}
Stopped == {"unstarted", "ended", "raised", "cancelled"}

-------------------------------------------------------------------------------
(* The replies of the chat model. *)

Open == [class |-> "open"]        \* the marker and the value's opening quote
Close == [class |-> "close"]      \* the value's closing quote
Other == [class |-> "other"]      \* the rest of the JSON, or anything else
Text(w, n) == [class |-> "text", word |-> <<w, n>>]

Texts(w, n) == [i \in 1..n |-> Text(w, i)]

(* A reply that breaks off inside the value, and one that does not. *)
Begun(w, n) == <<Open>> \o Texts(w, n)
Whole(w, n) == Begun(w, n) \o <<Close, Other>>

(* The outcome is what the node's code makes of the parsed reply: an       *)
(* answer it takes, no answer (INSUFFICIENT_CONTEXT, "", null), a value    *)
(* without a length (a number), or an exception raised inside its try.     *)
Reply(tokens, outcome) == [tokens |-> tokens, outcome |-> outcome]

SynthesizerReplies ==
  LET n == 1..MaxText IN
     {Reply(Whole("answer", i), "answer") : i \in n}
  \cup {Reply(Begun("answer", i), "answer") : i \in n}      \* max_tokens reached
  \cup {Reply(Begun("answer", i), "raises") : i \in n}      \* connection lost
  \cup {Reply(Whole("answer", i), "raises") : i \in n}      \* ... once the value is whole
  \cup {Reply(Whole("sentinel", 1), "none"),
        Reply(Whole("answer", 0), "none"),
        Reply(Whole("stray", 1), "none"),
        Reply(Whole("stray", 1), "number"),
        Reply(Whole("stray", 1), "answer"),   \* a list or an object
        Reply(<<Other>>, "answer"),         \* a blank before the colon
        Reply(<<Other>>, "raises"),         \* not JSON
        Reply(<< >>, "raises")}             \* refused, rate limited, unreachable

(* The planner's model may stream anything at all; only a list of strings  *)
(* is taken, and the empty list is one.                                    *)
PlannerReplies ==
  [tokens : {<< >>, Begun("plan", 1) \o <<Close>>},
   outcome : {"list", "empty", "raises", "unlisted"}]

NoCall == [tokens |-> << >>, outcome |-> "uncalled"]

(* Mutant: the closing quote is not recognised as the end. *)
feed_unclosed(state, token) ==
  CASE state = "SEEKING"  /\ token.class = "open"  -> <<"IN_VALUE", << >> >>
    [] state = "IN_VALUE" /\ token.class = "close" -> <<"CLOSED", << >> >>
    [] state = "IN_VALUE" /\ token.class = "text"  -> <<state, <<token.word>> >>
    [] OTHER                                       -> <<state, << >> >>

(* What _JsonAnswerExtractor.feed does with one token: <<state, words>>. *)
feed(state, token) ==
  CASE state = "SEEKING"  /\ token.class = "open"  -> <<"IN_VALUE", << >> >>
    [] state = "IN_VALUE" /\ token.class = "close" -> <<"DONE", << >> >>
    [] state = "IN_VALUE" /\ token.class = "text"  -> <<state, <<token.word>> >>
    [] OTHER                                       -> <<state, << >> >>

(* The members of I that are at most n, in ascending order. *)
Ascending(I, n) ==
  LET upto[k \in 0..n] == IF k = 0 THEN << >>
                          ELSE IF k \in I THEN Append(upto[k - 1], k) ELSE upto[k - 1]
  IN upto[n]

(* The words a reply's text consists of. *)
Words(tokens) ==
  LET texts == Ascending({i \in DOMAIN tokens : tokens[i].class = "text"}, Len(tokens))
  IN [i \in DOMAIN texts |-> tokens[texts[i]].word]

-------------------------------------------------------------------------------
Unsent == 0
NoAnswer == ""

Init ==
  /\ phase = "idle"
  /\ auth_enabled \in BOOLEAN /\ authorization \in Authorization
  /\ status = Unsent
  /\ index \in {"up", "down", "unset"}
  /\ openai \in {"configured", "misconfigured"}
  /\ task = "unstarted"
  /\ call = NoCall
  /\ sub_tasks = 0 /\ retrieved_chunks = 0 /\ answer = NoAnswer /\ citations = 0
  /\ step_log = << >>
  /\ searched = FALSE
  /\ reply = NoCall
  /\ events = << >>
  /\ extractor = "SEEKING"
  /\ answer_parts = << >>
  /\ held = [citations |-> 0, retrieved_chunks |-> 0]
  /\ wire = << >>
  /\ record = << >>

TypeOK ==
  /\ phase \in {"idle", "streaming", "answered", "saved", "failed", "cut"}
  /\ status \in {Unsent, 200, 401, 403}
  /\ task \in Nodes \cup Stopped
  /\ sub_tasks \in 0..1 /\ retrieved_chunks \in 0..1 /\ citations \in 0..1
  /\ answer \in {NoAnswer, "refusal", "accepted"}
  /\ searched \in BOOLEAN
  /\ extractor \in {"SEEKING", "IN_VALUE", "DONE"}
  /\ Len(step_log) <= 3
  /\ \A i \in DOMAIN wire : wire[i].type \in {"token", "done", "error"}
  /\ Len(record) <= 1

(* Depends(require_capability("query")). *)
Admission == require_capability("query", auth_enabled, authorization)

query_refused ==
  /\ status = Unsent /\ Admission # 200
  /\ status' = Admission
  /\ UNCHANGED <<phase, config, graph, events, generator>>

(* query: create_initial_state and the StreamingResponse. *)
query ==
  /\ status = Unsent /\ Admission = 200
  /\ status' = 200
  /\ phase' = "streaming"
  /\ task' = "planner"
  /\ UNCHANGED <<config, call, agent_state, searched, reply, events, generator>>

-------------------------------------------------------------------------------
(* The graph. *)

Idling == call = NoCall

(* Mutant: the failure is swallowed and the node tried again. *)
raise_and_retry ==
  /\ task' = task
  /\ call' = NoCall
  /\ UNCHANGED <<phase, request, agent_state, searched, reply, events, generator>>

raise ==
  /\ task' = "raised"
  /\ call' = NoCall
  /\ UNCHANGED <<phase, request, agent_state, searched, reply, events, generator>>

(* Mutant: a node starts a new step_log. *)
Replaced(entry) == <<entry>>

Logged(entry) == Append(step_log, entry)

StepRecord(node, tools) == [node_name |-> node, tool_calls |-> tools]

(* planner_node up to its await: _build_chain is outside the try. *)
planner_calls ==
  /\ task = "planner" /\ Idling
  /\ \/ openai = "misconfigured" /\ raise
     \/ /\ openai = "configured"
        /\ call' \in PlannerReplies
        /\ UNCHANGED <<phase, request, task, agent_state, searched, reply, events, generator>>

(* A token of the awaited call becomes an on_chat_model_stream event. *)
model_streams ==
  /\ task \in Nodes
  /\ call.tokens # << >>
  /\ call' = [call EXCEPT !.tokens = Tail(@)]
  /\ events' = Append(events, [type |-> "token", node |-> task, chunk |-> Head(call.tokens)])
  /\ UNCHANGED <<phase, request, task, agent_state, searched, reply, generator>>

Returned == call # NoCall /\ call.tokens = << >>

(* planner_node after its await: any failure falls back to [query]. *)
planner_returns ==
  /\ task = "planner" /\ Returned
  /\ step_log' = Logged(StepRecord("Planner", << >>))
  /\ sub_tasks' = IF call.outcome = "empty" THEN 0 ELSE 1
  /\ task' = "retriever"
  /\ call' = NoCall
  /\ UNCHANGED <<phase, request, retrieved_chunks, answer, citations, searched, reply, events, generator>>

(* retriever_node: no endpoint or no sub-task, no search; a tool that is   *)
(* not in the manifest, and a search that fails, raise through the node.   *)
Searches == index # "unset" /\ sub_tasks > 0

Retrieves ==
  /\ check_capability("Retriever", "ai_search_read")
  /\ Searches => index = "up"

retriever_fails ==
  /\ task = "retriever"
  /\ ~Retrieves
  /\ raise

retriever_returns ==
  /\ task = "retriever"
  /\ Retrieves
  /\ searched' = Searches
  /\ retrieved_chunks' \in (IF Searches THEN 0..1 ELSE {0})
  /\ step_log' = Logged(StepRecord("Retriever", <<"ai_search_read">>))
  /\ task' = "synthesizer"
  /\ UNCHANGED <<phase, request, call, sub_tasks, answer, citations, reply, events, generator>>

(* synthesizer_node up to its await. *)
synthesizer_calls ==
  /\ task = "synthesizer" /\ Idling
  /\ retrieved_chunks > 0
  /\ reply' \in SynthesizerReplies
  /\ call' = reply'
  /\ UNCHANGED <<phase, request, task, agent_state, searched, events, generator>>

(* ... and its end: the record, the two fields, the on_chain_end event. *)
synthesizer_ends(a, c) ==
  /\ step_log' = Logged(StepRecord("Synthesizer", << >>))
  /\ answer' = a
  /\ citations' = c
  /\ events' = Append(events, [type |-> "end", citations |-> c,
                               retrieved_chunks |-> retrieved_chunks])
  /\ task' = "ended"
  /\ call' = NoCall
  /\ UNCHANGED <<phase, request, sub_tasks, retrieved_chunks, searched, reply, generator>>

(* Mutant: the refusal keeps the citations of the parsed reply. *)
synthesizer_refuses_citing ==
  /\ task = "synthesizer"
  /\ \/ Idling /\ retrieved_chunks = 0
     \/ Returned /\ call.outcome \in {"none", "raises"}
  /\ \E c \in 0..1 : synthesizer_ends("refusal", c)

synthesizer_refuses ==
  /\ task = "synthesizer"
  /\ \/ Idling /\ retrieved_chunks = 0
     \/ Returned /\ call.outcome \in {"none", "raises"}
  /\ synthesizer_ends("refusal", 0)

synthesizer_accepts ==
  /\ task = "synthesizer" /\ Returned
  /\ call.outcome = "answer"
  /\ \E c \in 0..1 : synthesizer_ends("accepted", c)

(* Mutant: the step is logged before the answer is measured. *)
synthesizer_fails_late ==
  /\ task = "synthesizer" /\ Returned
  /\ call.outcome = "number"
  /\ step_log' = Logged(StepRecord("Synthesizer", << >>))
  /\ task' = "raised"
  /\ call' = NoCall
  /\ UNCHANGED <<phase, request, sub_tasks, retrieved_chunks, answer, citations, searched, reply, events, generator>>

(* len(answer) in the StepRecord, after the try. *)
synthesizer_fails ==
  /\ task = "synthesizer" /\ Returned
  /\ call.outcome = "number"
  /\ raise

Graph ==
  \/ planner_calls \/ model_streams \/ planner_returns
  \/ retriever_fails \/ retriever_returns
  \/ synthesizer_calls \/ synthesizer_refuses \/ synthesizer_accepts \/ synthesizer_fails

(* Leaving astream_events cancels the task, at its next await. *)
graph_cancelled ==
  /\ phase = "cut" /\ task \in Nodes
  /\ task' = "cancelled"
  /\ call' = NoCall
  /\ UNCHANGED <<phase, request, agent_state, searched, reply, events, generator>>

-------------------------------------------------------------------------------
(* The generator, _stream_response. *)

Next_event == Head(events)

(* Mutant: the graph's end is taken for the end of its events. *)
NotDrained == TRUE

Drained == events = << >>

(* Mutant: the tokens of every node are extracted from. *)
ForAnyExtractor(event) == extractor # "DONE"

ForExtractor(event) == event.node = "synthesizer" /\ extractor # "DONE"

(* Mutant: the chunks are not captured. *)
CapturedCitations(event) == [citations |-> event.citations, retrieved_chunks |-> 0]

Captured(event) ==
  [citations |-> event.citations, retrieved_chunks |-> event.retrieved_chunks]

consume_token ==
  /\ phase = "streaming" /\ events # << >>
  /\ Next_event.type = "token"
  /\ events' = Tail(events)
  /\ IF ForExtractor(Next_event)
     THEN LET fed == feed(extractor, Next_event.chunk) IN
          /\ extractor' = fed[1]
          /\ answer_parts' = answer_parts \o fed[2]
          /\ wire' = wire \o [i \in DOMAIN fed[2] |-> [type |-> "token", content |-> fed[2][i]]]
     ELSE UNCHANGED <<extractor, answer_parts, wire>>
  /\ UNCHANGED <<phase, request, graph, held, record>>

consume_end ==
  /\ phase = "streaming" /\ events # << >>
  /\ Next_event.type = "end"
  /\ events' = Tail(events)
  /\ held' = Captured(Next_event)
  /\ UNCHANGED <<phase, request, graph, extractor, answer_parts, wire, record>>

send_done ==
  /\ phase = "streaming" /\ Drained /\ task = "ended"
  /\ phase' = "answered"
  /\ wire' = Append(wire, [type |-> "done", citations |-> held.citations])
  /\ UNCHANGED <<request, graph, events, extractor, answer_parts, held, record>>

save ==
  /\ phase = "answered"
  /\ phase' = "saved"
  /\ record' = <<[answer |-> answer_parts, chunks |-> held.retrieved_chunks]>>
  /\ UNCHANGED <<request, graph, events, extractor, answer_parts, held, wire>>

(* Mutant: the exception ends the stream without an event. *)
send_nothing == FALSE

(* The task's exception reaches the generator after the task's events. *)
send_error ==
  /\ phase = "streaming" /\ Drained /\ task = "raised"
  /\ phase' = "failed"
  /\ wire' = Append(wire, [type |-> "error"])
  /\ UNCHANGED <<request, graph, events, extractor, answer_parts, held, record>>

Generator == consume_token \/ consume_end \/ send_done \/ send_error

disconnect ==
  /\ phase \in {"streaming", "answered"}
  /\ phase' = "cut"
  /\ UNCHANGED <<request, graph, events, generator>>

Next == query \/ query_refused \/ Graph \/ graph_cancelled \/ Generator \/ save \/ disconnect

Spec == Init /\ [][Next]_vars

(* The event loop runs every ready task, and every library call returns or *)
(* raises in the end.  Nothing makes a client ask or go away.              *)
Fairness ==
  /\ WF_vars(Graph) /\ WF_vars(graph_cancelled)
  /\ WF_vars(Generator) /\ WF_vars(save)

FairSpec == Spec /\ Fairness

-------------------------------------------------------------------------------
(* Correctness. *)

Sent(type) == \E i \in DOMAIN wire : wire[i].type = type

Shown ==
  LET tokens == Ascending({i \in DOMAIN wire : wire[i].type = "token"}, Len(wire))
  IN [i \in DOMAIN tokens |-> wire[tokens[i]].content]

FullTrace == <<"Planner", "Retriever", "Synthesizer">>

Traced == [i \in DOMAIN step_log |-> step_log[i].node_name]

(* A stream goes to those whom setting and header entitle to it and to     *)
(* nobody else, a refused request sets nothing in motion, and no step      *)
(* names a tool that is not in its node's manifest (auth.py:28-54,         *)
(* rbac.py:34-49, query.py:124, manifests.py:68-78).                       *)
WorkIsEntitled ==
  LET entitled == auth_enabled => authorization = "bearer" IN
  /\ status = 200 => entitled
  /\ status \in {401, 403} => ~entitled
  /\ status # 200 => phase = "idle" /\ task = "unstarted" /\ wire = << >> /\ record = << >>
  /\ \A i \in DOMAIN step_log :
       Range(step_log[i].tool_calls) \subseteq Manifest[step_log[i].node_name]

(* At every moment the client has been shown a prefix of the text of the   *)
(* synthesizer's reply, in order, and nothing of the planner's             *)
(* (query.py:177-189), however far ahead the graph is.                     *)
ShownIsPrefixOfReply == IsPrefix(Shown, Words(reply.tokens))

(* The done event means the whole run is behind it: every node has logged  *)
(* its step, in order, all of the reply's text was delivered before it,    *)
(* the citations it carries are those of the final state, and nothing      *)
(* follows it (query.py:177-208, state.py:10).                             *)
DoneIsComplete ==
  Sent("done") =>
    /\ Traced = FullTrace
    /\ Shown = Words(reply.tokens)
    /\ Last(wire) = [type |-> "done", citations |-> citations]
    /\ ~Sent("error")

(* The error event means the run stopped early: nothing was accepted or    *)
(* remembered and the trace ends before the node that raised, and nothing  *)
(* follows it (query.py:218-219).                                          *)
ErrorIsPartial ==
  Sent("error") =>
    /\ Traced # FullTrace /\ IsPrefix(Traced, FullTrace)
    /\ answer = NoAnswer /\ record = << >>
    /\ Last(wire).type = "error"

(* Citations go out only with an accepted answer over retrieved evidence   *)
(* (synthesizer.py:110-111, 165-171).                                      *)
CitationsNeedEvidence ==
  \A i \in DOMAIN wire :
    (wire[i].type = "done" /\ wire[i].citations > 0) =>
      searched /\ retrieved_chunks > 0 /\ answer = "accepted"

(* What the session remembers is what the client was shown before its done *)
(* event, with the evidence of that same run (query.py:203, 211-216).      *)
RecordIsWhatWasShown ==
  record # << >> =>
    /\ Sent("done")
    /\ record[1] = [answer |-> Shown, chunks |-> retrieved_chunks]

(* Nodes append to the trace and never replace it (state.py:100), one      *)
(* record a step, and none once the graph has stopped.                     *)
TraceOnlyGrows ==
  [][/\ IsPrefix(step_log, step_log')
     /\ Len(step_log') <= Len(step_log) + 1
     /\ (task \in Stopped => step_log' = step_log)]_vars

Lifecycle == INSTANCE StreamLifecycle

(* Seen from outside the graph, the events and the extractor are the life  *)
(* of StreamLifecycle: a client that stays gets its done or error event,   *)
(* and an answered request is saved (query.py:176-219).                    *)
ImplementsLifecycle == Lifecycle!FairSpec

(* A graph that was started stops, also when nobody listens any more. *)
GraphStops == (task \in Nodes) ~> (task \in Stopped)

-------------------------------------------------------------------------------
(* What the documents say and the code does not do. *)

(* The refusal is delivered over SSE (docs/qa-review.md:520). *)
RefusalIsDelivered == (Sent("done") /\ answer = "refusal") => Sent("token")

===============================================================================
