# aiPolaris in TLA+

aiPolaris answers questions over an organisation's documents. A FastAPI
service accepts `POST /query`, runs a LangGraph graph of three nodes (planner,
retriever, synthesizer) and streams the synthesizer's answer to the client as
server-sent events; an in-memory store remembers one exchange per session as
context for the next question. Around it are a document chunker, prompt-lock,
eval and release scripts, and a Terraform/Actions deployment.

This directory holds TLA+ modules of the core of that program, TLC
configurations that check them on small instances, and TLAPS proofs of what
matters most for every instance.

- [Inventory](#inventory)
- [How the program executes](#how-the-program-executes)
- [Modules](#modules)
- [Runs, bounds, and what they show](#runs-bounds-and-what-they-show)
- [Fairness](#fairness)
- [Proofs](#proofs)
- [Where the documents and the code differ](#where-the-documents-and-the-code-differ)
- [What is not modelled](#what-is-not-modelled)
- [Plan](#plan)

To repeat a check: `tlc -workers 4 -config MCQueryService.cfg MCQueryService.tla`,
`tlapm QueryServiceProofs.tla`.

## Inventory

| Component | State | Operations | What is hard | What makes it correct |
|---|---|---|---|---|
| **Session store** `agent/memory/session.py` | a dict session id → (query, answer, chunks, created_at, last_accessed) | `get`, `set`, `clear`, `_purge_expired` | expiry is lazy, sliding and strict; no lock | it behaves as one register per session that forgets after TTL idle; purging is unobservable |
| **Query service** `api/routers/query.py` `query` and the end of `_stream_response` | the module-level `session_store` of each replica; requests in flight | accept (read context), done, save, error, cancellation; restart, replicas | the read is at the start and the write after the last event, with other requests, expiry, restarts in between | context is that of the right session, never of an unfinished request, and what the access history calls for |
| **Query stream** `_stream_response` | extractor, `answer_parts`, captured citations and chunks | consume an event, done, save, error | the graph runs ahead; cancellation at every yield; exceptions arrive behind queued events | what is shown is a prefix of the reply; done means complete; what is remembered is what was shown; the stream ends |
| **Agent graph** `agent/graph.py`, `agent/state.py`, `agent/nodes/*` | `AgentState`, the shared `TraceContext.step_log` | planner, retriever, synthesizer, each with an await, fallbacks, exceptions | two chat models in one event stream; failure after part of an answer was streamed; a value of the wrong type | the trace is append-only and complete when done; refusals carry no citations |
| **Answer extractor** `_JsonAnswerExtractor` | state, rolling buffer, escape flag, `done` | `feed` | marker, escape, quote split anywhere between chunks | the output does not depend on the division into chunks |
| **Search results** `_search_index` | `all_chunks`, `seen_sources` | one search per sub-task, filter, deduplicate, sort, cut | order of the steps; a hit is judged by its raw score and ordered by the rounded one | best representatives of the sources, none below the threshold; empty only without evidence |
| **Chunker** `pipeline/chunking/strategy.py` | window start, chunks, next index | one window per turn | boundary search that must not stop progress; merges | nothing lost, only the overlap repeated, lengths bounded by what is merged, it returns |
| **Authentication, RBAC** `api/middleware/` | none (claims per request) | validate, check capability | enabled/disabled, role unions | a route is reached by whom setting and header entitle, and by nobody else; a refused request does nothing |
| **Tool manifests** `agent/tools/manifests.py` | constants | `check_capability` | – | no node calls a tool it does not list |
| **Ingestion, Graph connector** `api/routers/ingest.py`, `pipeline/connectors/` | none: stubs | – | – | – |
| **Prompt integrity** `scripts/check_prompts.py`, `update_prompts_lock.py` | prompt files, `prompts.lock` | edit, lock, check | a missing lock is created by the check | no unlocked prompt gets past the check |
| **Release record** `scripts/generate_release_record.py` | record files | generate | which commit it describes and which it sits on, main may have moved | it tells the truth of the commit |
| **Eval harness and gate** `eval/run_eval.py`, `scripts/check_eval_thresholds.py` | results files | run, summarise, gate | errors count as refusals; runs overlap or are killed, files are written in two steps; "the latest" is that of a directory that holds others | a gate passes only on a whole run that served its questions, never on an older one |
| **Workflows, Terraform, Docker** `.github/workflows/`, `infra/terraform/`, `Dockerfile` | commits, jobs, revisions, replicas | CI, deploy, record, release | jobs that race over main; 0 to 3 replicas without affinity | what is deployed is what was tested |
| **Health, schemas, settings, wiring** `api/` | none | – | – | – |

How they interact: `query` calls `session_store.get`, builds the `AgentState`
and hands the generator `_stream_response` to the server. The generator drives
`graph.astream_events`; the nodes write the state and the shared trace, the
chat models' tokens and the end of the synthesizer reach the generator as
events. The generator feeds the synthesizer's tokens to the extractor, yields
its output, and after the `done` event calls `session_store.set`. The next
request of that session reads what was set.

The hazards of the program, each at the line where it bites and with the
properties that watch it, are listed in `PROJECT.json`.

## How the program executes

What the modules take for an atomic step follows from how the code runs:

- One process is one asyncio event loop. A stretch of code without `await` or
  `yield` is one step. The body of `query` up to its `StreamingResponse` has
  neither: reading the context and opening the stream are one step. The store's
  methods never await, so each is one step.
- `graph.astream_events` runs the graph as a task of its own and passes its
  events through an ordered queue. The graph may be any number of events ahead
  of the generator. An exception of the graph reaches the generator after the
  events queued before it.
- A client that goes away makes the server cancel the generator at the `yield`
  or `await` where it is. `CancelledError` and `GeneratorExit` are not
  `Exception`s, so the `except` clause of `_stream_response` does not see them:
  no error event, no `session_store.set`. This may also happen at the `yield`
  of the `done` event. Leaving `astream_events` cancels the graph's task.
- Whether a request is admitted is decided by the dependency of its route,
  before the body of `query` runs.
- `time.time()` is the wall clock, which may be set back; the eval scripts use
  its seconds for names and the file system's modification times for order.
- `JsonOutputParser` completes a truncated JSON text, so a reply cut off by
  `max_tokens` can still be accepted.
- A library call returns or raises in the end: the HTTP clients of the model and
  search libraries time out by default, and the code does not turn that off.

## Modules

| Module | Models | Correspondence |
|---|---|---|
| `SessionEntries` | the dict and the effect of each store method, as pure operators | a dict is a total function to an entry or `NoEntry`. `created_at` is never read and `session_id` repeats the key: left out. Shared by the two modules below, so that store and service cannot drift apart |
| `SessionStore` | `InMemorySessionStore` alone | `store` is `_store`, `now` is `time.time()`, `reply` what the last `get` returned; one action per method |
| `StoreThreads` | `InMemorySessionStore` under several threads | a step is a stretch between two points where the interpreter (3.12) may switch threads: after a call, at the turn of a loop. Entries are objects a thread keeps after its lookup; `thread` holds each call's local variables |
| `SessionMemory` | what the store promises | per session: what it remembers, and for how long it has been idle; no dict, clock or purge |
| `StreamLifecycle` | the life of a request seen from outside | idle → streaming → answered → saved, or failed, or cut. Both modules below implement it |
| `QueryService` | many requests against the stores of several replicas | `query` is the route body, `send_done`/`save`/`send_error` the end of the generator, `disconnect` the cancellation, `restart` a crash, deployment or scale to zero (of a replica that has something to lose; any other restart changes nothing), `clock_changes` the wall clock going forward or being set back. What a request saves is identified with the request; `log` is a history variable |
| `AccessControl` | who may query, and which tool a node may use | pure operators: the claims for each `Authorization` header with authentication on and off, the capabilities of roles, the node manifests |
| `QueryStream` | one request in full: admission, graph, event queue, generator | one action per stretch between awaits. `task` is the node the graph is at, `call` the model call it awaits, `events` the queue, `wire` what the client received, `record` what `session_store.set` was given |
| `AnswerExtractor` | `_JsonAnswerExtractor.feed` | character by character over five characters: quote, colon, backslash, a letter with an escape meaning, and one symbol for the marker's letters. `_MARKER` is `"answer":`, here quote, key, quote, colon, so that it starts with a quote and holds a second one, as in the code. The reference says which positions of the whole value are backslashes that escape, which close it and which are shown |
| `SearchIndex` | `_search_index` | one action per hit and per search, the hits of a search in any order. A hit is a source and a raw score, in units of which `PER_PLACE` make a fourth decimal place; a chunk has the score rounded to that place (half to even). The filter reads the raw score, the sort the rounded one. The stable sort is the one arrangement of the chunks by score in which equal ones keep their order |
| `Chunker` | `chunk_document` | one action per window. A chunk keeps the spans of the document it was made of, so that loss and overlap can be stated |
| `ReleasePipeline` | what a push to main starts: CI with the prompt check, deployment, release record, tag | a commit is its place on `main`; `runs[i]` are the workflow runs of the push of commit `i`, `app` the commit the container app runs. Steps of different runs interleave freely: no workflow has a concurrency group. Branch protection is not part of the repository, so any commit may be pushed |
| `EvalGate` | `run_eval.py` and the gate after it | `runs` are invocations, each asking all questions at a time; `files` is `eval/results` in the order of modification times, at first the results files of the repository in the order a checkout happened to write them. CI makes one run in its checkout; several share only a developer's directory. `open_file` and `dump` are the two halves of `write_results`, `killed` a cancelled job. A run_id is a second, so two runs may share one and write into each other's file. Latencies lie on a scale with the limit on it, rates are thousandths as in the file |
| `MC…` | the constants of the runs | |
| `SessionStoreProofs`, `QueryServiceProofs`, `QueryStreamProofs`, `AnswerExtractorProofs`, `SearchIndexProofs`, `ChunkerProofs`, `EvalGateProofs`, `ReleasePipelineProofs` | theorems | each about the module of its name |

`SessionMemory` and `StreamLifecycle` are the abstract specifications:
`SessionStore` implements the first, `QueryStream` and every request of
`QueryService` implement the second. That the two share `StreamLifecycle` is
what joins them: `QueryService` treats a request as a life cycle with a
context at its start and an exchange at its end, `QueryStream` shows that graph
and generator produce that life cycle and says what the exchange contains.
In the same way `QueryStream` treats the extractor as a machine over token
classes (what opens the value, what is text of it, what closes it);
`AnswerExtractor` shows that the characters' division into tokens is
irrelevant.

A definition whose comment starts with "Mutant:" is a deliberately wrong
version of the next one. `PROJECT.json` says which property notices it: that
is how each property is shown to depend on the code it is about.

### The replies of the chat models

`QueryStream` enumerates what a reply can be for the code: the classes of the
tokens it streams, and the verdict of the node. The synthesizer's model may
give an answer of any length up to `MaxText`, stop in the middle of one or right
behind it (which the parser completes, or which raises because the connection is
lost), say `INSUFFICIENT_CONTEXT`, give an empty, `null` or numeric answer, or a
list or an object (which has a length and is taken), put a blank
before the colon (so that the extractor finds no marker but the parser finds an
answer), reply with no JSON at all, or fail before the first token. The
planner's model may stream anything and give a list, an empty list, no list, or
raise; its text may look like an answer and must not be taken for one.

## Runs, bounds, and what they show

Runs that pass:

| Run | Checks | Bounds, and why they are enough |
|---|---|---|
| `session_store` | `Refinement`: the store implements `SessionMemory` | two sessions and two exchanges: one session could answer for another, or for an older exchange. TTL 2, clock to 6: idle for less than, exactly and more than TTL, and a renewal followed by a second full idle time |
| `query_service` | `ContextComesFromOwnSession`, `NewSessionIsBlank`, `ContextMatchesHistory`, `EachLivesItsLife` | three requests: two that save in either order and one that reads; two sessions and replicas; one restart; TTL 0 and a clock of two readings that may be set back any number of times: a use may be followed by another at the same time (kept, exactly the TTL), later (expired) or earlier (kept, and again at the earlier time). Renewals over several ticks are in `session_store`. 1.8 million states under symmetry |
| `query_stream` | `WorkIsEntitled`, `ShownIsPrefixOfReply`, `DoneIsComplete`, `ErrorIsPartial`, `CitationsNeedEvidence`, `RecordIsWhatWasShown`, `TraceOnlyGrows`, `ImplementsLifecycle`, `GraphStops` | one request, replies of up to three text tokens: a first, a middle and a last. The queue is unbounded, so the graph gets ahead by the whole reply. Every combination of authentication setting, header, index and model configuration is an initial state |
| `answer_extractor` | `ChunkingIsInvisible` | all texts of up to eight characters in all divisions into chunks of up to three: a marker of four, a quote, an escape of two and a closing quote fit, and a marker can be split over two or more chunks at each place |
| `search_index` | `ResultIsBestRepresentatives`, `EmptyOnlyWithoutEvidence` | three searches of up to two hits, in any order, over three documents. With ten units to a place and the threshold at six places, the four scores are one that is below and rounds to the threshold, the threshold, a tie that rounds down to it, and the next place: more survivors than the cut allows, chunks that become equal, and a source that is first weak and later strong. 1.9 million states |
| `chunker` | `NothingIsLost`, `OnlyOverlapIsRepeated`, `LengthsAreBounded`, `WindowsAdvanceAndOverlap`, `Returns` | against windows of five, all documents of up to eight characters over letter, stop and blank, and all of up to seven pairs of them that are a word, a sentence end, space or a word's start: up to four windows, sentence ends at every place, blank and short windows first, in the middle, last and two in a row |
| `release_pipeline` | `NoSilentDrift`, `RecordsTellTheTruth`, `OnlyOvertakenLoseTheirRecord`, `DeployedIsNotBehind`, `TagsAreStable` | two pushes onto a released commit: enough for one push to overtake the CI, record, deployment and tag of the other at each step. Two prompts that can be edited, added and removed, so that one can go while the other stays (with none left the check is skipped); two versions, so that both pushes can raise the same one |
| `eval_gate` | `PassMeansServed`, `VerdictIsNotStale` | two runs, which may overlap in every way, end in the same second or be killed at every step, beside the two files of the repository in either order; three questions, one to be refused, each answered, refused or raising, in time or late. With a limit of 333 thousandths one refusal of three is exactly the limit and two are above. 5.3 million states under symmetry |

`TypeOK` is checked in each module once (in `AnswerExtractor` it also bounds
the rolling buffer).

What the properties mean:

- `ContextMatchesHistory` is the exact specification of what a request is
  given: over the log of all reads, writes and restarts, the last exchange
  written for that session on that replica since it started, provided that no
  gap between two uses exceeded TTL. Last-writer-wins, sliding expiry, loss on
  restart and separation of the replicas all follow from it, also when the
  clock is set back between two uses. It is stated
  without the dict, so that an error in the lazy expiry would show.
- `ContextComesFromOwnSession`: a context comes from a request that ran to
  completion, on the same replica, under the same session id.
- `EachLivesItsLife`, `ImplementsLifecycle`: no step takes two turns of a
  request and an ended one is not reopened; `ImplementsLifecycle` adds that a
  client that stays gets a done or an error event, and that an answered request
  is saved or cut.
- `WorkIsEntitled`: a stream goes to every caller whom the setting and the
  header entitle and to no other, a refused request starts no task, sends and
  saves nothing, and no trace names a tool outside its node's manifest.
- `DoneIsComplete`: after a done event every node has logged its step in order,
  all text of the reply was delivered, the citations are those of the final
  state, nothing follows.
- `ErrorIsPartial`: an error event means that nothing was accepted or
  remembered and the trace stops before the node that raised. The reply that
  makes this hard is an answer that is a number: `len` of it raises after the
  model call and outside the `try`.
- `RecordIsWhatWasShown`: what the session remembers is what the client was
  shown (which for an accepted but unextractable reply is the empty string,
  and for a broken connection half an answer), with the chunks of that run.
- `NoSilentDrift`: if two builds passed, with prompts and a lock, and a prompt
  differs, the lock differs: a reviewer who watches the lock sees every change.
- `RecordsTellTheTruth`, `OnlyOvertakenLoseTheirRecord`: a release record sits
  directly on the commit it names, holds the hashes of that commit's prompts if
  CI passed it, and its push fails only if another push came first. This is what
  git's refusal of a push that is no fast-forward buys; a rebase in the workflow
  would break it. A run that fails before the push leaves no record either: the
  properties are about the push.
- `DeployedIsNotBehind`: what is deployed contains a commit that passed CI. That
  it need not be the commit that passed is in the model: `built` is the head of
  main when CI ends.
- `ResultIsBestRepresentatives` compares the incremental filter, stable sort
  and cut with a definition by rank over all hits at once. Who is represented is
  decided by raw scores, the rank by rounded ones, as in the code. That a source
  is represented by its first hit that passes, not by its best, is part of this
  definition; `strongest_not_returned` shows what it costs.
- `OnlyOverlapIsRepeated`, `LengthsAreBounded`: what a merge may do to a chunk.
  The first says that the texts go forward through the document and repeat only
  the overlap, the second that a chunk exceeds the target only by less than the
  minimum and a space for each window merged into it.
- `PassMeansServed`: whatever file the gate found, and however it was written,
  a pass means that it holds a whole run in which no more than the limit of all
  questions wanted an answer and got none, exceptions included, and (for up to
  twenty questions, as in the smoke set) none was late.
- `VerdictIsNotStale`: a gate never judges results of the repository or of a run
  that had ended before its own began. It may judge another run's file if the two
  overlapped.

Runs that find a disagreement (each checks one property and TLC shows a
behaviour that breaks it): see
[Where the documents and the code differ](#where-the-documents-and-the-code-differ).

`CHECK_DEADLOCK FALSE` is set where the system really comes to rest: every
request has ended, the text or the document is at its end, the bound on the
clock is reached. In `SessionStore` a call is always possible, and deadlock
is checked.

Bounds that are not the program's: `MaxTime` (clock), `MaxRestarts`, `MaxText`,
`MaxLength`, `MaxChunk`, the set of `Documents`, `SubTasks`, `MaxPushes`,
`MaxVersion`, `MaxClock` (`EvalGate`), `MaxEntries` (`StoreThreads`). `NCommitted`
is the program's: the repository has two results files. The sizes of `Chunker` are small (5, 1, 2 for target, overlap and
minimum, in the order of the code's 2048, 204, 400).

## Fairness

- Nothing obliges a client to ask or to leave, or a replica to restart: no
  fairness on `query`, `disconnect`, `restart`.
- `QueryStream`: weak fairness of the graph's steps, of the cancellation of an
  abandoned graph, of the generator's and of `save`. A ready task is run by
  the event loop, and every awaited library call returns or raises. The
  generator depends on the client reading its stream; one that does not read is
  in the end disconnected, which is `disconnect`.
- `QueryService`, `EvalGate`, `ReleasePipeline`, `SessionStore` and
  `StoreThreads` state none: only safety is checked of them. That each request
  of `QueryService` ends is what `query_stream` shows of one.
- `Chunker`: weak fairness of the loop's turn: a sequential function keeps
  running.

## Proofs

All are checked by `tlapm`; none assumes more of the constants than the
`ASSUME`s of the modules: TTL and the bounds are naturals and the values that
stand for absence (`NoContext`, `NoEntry`, `NoSession`, `NoReplica`) differ
from those that stand for something; the chunker's sizes are in the order of
the code's, overlap < minimum < target; the gate's limit lies on the scale of
latencies, there is a question to ask and the names of committed results are
past; a place has at least one unit of a score. Sets need not be finite, except that
of the questions, over which the harness takes a share.

| Theorem | Says |
|---|---|
| `SessionStoreProofs!TypeCorrect` | the store's type invariant |
| `SessionStoreProofs!StoreImplementsMemory` | the store implements `SessionMemory`, for all sets of sessions and exchanges and every TTL |
| `QueryServiceProofs!TypeCorrect` | the service's type invariant |
| `QueryServiceProofs!NoLeak` | `ContextComesFromOwnSession`, for any number of requests, sessions, replicas, restarts |
| `QueryServiceProofs!BlankStart` | `NewSessionIsBlank` |
| `QueryServiceProofs!LivesItsLife` | `EachLivesItsLife`: every request implements `StreamLifecycle` without its fairness |
| `QueryServiceProofs!ContextsMatch` | `ContextMatchesHistory`, for histories of any length, every TTL and a clock that may be set back |
| `QueryStreamProofs!TypeCorrect`, `OnlyEntitledWork`, `ShownInOrder`, `DoneAfterAll`, `ErrorLeavesNothing`, `CitationsHaveEvidence`, `RecordsWhatWasShown` | the seven invariants of `query_stream`, in its order, for replies of any length |
| `QueryStreamProofs!TraceGrowsOnly` | `TraceOnlyGrows` |
| `QueryStreamProofs!StreamRefinesLifecycle` | graph, queue, extractor and generator implement `StreamLifecycle` without its fairness |
| `AnswerExtractorProofs!TypeCorrect`, `ChunksDoNotMatter` | the two invariants of `answer_extractor`, for texts and chunks of any length |
| `SearchIndexProofs!TypeCorrect`, `BestAreReturned`, `EmptyMeansNoEvidence` | the three invariants of `search_index`, for any number of sub-tasks, hits and sources, any scores, threshold, precision of the rounding and `TOP_K` |
| `ChunkerProofs!TypeCorrect`, `NothingLost`, `OverlapOnly`, `LengthsBounded` | the invariants of `chunker`, for documents of any length and all sizes in the code's order |
| `ChunkerProofs!WindowsAdvance` | `WindowsAdvanceAndOverlap` |
| `EvalGateProofs!TypeCorrect`, `PassedMeansServed`, `NoStaleVerdict` | the invariants of `eval_gate`, for any number of questions, runs and committed files and any limits |
| `ReleasePipelineProofs!TypeCorrect`, `NoDrift`, `RecordsAreTrue`, `OnlyTheOvertaken`, `DeployedContainsPassed` | the invariants of `release_pipeline`, for any number of pushes, prompts and versions |
| `ReleasePipelineProofs!TagsNeverMove` | `TagsAreStable` |

**The store.** The refinement maps what a session remembers to what `get` would
find now, and its idle time to the age of a live entry. `TypeOK` alone does not
carry the proof: a tick makes the entries whose age is exactly TTL disappear,
and `SessionMemory` must do so at the same tick, for which ages must be
naturals. `Inv` therefore adds `ClockOK`: no entry was used in the future. With
it every method maps to its abstract operation, `purge_expired` and the
deletion inside `get` to stuttering, and `Tick` to `Age`.

**The service.** `ContextComesFromOwnSession` is not inductive: what a request
is given comes from the dict, and nothing in the property says what is in the
dict. `Inv` adds

- `EntriesWereSaved`: the entry of session `s` in the store of replica `p` is
  that of a request that is saved, ran under `s` and was served by `p`;
- `AcceptedAreServed`: an accepted request has a session and a replica, so a
  step of its own or a restart leaves those of others alone.

`save` establishes the first, `query` carries it from the dict to `seen`,
`restart` empties the dict without touching saved requests, and since saved
requests never change phase again it is never lost. `NewSessionIsBlank` uses it
too: an entry under a minted id would have to be of a request that was accepted
under it, and `Fresh` says that there is none.

`EachLivesItsLife` needs no more than the type of `phase`: each action changes
the phase of one request by one turn, and `restart` cuts those that run.

**The history.** `ContextMatchesHistory` relates each past context to the log;
to carry it over one more `get`, the dict must be related to the log as well.
`HistoryInv` adds to `Inv`

- `EntriesMatch`: a store holds an entry of a session exactly if the log makes
  an exchange *current* (it is the last one set, no restart follows, and no gap
  between two uses exceeds TTL), and then it is that exchange, with the time of
  the last use;
- `GetsMatch`: each `get` in the log gave its request what is current at it.

The lemmas about histories say what one more access does to what is current: a
`get` keeps it exactly if it comes within TTL of the last use, a `set` replaces
it, a restart ends it, and an access of another session or replica leaves it
alone. That an expired entry cannot become current again although the clock is
set back follows from `AfterGet` deleting it at the same step at which the gap
enters the log.

**The stream.** The properties of `QueryStream` speak of its ends, what was
sent and what was saved, and none of them is inductive: between a token's
leaving the model and its reaching the client it is in the queue, in the
extractor or on the wire. `StreamInv` is the conjunction of

- `TypeInv`: the types, and that the trace is in the nodes' order;
- `Progress`: what the graph has logged, called and found agrees with the node
  it is at;
- `Admitted`: who is not entitled has set nothing in motion;
- `Answered`, `Awaited`: what an accepted and what an awaited reply look like;
- `Stream`: where the reply is. Of its tokens the generator has consumed the
  first `c`; the queue holds `p` events of earlier nodes, then the next `k`
  tokens, then the synthesizer's end if it has ended; the state of the
  extractor is the one after `c` tokens, and the client was sent the texts among
  them and nothing else.

Each action of the graph moves `p` or `k` by one, each of the generator takes an
event and moves `c`. The reply may be as long as it likes, so the facts about
the text tokens in it are proved by looking at the least one that breaks them
(`LeastNat`, `SetInduction`). For
`StreamRefinesLifecycle` each action is a turn of the abstract phase or leaves
it alone.

**The extractor.** `ChunkingIsInvisible` compares the output with the text seen
whole, a step sees the buffer and the next chunk. `Inv` says what state and
buffer have kept of the text:

- `BeforeMarker`: no marker so far, and the buffer is the end of the text, one
  character less than the marker (or all of it). `TailSuffices` shows that then
  a marker of the longer text lies in buffer and chunk, and that what follows it
  and the next buffer are the same as for the whole text. With one character
  less kept this is false, and the run shows it;
- `BehindMarker`: the buffer is what follows the first marker, without a quote;
- `ValueSoFar`: state, escape flag and output are what the loop makes of the
  value so far (`IsValueOf`). The loop is a recursive function; the provers do
  not unfold one, but that it exists and does one character at a time
  (`LoopExists`, `AfterCharsIs`), and that it carries `IsValueOf` from the value
  so far to the value with the chunk (`LoopGoesOn`), goes by induction over a
  set of lengths.

The flag is right because of `EscapesAre`: a backslash escapes exactly if the
position before it does not, although the reference says so by the length of
the run it stands in. `FoundStays` and `ValueStartStays` say that what was found
in a text stays where it is when more arrives.

**The search.** `ResultIsBestRepresentatives` speaks of hits and ranks, the code
of a list. `Inv` adds

- `InLine`: the list holds the chunks of the sources' representatives, in the
  order in which their hits were read;
- `SeenPassed`, `FoundIfSeen`: a source counts as seen exactly if a hit of it
  passed; the list is empty exactly if none is;
- `InTurn`: searches are read one after the other, so that a new hit is behind
  all others.

That a sorted arrangement exists is shown by naming it: the place of a chunk is
the number of those that come before it and itself (`Position`), which is a
bijection because no two chunks stand alike. In any sorted arrangement the
chunks before one are those that are better (`RankIs`), so each representative
is at its rank, and what the cut keeps is the ranks up to `TOP_K`. Of the
rounding the proof needs no more than that it gives naturals.

**The chunker.** `NothingIsLost` and `OnlyOverlapIsRepeated` speak of all
windows, a step knows the next one only. `Inv` says of the window that begins
at `start`

- `Covered`: every solid character before it is in a chunk;
- `Latest`: the last span ends at most the overlap behind `start`, and begins
  behind `start` only if it begins with the first solid character from there:
  then the next window, which reaches at least as far, begins its span at the
  same place. This is why the texts go forward although `strip` moves their
  ends and windows overlap;
- `Ordered`, `Bounded`: the spans and lengths of the chunks there are.

`EmitCases` reduces a turn to its three effects (joined, added, dropped), and
`WindowEndIs` is where the sizes matter: a sentence end counts only from the
minimum on, which is more than the overlap, so every window that is not the
last ends behind the start of the next.

**The gate.** `PassMeansServed` is arithmetic: `RateBound` bounds what was
rounded, and `P95Is` shows that the p95 exists and that more than 95 of 100
questions took no longer. It needs that the file judged was written whole, or
is no JSON. For `VerdictIsNotStale`, `Inv` keeps

- `Preceded`: what was over when a run began is over still, and the run is not
  among it, so nobody of whom a run's start knew that it was over writes again;
- `Fresh`: when a run is about to be judged, the file modified last is its own
  or one of a run that was not over when it began.

`Asked`, that a run writes only when it has all results, is what the type of the
files needs.

**The pipeline.** `Inv` adds to the invariants that are inductive as they stand
`RecordsFollow` (a record is that of the commit right before it, whose run
pushed it), `PassedAreLocked` (CI passes only what matches its lock) and
`DeploymentsPassed` (a deployment was started by a run that passed, and builds
that commit or a later one). `RecordsTellTheTruth` follows from the first two.

Only model-checked is liveness (`Returns`, `GraphStops`, and the fairness part of
`ImplementsLifecycle`): the prover has no rule for it. Every invariant and every
other action property of the passing runs is a theorem; `LeastNat`,
`GreatestNat` and `SetInduction`, where a module needs them, stand for the
library's induction theorem, which the provers cannot instantiate.

## Where the documents and the code differ

| Run, property | The code | The document |
|---|---|---|
| `refusal_not_delivered`, `RefusalIsDelivered` | tokens come only from the model's stream; a refusal decided without a call streams none, so the client gets a done event and no text, and the session remembers an empty answer | `docs/qa-review.md:520`: the refusal is delivered over SSE |
| `store_threads`, `GetReturns` | lookup, comparison and deletion of `get` are three steps without a lock: when another thread removes the key in between, the deletion raises `KeyError`. The service makes all its calls from one event loop | `agent/memory/session.py:29`: "Thread-safe in-memory session store with TTL expiry" |
| `strongest_not_returned`, `StrongestAreReturned` | a source counts as seen from its first hit that passes on, so a stronger hit of a later search is dropped and the source is sorted by the weaker, although each search answers best first | `docs/story-flow.md:99`: "only the strongest matches"; `agent/nodes/retriever.py:118`: "top K overall" |
| `unlocked_prompt_deployed`, `DeployedPromptsAreLocked` | without a lock file the check writes one and passes: a push that edits a prompt and removes the lock is deployed | `docs/qa-review.md:252-254`: no deployment until the lock is updated |

Seen in the models or beside them, without a run of their own:

- for an answer that is no string the extractor takes the next quote of the
  reply for the opening one and streams the name of the next key
  (`api/routers/query.py:41`: "yields only the answer text characters");
- the release record is made in a checkout of its own and waits for no gate: it
  takes the last by name of the repository's results, whose incorrect refusal
  rate of 0.8 is above the gate's 0.40, also for a release whose gate passed
  (`release_records/2026-04-11T21:53:37Z_f3b04f7c.yaml` holds them;
  `docs/insight-ai-engineer-application.md:74`: "Every release requires all
  gates to pass");
- the done event is sent before the store is updated, as `query.py:8` says; a
  follow-up accepted in between has no context
  (`docs/architecture/session-memory-lifecycle.mmd:18-19`: the update first);
- with authentication enabled every token is given the role `user`, so nobody
  reaches `/ingest` (`api/middleware/auth.py:57-67` is a stub);
- `correct_refusal_rate` is the share of all questions, so it is 100% only if
  every question is to be refused (`README.md:94-105`: 100%), and the
  CI gate allows 40% incorrect refusals and 30 s where the criteria say less
  than 10% and 4 s;
- an exception of the search client ends the graph and the client gets an error
  event (`docs/qa-review.md:513`: empty chunk list and a structured refusal);
- a short last window is merged into a full chunk, and the maximum is never
  read: at the real sizes 2200 letters make one chunk of 2405 characters
  (`pipeline/chunking/strategy.py:37`: maximum 600 tokens, 2400 characters);
- of two deployments that run at a time the one that ends last stays, also if it
  is the older;
- nothing calls `_purge_expired`, so entries of sessions that do not return
  stay until the process ends (`session-memory-lifecycle.mmd:31-32` shows the
  eviction);
- each replica has a store of its own and there is no affinity, so a follow-up
  may find nothing, or an older exchange (`session.py:6-7`);
- a client that closes the connection on the done event leaves a completed run
  unremembered (`docs/story-flow.md:182`: "Updated after every successful graph
  invocation");
- the retriever's record names `ai_search_read` when there was no endpoint or no
  sub-task and nothing was searched (`agent/state.py:30`: "names of tools
  actually called");
- a push whose record run fails, or is overtaken, has no release record
  (`scripts/generate_release_record.py:5`: "on every main merge").

## What is not modelled

- Hashes, latencies, trace ids, prompt texts, chunk metadata, titles, dates: no
  property is about them.
- Wall-clock steps backwards in `SessionStore` and `StoreThreads`, whose clock
  only advances; `QueryService` has them. With a clock that is set back, purging
  is no longer unobservable: what was not purged may come back to life.
- More than one worker process per replica: the image starts one.
- `\u`, `\b`, `\f` escapes, which the extractor emits as their letters: the
  letters of `AnswerExtractor` other than `n` stand for them.
- Token validation (a stub), and `/ingest`, whose body does nothing; the table
  of capabilities has its entry.
- In `Chunker`, kinds of white space: there is one, which `strip` removes and
  which ends a sentence after a stop. In the code `strip` also removes newlines
  and tabs, and only a space ends a sentence.
- In `ReleasePipeline`, CI of pull requests. It gates nothing in the repository,
  with one exception: the branch filter of `deploy.yml` also matches a pull
  request whose head branch is named `main`, and such a run would start a
  deployment of the head of `main`.
- Results files committed after the checkout `EvalGate` starts from.
- The evaluation a release record takes up. In the workflow it is always one of
  the repository's files and never one the gate has judged, as the two jobs have
  checkouts of their own; only with `make release-record` in a developer's
  directory does the script see the files of the runs there.
- In `EvalGate`: p50, confidence and follow-up rate, which gate nothing; a
  question file without questions, on which `run_eval.py` raises.
- The components marked `not_modelled` in `PROJECT.json`: stubs and
  declarations, and those below in the plan.

## Plan

Done: session store, its register and its threads; query service; query stream
with admission, graph and extractor; answer extractor; search results; chunker;
release pipeline; eval gate; the proofs above. The order was that of importance:
what a request is given and what it leaves behind, then what the client sees,
then the pure algorithms under it, then what surrounds the service.

What is left to model is declaration and stubs. When the ingestion route and the
token validation get bodies, they come next.
