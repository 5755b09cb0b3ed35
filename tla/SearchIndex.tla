----------------------------- MODULE SearchIndex ------------------------------
(***************************************************************************)
(* _search_index (agent/nodes/retriever.py): one search per sub-task, the  *)
(* hits of each filtered by reranker score and deduplicated by source as   *)
(* they arrive, the survivors sorted and cut to the best TOP_K.            *)
(*                                                                         *)
(* A search returns at most TOP_K hits (top=_TOP_K), in an order that is   *)
(* the service's.  A hit is a source and a score; title, content and date  *)
(* go along with it.  The score of a hit counts in units of which          *)
(* PER_PLACE make one of the fourth decimal place; 0 also stands for a     *)
(* missing score.  The threshold is compared with that score, a chunk has  *)
(* the score rounded to the fourth place, and the chunks are sorted by     *)
(* theirs: a hit may lie below the threshold and round to it, and hits of  *)
(* different scores may become equal.                                      *)
(***************************************************************************)
EXTENDS Integers, Sequences, SequencesExt, FiniteSets

CONSTANTS Source,      \* the documents of the index ("" is one: no source field)
          Scores,      \* the scores a hit can have
          PER_PLACE,   \* units of a score in one of its fourth decimal place
          MIN_SCORE,   \* _MIN_RERANKER_SCORE
          TOP_K,       \* _TOP_K, and top= of each search
          SubTasks     \* len(sub_tasks)

ASSUME ScoresAssumption ==
  Scores \subseteq Nat /\ MIN_SCORE \in Nat /\ PER_PLACE \in Nat \ {0}
ASSUME SizesAssumption == TOP_K \in Nat \ {0} /\ SubTasks \in Nat

VARIABLES task,           \* the sub-task whose hits are being read
          hits,           \* the hits read so far, per sub-task
          all_chunks,
          seen_sources,
          result          \* what _search_index returned, or "searching"

vars == <<task, hits, all_chunks, seen_sources, result>>

Hit == [source : Source, score : Scores]
Chunk == [source : Source, reranker_score : Nat]

(* round(score, 4), in fourth places: to the nearest, a half to the even.  *)
Rounded(score) ==
  LET places == score \div PER_PLACE
      rest == score % PER_PLACE
      up == 2 * rest > PER_PLACE \/ (2 * rest = PER_PLACE /\ places % 2 = 1)
  IN IF up THEN places + 1 ELSE places

ChunkOf(hit) == [source |-> hit.source, reranker_score |-> Rounded(hit.score)]

Init ==
  /\ task = 1
  /\ hits = [t \in 1..SubTasks |-> << >>]
  /\ all_chunks = << >>
  /\ seen_sources = {}
  /\ result = "searching"

(* Mutant: a source counts as seen even if its hit is too weak. *)
read_seen_first(hit) ==
  /\ seen_sources' = seen_sources \cup {hit.source}
  /\ all_chunks' = IF hit.score < MIN_SCORE \/ hit.source \in seen_sources
                   THEN all_chunks ELSE Append(all_chunks, ChunkOf(hit))

(* Mutant: the hit is judged by the score its chunk shows. *)
read_rounded(hit) ==
  IF ChunkOf(hit).reranker_score * PER_PLACE < MIN_SCORE \/ hit.source \in seen_sources
  THEN UNCHANGED <<all_chunks, seen_sources>>
  ELSE /\ seen_sources' = seen_sources \cup {hit.source}
       /\ all_chunks' = Append(all_chunks, ChunkOf(hit))

(* The body of the inner loop (l. 98-116). *)
read(hit) ==
  IF hit.score < MIN_SCORE \/ hit.source \in seen_sources
  THEN UNCHANGED <<all_chunks, seen_sources>>
  ELSE /\ seen_sources' = seen_sources \cup {hit.source}
       /\ all_chunks' = Append(all_chunks, ChunkOf(hit))

next_hit(hit) ==
  /\ task <= SubTasks
  /\ Len(hits[task]) < TOP_K
  /\ hits' = [hits EXCEPT ![task] = Append(@, hit)]
  /\ read(hit)
  /\ UNCHANGED <<task, result>>

(* Mutant: one search too many. *)
next_search_past ==
  /\ task <= SubTasks + 1
  /\ task' = task + 1
  /\ UNCHANGED <<hits, all_chunks, seen_sources, result>>

next_search ==
  /\ task <= SubTasks
  /\ task' = task + 1
  /\ UNCHANGED <<hits, all_chunks, seen_sources, result>>

(* The chunk at i is sorted before that at j: list.sort is stable, also    *)
(* with reverse=True.                                                      *)
Before(chunks, i, j) ==
  \/ chunks[i].reranker_score > chunks[j].reranker_score
  \/ chunks[i].reranker_score = chunks[j].reranker_score /\ i < j

SortedByScore(chunks) ==
  LET order == CHOOSE o \in Bijection(DOMAIN chunks, DOMAIN chunks) :
                 \A k, l \in DOMAIN chunks : k < l => Before(chunks, o[k], o[l])
  IN [k \in DOMAIN chunks |-> chunks[order[k]]]

return ==
  /\ task > SubTasks
  /\ result = "searching"
  /\ LET sorted == SortedByScore(all_chunks)
     IN result' = SubSeq(sorted, 1, IF Len(sorted) < TOP_K THEN Len(sorted) ELSE TOP_K)
  /\ UNCHANGED <<task, hits, all_chunks, seen_sources>>

Next == (\E hit \in Hit : next_hit(hit)) \/ next_search \/ return

Spec == Init /\ [][Next]_vars

Returned == result # "searching"

TypeOK ==
  /\ task \in 1..(SubTasks + 1)
  /\ hits \in [1..SubTasks -> Seq(Hit)]
  /\ all_chunks \in Seq(Chunk)
  /\ seen_sources \in SUBSET Source
  /\ result = "searching" \/ result \in Seq(Chunk)

-------------------------------------------------------------------------------
(* The places of the hits, in the order they were read. *)
Places == {p \in (1..SubTasks) \X (1..TOP_K) : p[2] \in DOMAIN hits[p[1]]}

At(p) == hits[p[1]][p[2]]

Earlier(p, q) == p[1] < q[1] \/ (p[1] = q[1] /\ p[2] < q[2])

(* The hits that reach the threshold as the search scored them. *)
Passing == {p \in Places : At(p).score >= MIN_SCORE}

(* A source is represented by its first hit that passes. *)
Representatives ==
  {p \in Passing : \A q \in Passing : At(q).source = At(p).source => ~Earlier(q, p)}

(* Hits that differ by less than a chunk can show count as equal. *)
Better(p, q) ==
  \/ Rounded(At(p).score) > Rounded(At(q).score)
  \/ Rounded(At(p).score) = Rounded(At(q).score) /\ Earlier(p, q)

(* Where a representative stands among them, the best one at 1. *)
Rank(p) == 1 + Cardinality({q \in Representatives : Better(q, p)})

(* The result is the TOP_K best of one chunk per source that passed, best  *)
(* first as the rounded scores tell and equal ones in the order they were  *)
(* found, although a hit is judged before it is rounded and ordered        *)
(* afterwards: all of them when there are no more than TOP_K, and none     *)
(* that reaches the threshold by rounding only (retriever.py:98-120).      *)
ResultIsBestRepresentatives ==
  Returned =>
    LET Best == {p \in Representatives : Rank(p) <= TOP_K}
    IN /\ Len(result) = Cardinality(Best)
       /\ \A p \in Best : result[Rank(p)] = ChunkOf(At(p))

(* The result is empty exactly when no hit of any search passed: the       *)
(* synthesizer refuses for want of evidence and never for another reason   *)
(* (retriever.py:99-120, synthesizer.py:110).                              *)
EmptyOnlyWithoutEvidence ==
  Returned => (result = << >> <=> \A p \in Places : At(p).score < MIN_SCORE)

BestFirst ==
  \A t \in 1..SubTasks : \A i, j \in DOMAIN hits[t] :
    i < j => hits[t][i].score >= hits[t][j].score

(* Even if each search answers best first: every hit that passed is in the *)
(* result, with its own score or a better one of its source, unless TOP_K  *)
(* chunks at least as good are.  What is brought back is the strongest     *)
(* (docs/story-flow.md:99), the top K overall (retriever.py:118).          *)
StrongestAreReturned ==
  Returned /\ BestFirst =>
    \A p \in Passing :
      LET AsGood == {k \in DOMAIN result : result[k].reranker_score >= Rounded(At(p).score)}
      IN \/ \E k \in AsGood : result[k].source = At(p).source
         \/ Cardinality(AsGood) = TOP_K

===============================================================================
