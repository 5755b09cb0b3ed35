--------------------------- MODULE SearchIndexProofs ---------------------------
(***************************************************************************)
(* The proof that _search_index returns the best of one representative per *)
(* source, for any number of sub-tasks, documents and hits, any threshold  *)
(* and any TOP_K.                                                          *)
(***************************************************************************)
EXTENDS SearchIndex, SequenceTheorems, FiniteSetTheorems, FunctionTheorems, TLAPS

(* No search returns more than it was asked for, none has begun that is    *)
(* behind the one being read, and the list is returned after the last.     *)
InTurn ==
  /\ \A t \in 1..SubTasks : Len(hits[t]) <= TOP_K /\ (t > task => hits[t] = << >>)
  /\ Returned => task > SubTasks

SeenPassed == seen_sources = {At(p).source : p \in Passing}

FoundIfSeen == seen_sources = {} <=> all_chunks = << >>

(* The chunks found are the representatives, in the order of their places. *)
Lines(place) ==
  /\ place \in [1..Len(all_chunks) -> Representatives]
  /\ \A i \in 1..Len(all_chunks) : all_chunks[i] = ChunkOf(At(place[i]))
  /\ \A i, j \in 1..Len(all_chunks) : i < j => Earlier(place[i], place[j])
  /\ \A p \in Representatives : \E i \in 1..Len(all_chunks) : place[i] = p

InLine == \E place : Lines(place)

Inv ==
  /\ TypeOK /\ InTurn /\ SeenPassed /\ FoundIfSeen /\ InLine
  /\ ResultIsBestRepresentatives /\ EmptyOnlyWithoutEvidence

-------------------------------------------------------------------------------
(* Rounding. *)

LEMMA RoundedIsNat ==
  ASSUME NEW score \in Nat
  PROVE  Rounded(score) \in Nat
<1>1. \A n \in Nat \ {0} : score \div n \in Nat
  OBVIOUS
<1>2. score \div PER_PLACE \in Nat
  BY <1>1, ScoresAssumption
<1>. QED BY <1>2 DEF Rounded

LEMMA ChunkOfIsChunk ==
  ASSUME NEW hit \in Hit
  PROVE  ChunkOf(hit) \in Chunk
<1>1. hit.source \in Source /\ hit.score \in Nat
  BY ScoresAssumption DEF Hit
<1>. QED BY <1>1, RoundedIsNat DEF ChunkOf, Chunk

-------------------------------------------------------------------------------
(* Places. *)

LEMMA PlaceIs ==
  ASSUME Inv, NEW p \in Places
  PROVE  /\ p = <<p[1], p[2]>>
         /\ p[1] \in 1..SubTasks /\ p[2] \in 1..Len(hits[p[1]])
         /\ At(p) \in Hit /\ At(p).score \in Nat /\ At(p).source \in Source
         /\ p[1] <= task
<1>1. p \in (1..SubTasks) \X (1..TOP_K) /\ p[2] \in DOMAIN hits[p[1]]
  BY DEF Places
<1>2. hits[p[1]] \in Seq(Hit)
  BY <1>1 DEF Inv, TypeOK
<1>3. p[2] \in 1..Len(hits[p[1]])
  BY <1>1, <1>2
<1>4. At(p) \in Hit
  BY <1>2, <1>3 DEF At
<1>5. p[1] <= task
  <2>1. SUFFICES ASSUME p[1] > task PROVE FALSE
    BY <1>1 DEF Inv, TypeOK
  <2>2. hits[p[1]] = << >>
    BY <1>1, <2>1 DEF Inv, InTurn
  <2>. QED BY <1>3, <2>2
<1>6. At(p).score \in Nat /\ At(p).source \in Source
  <2>. DEFINE hit == At(p)
  <2>. HIDE DEF hit
  <2>1. hit \in Hit => hit.score \in Nat /\ hit.source \in Source
    BY ScoresAssumption DEF Hit
  <2>. QED BY <1>4, <2>1 DEF hit
<1>7. p = <<p[1], p[2]>> /\ p[1] \in 1..SubTasks
  BY <1>1
<1>. QED BY <1>3, <1>4, <1>5, <1>6, <1>7

LEMMA EarlierIsTotal ==
  ASSUME Inv, NEW p \in Places, NEW q \in Places
  PROVE  /\ p = q \/ Earlier(p, q) \/ Earlier(q, p)
         /\ ~(Earlier(p, q) /\ Earlier(q, p))
         /\ ~Earlier(p, p)
<1>1. /\ p[1] \in Int /\ p[2] \in Int /\ q[1] \in Int /\ q[2] \in Int
      /\ p = <<p[1], p[2]>> /\ q = <<q[1], q[2]>>
  BY PlaceIs
<1>. QED BY <1>1 DEF Earlier

(* Better is a strict order in which no two places stand alike. *)
LEMMA BetterIsTotal ==
  ASSUME Inv, NEW p \in Places, NEW q \in Places
  PROVE  /\ p = q \/ Better(p, q) \/ Better(q, p)
         /\ ~(Better(p, q) /\ Better(q, p))
         /\ ~Better(p, p)
<1>1. Rounded(At(p).score) \in Nat /\ Rounded(At(q).score) \in Nat
  BY PlaceIs, RoundedIsNat
<1>. QED BY <1>1, EarlierIsTotal DEF Better

-------------------------------------------------------------------------------
(* Sorting. *)

LEMMA BeforeIsTotal ==
  ASSUME NEW chunks \in Seq(Chunk), NEW i \in DOMAIN chunks, NEW j \in DOMAIN chunks,
         NEW k \in DOMAIN chunks
  PROVE  /\ i = j \/ Before(chunks, i, j) \/ Before(chunks, j, i)
         /\ ~(Before(chunks, i, j) /\ Before(chunks, j, i))
         /\ ~Before(chunks, i, i)
         /\ Before(chunks, i, j) /\ Before(chunks, j, k) => Before(chunks, i, k)
<1>1. i \in Int /\ j \in Int /\ k \in Int
  OBVIOUS
<1>2. chunks[i] \in Chunk /\ chunks[j] \in Chunk /\ chunks[k] \in Chunk
  OBVIOUS
<1>3. \A c \in Chunk : c.reranker_score \in Nat
  BY DEF Chunk
<1>4. /\ chunks[i].reranker_score \in Nat /\ chunks[j].reranker_score \in Nat
      /\ chunks[k].reranker_score \in Nat
  BY <1>2, <1>3
<1>. QED BY <1>1, <1>4 DEF Before

(* How many places there are before that of chunk i, and its own. *)
Position(chunks, i) ==
  Cardinality({j \in DOMAIN chunks : j = i \/ Before(chunks, j, i)})

LEMMA PositionInRange ==
  ASSUME NEW chunks \in Seq(Chunk), NEW i \in DOMAIN chunks
  PROVE  Position(chunks, i) \in 1..Len(chunks)
<1>. DEFINE B == {j \in DOMAIN chunks : j = i \/ Before(chunks, j, i)}
<1>1. /\ DOMAIN chunks = 1..Len(chunks) /\ Len(chunks) \in Nat
      /\ IsFiniteSet(1..Len(chunks)) /\ Cardinality(1..Len(chunks)) = Len(chunks)
  <2>1. Len(chunks) \in Nat /\ DOMAIN chunks = 1..Len(chunks)
    OBVIOUS
  <2>. DEFINE n == Len(chunks)
  <2>. HIDE DEF n
  <2>2. n \in Nat => IsFiniteSet(1..n) /\ Cardinality(1..n) = n
    BY FS_Interval
  <2>. QED BY <2>1, <2>2 DEF n
<1>2. B \in SUBSET (1..Len(chunks)) /\ B # {}
  BY <1>1
<1>. HIDE DEF B
<1>3. IsFiniteSet(B) /\ Cardinality(B) <= Len(chunks)
  <2>1. IsFiniteSet(B) /\ Cardinality(B) <= Cardinality(1..Len(chunks))
    BY <1>1, <1>2, FS_Subset, Zenon
  <2>. QED BY <1>1, <2>1
<1>4. Cardinality(B) \in Nat /\ Cardinality(B) # 0
  BY <1>2, <1>3, FS_CardinalityType, FS_EmptySet
<1>. QED BY <1>1, <1>3, <1>4 DEF Position, B

LEMMA PositionGrows ==
  ASSUME NEW chunks \in Seq(Chunk), NEW i \in DOMAIN chunks, NEW j \in DOMAIN chunks,
         Before(chunks, i, j)
  PROVE  Position(chunks, i) < Position(chunks, j)
<1>. DEFINE B(k) == {l \in DOMAIN chunks : l = k \/ Before(chunks, l, k)}
<1>1. DOMAIN chunks = 1..Len(chunks) /\ Len(chunks) \in Nat /\ IsFiniteSet(DOMAIN chunks)
  BY FS_Interval
<1>2. B(i) \in SUBSET B(j)
  BY BeforeIsTotal
<1>3. j \in B(j) /\ j \notin B(i)
  BY BeforeIsTotal
<1>4. B(j) \in SUBSET DOMAIN chunks
  OBVIOUS
<1>5. Position(chunks, i) = Cardinality(B(i)) /\ Position(chunks, j) = Cardinality(B(j))
  BY DEF Position
<1>. HIDE DEF B
<1>6. IsFiniteSet(B(j))
  BY <1>1, <1>4, FS_Subset
<1>7. /\ IsFiniteSet(B(i)) /\ Cardinality(B(i)) <= Cardinality(B(j))
      /\ Cardinality(B(i)) # Cardinality(B(j))
  BY <1>2, <1>3, <1>6, FS_Subset
<1>8. Cardinality(B(i)) \in Nat /\ Cardinality(B(j)) \in Nat
  BY <1>6, <1>7, FS_CardinalityType
<1>. QED BY <1>5, <1>7, <1>8

(* The order SortedByScore sorts by. *)
Sorts(chunks, o) ==
  /\ o \in Bijection(DOMAIN chunks, DOMAIN chunks)
  /\ \A k, l \in DOMAIN chunks : k < l => Before(chunks, o[k], o[l])

LEMMA OrderExists ==
  ASSUME NEW chunks \in Seq(Chunk)
  PROVE  \E o : Sorts(chunks, o)
<1>. DEFINE D == DOMAIN chunks
            f == [i \in D |-> Position(chunks, i)]
            o == Inverse(f, D, D)
<1>1. D = 1..Len(chunks) /\ IsFiniteSet(D)
  <2>1. D = 1..Len(chunks) /\ Len(chunks) \in Nat
    OBVIOUS
  <2>. QED BY <2>1, FS_Interval
<1>2. f \in [D -> D]
  BY <1>1, PositionInRange
<1>3. ASSUME NEW i \in D, NEW j \in D, f[i] = f[j] PROVE i = j
  <2>1. f[i] \in Nat /\ f[j] \in Nat /\ f[i] = Position(chunks, i) /\ f[j] = Position(chunks, j)
    BY <1>1, <1>2
  <2>2. ~Before(chunks, i, j) /\ ~Before(chunks, j, i)
    BY <1>3, <2>1, PositionGrows
  <2>. QED BY <2>2, BeforeIsTotal
<1>. HIDE DEF D
<1>4. f \in Injection(D, D)
  <2>. HIDE DEF f
  <2>. QED BY <1>2, <1>3, Fun_IsInj
<1>5. f \in Surjection(D, D)
  <2>. HIDE DEF f
  <2>. QED BY <1>1, <1>4, FS_Injection
<1>6. f \in Bijection(D, D)
  BY <1>4, <1>5 DEF Bijection
<1>7. o \in Bijection(D, D) /\ o \in [D -> D] /\ \A i \in D : o[f[i]] = i
  <2>. HIDE DEF f
  <2>1. o \in Bijection(D, D) /\ \A i \in D : o[f[i]] = i
    BY <1>6, Fun_BijInverse
  <2>. HIDE DEF o
  <2>. QED BY <2>1, Fun_BijectionProperties
<1>8. \A k \in D : f[o[k]] = k
  <2>1. \A k \in D : \E i \in D : f[i] = k
    BY <1>5, Fun_SurjectionProperties
  <2>. HIDE DEF f, o
  <2>. QED BY <1>7, <2>1
<1>9. ASSUME NEW k \in D, NEW l \in D, k < l PROVE Before(chunks, o[k], o[l])
  <2>1. o[k] \in D /\ o[l] \in D
    BY <1>7
  <2>2. Position(chunks, o[k]) = k /\ Position(chunks, o[l]) = l
    BY <1>8, <2>1
  <2>3. o[k] # o[l] /\ ~Before(chunks, o[l], o[k])
    <3>1. k \in Int /\ l \in Int
      BY <1>1
    <3>. HIDE DEF o
    <3>. QED BY <1>9, <2>1, <2>2, <3>1, PositionGrows DEF D
  <2>. HIDE DEF o
  <2>. QED BY <2>1, <2>3, BeforeIsTotal DEF D
<1>. HIDE DEF o
<1>. QED BY <1>7, <1>9 DEF Sorts, D

LEMMA SortedIs ==
  ASSUME NEW chunks \in Seq(Chunk)
  PROVE  \E o : /\ Sorts(chunks, o)
                /\ SortedByScore(chunks) = [k \in DOMAIN chunks |-> chunks[o[k]]]
<1>. DEFINE o == CHOOSE o \in Bijection(DOMAIN chunks, DOMAIN chunks) :
                   \A k, l \in DOMAIN chunks : k < l => Before(chunks, o[k], o[l])
<1>1. SortedByScore(chunks) = [k \in DOMAIN chunks |-> chunks[o[k]]]
  BY DEF SortedByScore
<1>2. Sorts(chunks, o)
  <2>1. PICK p : Sorts(chunks, p)
    BY OrderExists
  <2>. QED BY <2>1, Zenon DEF Sorts
<1>. HIDE DEF o
<1>. QED BY <1>1, <1>2

-------------------------------------------------------------------------------
(* Reading a hit. *)

(* e is the place of the hit that is read next. *)
LEMMA HitIsAdded ==
  ASSUME Inv, NEW hit \in Hit, next_hit(hit), NEW e, e = <<task, Len(hits[task]) + 1>>
  PROVE  /\ Places' = Places \cup {e}
         /\ e \notin Places
         /\ At(e)' = hit
         /\ \A p \in Places : /\ At(p)' = At(p)
                             /\ Earlier(p, e) /\ ~Earlier(e, p)
<1>. DEFINE n == Len(hits[task])
<1>1. /\ task \in 1..SubTasks /\ hits[task] \in Seq(Hit) /\ n \in Nat /\ n < TOP_K
      /\ hits' = [hits EXCEPT ![task] = Append(hits[task], hit)]
      /\ hits \in [1..SubTasks -> Seq(Hit)]
  BY SizesAssumption DEF Inv, TypeOK, next_hit
<1>2. /\ hits'[task] = Append(hits[task], hit)
      /\ \A t \in 1..SubTasks : t # task => hits'[t] = hits[t]
  BY <1>1
<1>3. /\ DOMAIN hits'[task] = 1..(n + 1) /\ DOMAIN hits[task] = 1..n
      /\ \A i \in 1..n : hits'[task][i] = hits[task][i]
      /\ hits'[task][n + 1] = hit
  <2>. DEFINE s == hits[task]
  <2>. HIDE DEF s
  <2>1. s \in Seq(Hit) =>
          /\ DOMAIN Append(s, hit) = 1..(Len(s) + 1) /\ DOMAIN s = 1..Len(s)
          /\ \A i \in 1..Len(s) : Append(s, hit)[i] = s[i]
          /\ Append(s, hit)[Len(s) + 1] = hit
    OBVIOUS
  <2>. QED BY <1>1, <1>2, <2>1 DEF s
<1>4. e = <<task, n + 1>> /\ e[1] = task /\ e[2] = n + 1
  OBVIOUS
<1>. HIDE DEF n
<1>5. e \in (1..SubTasks) \X (1..TOP_K)
  BY <1>1, <1>4, SizesAssumption
<1>6. ASSUME NEW p \in (1..SubTasks) \X (1..TOP_K)
      PROVE  p \in Places' <=> p \in Places \/ p = e
  <2>1. p = <<p[1], p[2]>> /\ p[1] \in 1..SubTasks /\ p[2] \in 1..TOP_K
    OBVIOUS
  <2>2. /\ p \in Places' <=> p[2] \in DOMAIN hits'[p[1]]
        /\ p \in Places <=> p[2] \in DOMAIN hits[p[1]]
    BY DEF Places
  <2>3. CASE p[1] = task
    BY <1>1, <1>3, <1>4, <2>1, <2>2, <2>3
  <2>4. CASE p[1] # task
    BY <1>2, <1>4, <2>1, <2>2, <2>4
  <2>. QED BY <2>3, <2>4
<1>7. Places' = Places \cup {e}
  <2>1. Places \subseteq (1..SubTasks) \X (1..TOP_K) /\ Places' \subseteq (1..SubTasks) \X (1..TOP_K)
    BY DEF Places
  <2>. QED BY <1>5, <1>6, <2>1
<1>8. e \notin Places
  BY <1>1, <1>3, <1>4 DEF Places
<1>9. At(e)' = hit
  BY <1>3, <1>4 DEF At
<1>10. ASSUME NEW p \in Places
       PROVE  At(p)' = At(p) /\ Earlier(p, e) /\ ~Earlier(e, p)
  <2>1. p[1] \in 1..SubTasks /\ p[2] \in 1..Len(hits[p[1]]) /\ p[1] <= task
    BY PlaceIs
  <2>2. CASE p[1] = task
    BY <1>1, <1>3, <1>4, <2>1, <2>2 DEF At, Earlier, n
  <2>3. CASE p[1] # task
    BY <1>1, <1>2, <1>4, <2>1, <2>3 DEF At, Earlier
  <2>. QED BY <2>2, <2>3
<1>. QED BY <1>7, <1>8, <1>9, <1>10

(* It represents its source if it passes and no hit of its source passed   *)
(* before.                                                                 *)
LEMMA RepresentativeIsAdded ==
  ASSUME Inv, NEW hit \in Hit, next_hit(hit), NEW e, e = <<task, Len(hits[task]) + 1>>
  PROVE  /\ Passing' = IF hit.score < MIN_SCORE THEN Passing ELSE Passing \cup {e}
         /\ Representatives' = IF hit.score < MIN_SCORE \/ hit.source \in seen_sources
                               THEN Representatives ELSE Representatives \cup {e}
<1>1. /\ Places' = Places \cup {e} /\ e \notin Places /\ At(e)' = hit
      /\ \A p \in Places : At(p)' = At(p) /\ Earlier(p, e) /\ ~Earlier(e, p)
  BY HitIsAdded
<1>2. hit.score \in Nat /\ MIN_SCORE \in Nat /\ \A p \in Places : At(p).score \in Nat
  BY PlaceIs, ScoresAssumption DEF Hit
<1>3. Passing' = IF hit.score < MIN_SCORE THEN Passing ELSE Passing \cup {e}
  BY <1>1, <1>2 DEF Passing
<1>4. ~Earlier(e, e)
  <2>1. task \in Int /\ Len(hits[task]) + 1 \in Int
    BY DEF Inv, TypeOK, next_hit
  <2>. QED BY <2>1 DEF Earlier
<1>5. ASSUME NEW p \in Places PROVE p \in Representatives' <=> p \in Representatives
  BY <1>1, <1>5 DEF Representatives, Passing
<1>6. e \in Representatives' <=> ~(hit.score < MIN_SCORE \/ hit.source \in seen_sources)
  <2>1. hit.source \in seen_sources <=> \E p \in Places : At(p).score >= MIN_SCORE /\ At(p).source = hit.source
    BY DEF Inv, SeenPassed, Passing
  <2>. QED BY <1>1, <1>2, <1>4, <2>1 DEF Representatives, Passing
<1>7. Representatives \subseteq Places /\ Representatives' \subseteq Places'
  BY DEF Representatives, Passing
<1>8. CASE hit.score < MIN_SCORE \/ hit.source \in seen_sources
  <2>1. \A p : p \in Representatives' <=> p \in Representatives
    BY <1>1, <1>5, <1>6, <1>7, <1>8
  <2>2. Representatives' = Representatives
    BY <2>1
  <2>. QED BY <1>3, <1>8, <2>2
<1>9. CASE ~(hit.score < MIN_SCORE \/ hit.source \in seen_sources)
  <2>1. \A p : p \in Representatives' <=> p \in Representatives \cup {e}
    BY <1>1, <1>5, <1>6, <1>7, <1>9
  <2>2. Representatives' = Representatives \cup {e}
    BY <2>1
  <2>. QED BY <1>3, <1>9, <2>2
<1>. QED BY <1>8, <1>9

LEMMA LineGrows ==
  ASSUME Inv, NEW hit \in Hit, next_hit(hit)
  PROVE  InLine'
<1>1. PICK e : e = <<task, Len(hits[task]) + 1>>
  OBVIOUS
<1>2. PICK place : Lines(place)
  BY DEF Inv, InLine
<1>3. PICK n \in Nat : n = Len(all_chunks) /\ all_chunks \in Seq(Chunk)
  BY DEF Inv, TypeOK
<1>4. /\ Places' = Places \cup {e} /\ e \notin Places /\ At(e)' = hit
      /\ \A p \in Places : At(p)' = At(p) /\ Earlier(p, e)
  BY <1>1, HitIsAdded
<1>5. Representatives \subseteq Places
  BY DEF Representatives, Passing
<1>6. CASE hit.score < MIN_SCORE \/ hit.source \in seen_sources
  <2>1. all_chunks' = all_chunks /\ Representatives' = Representatives
    BY <1>1, <1>6, RepresentativeIsAdded DEF next_hit, read
  <2>2. \A i \in 1..n : place[i] \in Representatives
    BY <1>2, <1>3 DEF Lines
  <2>3. Lines(place)'
    BY <1>2, <1>4, <1>5, <2>1, <2>2 DEF Lines, Earlier
  <2>. QED BY <2>3 DEF InLine
<1>7. CASE ~(hit.score < MIN_SCORE \/ hit.source \in seen_sources)
  <2>1. all_chunks' = Append(all_chunks, ChunkOf(hit)) /\ Representatives' = Representatives \cup {e}
    BY <1>1, <1>7, RepresentativeIsAdded DEF next_hit, read
  <2>2. /\ Len(all_chunks') = n + 1 /\ all_chunks'[n + 1] = ChunkOf(hit)
        /\ \A i \in 1..n : all_chunks'[i] = all_chunks[i]
    BY <1>3, <2>1
  <2>3. /\ place \in [1..n -> Representatives]
        /\ \A i \in 1..n : all_chunks[i] = ChunkOf(At(place[i]))
        /\ \A i, j \in 1..n : i < j => Earlier(place[i], place[j])
        /\ \A p \in Representatives : \E i \in 1..n : place[i] = p
    BY <1>2, <1>3 DEF Lines
  <2>4. PICK line : /\ line \in [1..(n + 1) -> Representatives']
                    /\ line[n + 1] = e /\ \A i \in 1..n : line[i] = place[i]
    <3>. DEFINE f == [i \in 1..(n + 1) |-> IF i = n + 1 THEN e ELSE place[i]]
    <3>1. f \in [1..(n + 1) -> Representatives'] /\ f[n + 1] = e /\ \A i \in 1..n : f[i] = place[i]
      BY <1>3, <2>1, <2>3
    <3>. QED BY <3>1
  <2>6. ASSUME NEW i \in 1..(n + 1) PROVE all_chunks'[i] = ChunkOf(At(line[i])')
    BY <1>3, <1>4, <1>5, <2>2, <2>3, <2>4
  <2>7. ASSUME NEW i \in 1..(n + 1), NEW j \in 1..(n + 1), i < j
        PROVE  Earlier(line[i], line[j])
    BY <1>3, <1>4, <1>5, <2>3, <2>4, <2>7
  <2>8. ASSUME NEW p \in Representatives' PROVE \E i \in 1..(n + 1) : line[i] = p
    BY <1>3, <2>1, <2>3, <2>4
  <2>9. Lines(line)'
    BY <1>3, <2>2, <2>4, <2>6, <2>7, <2>8 DEF Lines, Earlier
  <2>. QED BY <2>9 DEF InLine
<1>. QED BY <1>6, <1>7

LEMMA NextHitKeepsInv ==
  ASSUME Inv, NEW hit \in Hit, next_hit(hit)
  PROVE  Inv'
<1>1. PICK e : e = <<task, Len(hits[task]) + 1>>
  OBVIOUS
<1>2. /\ task \in 1..SubTasks /\ task \in Int /\ hits[task] \in Seq(Hit)
      /\ hits \in [1..SubTasks -> Seq(Hit)] /\ all_chunks \in Seq(Chunk)
      /\ result = "searching" /\ UNCHANGED <<task, result>>
  <2>1. result = "searching"
    BY SizesAssumption DEF Inv, InTurn, Returned, TypeOK, next_hit
  <2>. QED BY <2>1, SizesAssumption DEF Inv, TypeOK, next_hit
<1>3. hits' = [hits EXCEPT ![task] = Append(hits[task], hit)]
  BY DEF next_hit
<1>4. Append(hits[task], hit) \in Seq(Hit) /\ Len(Append(hits[task], hit)) = Len(hits[task]) + 1
  BY <1>2
<1>5. hit.source \in Source
  BY DEF Hit
<1>6. TypeOK'
  <2>1. hits' \in [1..SubTasks -> Seq(Hit)]
    BY <1>2, <1>3, <1>4
  <2>2. all_chunks' \in Seq(Chunk) /\ seen_sources' \in SUBSET Source
    <3>1. Append(all_chunks, ChunkOf(hit)) \in Seq(Chunk)
      BY <1>2, ChunkOfIsChunk
    <3>2. seen_sources \cup {hit.source} \in SUBSET Source
      BY <1>5 DEF Inv, TypeOK
    <3>. QED BY <1>2, <3>1, <3>2 DEF Inv, TypeOK, next_hit, read
  <2>. QED BY <1>2, <2>1, <2>2 DEF Inv, TypeOK
<1>7. InTurn'
  <2>1. Len(hits[task]) \in Nat /\ Len(hits[task]) < TOP_K
    BY <1>2 DEF next_hit
  <2>2. \A t \in 1..SubTasks : t # task => hits'[t] = hits[t]
    BY <1>2, <1>3
  <2>3. hits'[task] = Append(hits[task], hit)
    BY <1>2, <1>3
  <2>4. ASSUME NEW t \in 1..SubTasks
        PROVE  Len(hits'[t]) <= TOP_K /\ (t > task' => hits'[t] = << >>)
    <3>1. CASE t = task
      BY <1>2, <1>4, <2>1, <2>3, <3>1, SizesAssumption
    <3>2. CASE t # task
      BY <1>2, <2>2, <3>2 DEF Inv, InTurn
    <3>. QED BY <3>1, <3>2
  <2>. QED BY <1>2, <2>4 DEF InTurn, Returned
<1>8. SeenPassed'
  <2>1. Passing \subseteq Places
    BY DEF Passing
  <2>2. /\ e \notin Places /\ At(e)' = hit /\ \A p \in Places : At(p)' = At(p)
    BY <1>1, HitIsAdded
  <2>3. seen_sources = {At(p).source : p \in Passing}
    BY DEF Inv, SeenPassed
  <2>4. CASE hit.score < MIN_SCORE
    <3>1. Passing' = Passing /\ seen_sources' = seen_sources
      BY <1>1, <2>4, RepresentativeIsAdded DEF next_hit, read
    <3>. QED BY <2>1, <2>2, <2>3, <3>1 DEF SeenPassed
  <2>5. CASE ~(hit.score < MIN_SCORE)
    <3>1. Passing' = Passing \cup {e} /\ seen_sources' = seen_sources \cup {hit.source}
      BY <1>1, <2>5, RepresentativeIsAdded DEF next_hit, read
    <3>. QED BY <2>1, <2>2, <2>3, <3>1 DEF SeenPassed
  <2>. QED BY <2>4, <2>5
<1>9. FoundIfSeen'
  BY <1>2, <1>4 DEF Inv, FoundIfSeen, next_hit, read
<1>10. InLine'
  BY LineGrows
<1>11. ResultIsBestRepresentatives' /\ EmptyOnlyWithoutEvidence'
  BY <1>2 DEF ResultIsBestRepresentatives, EmptyOnlyWithoutEvidence, Returned
<1>. QED BY <1>6, <1>7, <1>8, <1>9, <1>10, <1>11 DEF Inv

-------------------------------------------------------------------------------
(* The result. *)

(* A line of the representatives by Better has them in the order of their  *)
(* ranks.                                                                  *)
LEMMA RankIs ==
  ASSUME Inv, NEW n \in Nat, NEW q \in [1..n -> Representatives],
         \A k, l \in 1..n : k < l => Better(q[k], q[l]),
         \A p \in Representatives : \E k \in 1..n : q[k] = p,
         NEW k \in 1..n
  PROVE  Rank(q[k]) = k
<1>. DEFINE B == {p \in Representatives : Better(p, q[k])}
            f == [l \in 1..(k - 1) |-> q[l]]
<1>0. k - 1 \in Nat /\ \A l \in 1..(k - 1) : l \in 1..n /\ l < k
  OBVIOUS
<1>1. \A i, j \in 1..n : ~(Better(q[i], q[j]) /\ Better(q[j], q[i])) /\ ~Better(q[i], q[i])
  BY BetterIsTotal DEF Representatives, Passing
<1>2. f \in [1..(k - 1) -> B]
  BY <1>0
<1>3. ASSUME NEW a \in 1..(k - 1), NEW b \in 1..(k - 1), f[a] = f[b]
      PROVE  a = b
  <2>1. q[a] = q[b] /\ a \in 1..n /\ b \in 1..n
    BY <1>0, <1>3
  <2>2. ~(a < b) /\ ~(b < a)
    BY <1>1, <2>1
  <2>. QED BY <2>1, <2>2
<1>4. ASSUME NEW p \in B PROVE \E l \in 1..(k - 1) : f[l] = p
  <2>1. PICK l \in 1..n : q[l] = p
    OBVIOUS
  <2>2. ~(k < l) /\ l # k
    BY <1>1, <2>1
  <2>3. l \in 1..(k - 1)
    BY <2>2
  <2>. QED BY <2>1, <2>3
<1>5. f \in Bijection(1..(k - 1), B)
  <2>. HIDE DEF f, B
  <2>. QED BY <1>2, <1>3, <1>4, Fun_IsBij
<1>6. Cardinality(B) = k - 1
  <2>. HIDE DEF f, B
  <2>1. ExistsBijection(1..(k - 1), B)
    BY <1>5 DEF ExistsBijection
  <2>. QED BY <1>0, <2>1, FS_CountingElements
<1>. QED BY <1>6 DEF Rank

LEMMA BestAre ==
  ASSUME Inv, NEW n \in Nat, NEW q \in [1..n -> Representatives],
         \A k, l \in 1..n : k < l => Better(q[k], q[l]),
         \A p \in Representatives : \E k \in 1..n : q[k] = p,
         NEW m \in Nat, m = IF n < TOP_K THEN n ELSE TOP_K
  PROVE  Cardinality({p \in Representatives : Rank(p) <= TOP_K}) = m
<1>. DEFINE B == {p \in Representatives : Rank(p) <= TOP_K}
            f == [k \in 1..m |-> q[k]]
<1>1. \A k \in 1..n : Rank(q[k]) = k
  BY RankIs
<1>2. TOP_K \in Nat /\ \A k \in Nat : k \in 1..m <=> k \in 1..n /\ k <= TOP_K
  BY SizesAssumption
<1>3. f \in [1..m -> B]
  BY <1>1, <1>2
<1>4. ASSUME NEW a \in 1..m, NEW b \in 1..m, f[a] = f[b] PROVE a = b
  <2>1. q[a] = q[b] /\ a \in 1..n /\ b \in 1..n
    BY <1>2, <1>4
  <2>. QED BY <1>1, <2>1
<1>5. ASSUME NEW p \in B PROVE \E k \in 1..m : f[k] = p
  <2>1. PICK k \in 1..n : q[k] = p
    OBVIOUS
  <2>. QED BY <1>1, <1>2, <2>1
<1>. HIDE DEF f, B
<1>6. f \in Bijection(1..m, B)
  BY <1>3, <1>4, <1>5, Fun_IsBij
<1>7. ExistsBijection(1..m, B)
  BY <1>6 DEF ExistsBijection
<1>. QED BY <1>7, FS_CountingElements DEF B

LEMMA ReturnKeepsInv ==
  ASSUME Inv, return
  PROVE  Inv'
<1>1. PICK n \in Nat : n = Len(all_chunks) /\ all_chunks \in Seq(Chunk) /\ DOMAIN all_chunks = 1..n
  BY DEF Inv, TypeOK
<1>2. PICK o : /\ Sorts(all_chunks, o)
              /\ SortedByScore(all_chunks) = [k \in DOMAIN all_chunks |-> all_chunks[o[k]]]
  BY <1>1, SortedIs
<1>3. PICK place : Lines(place)
  BY DEF Inv, InLine
<1>4. PICK m \in Nat : m = (IF n < TOP_K THEN n ELSE TOP_K) /\ m <= n
  BY SizesAssumption
<1>5. /\ o \in [1..n -> 1..n]
      /\ \A k, l \in 1..n : k < l => Before(all_chunks, o[k], o[l])
      /\ \A i \in 1..n : \E k \in 1..n : o[k] = i
      /\ \A k \in 1..n : o[k] \in 1..n
  <2>1. o \in Bijection(1..n, 1..n) /\ \A k, l \in 1..n : k < l => Before(all_chunks, o[k], o[l])
    BY <1>1, <1>2, Zenon DEF Sorts
  <2>2. o \in [1..n -> 1..n] /\ \A i \in 1..n : \E k \in 1..n : o[k] = i
    BY <2>1, Fun_BijectionProperties
  <2>. QED BY <2>1, <2>2
<1>6. /\ place \in [1..n -> Representatives]
      /\ \A i \in 1..n : all_chunks[i] = ChunkOf(At(place[i]))
      /\ \A i, j \in 1..n : i < j => Earlier(place[i], place[j])
      /\ \A p \in Representatives : \E i \in 1..n : place[i] = p
  BY <1>1, <1>3 DEF Lines
<1>7. PICK sorted : /\ sorted = SortedByScore(all_chunks) /\ sorted \in Seq(Chunk) /\ Len(sorted) = n
                    /\ \A k \in 1..n : sorted[k] = all_chunks[o[k]]
  <2>. DEFINE sorted == [k \in 1..n |-> all_chunks[o[k]]]
  <2>0. \A i \in 1..n : all_chunks[i] \in Chunk
    BY <1>1
  <2>1. \A k \in 1..n : all_chunks[o[k]] \in Chunk
    BY <1>5, <2>0
  <2>2. sorted \in Seq(Chunk) /\ Len(sorted) = n
    BY <2>1
  <2>. QED BY <1>1, <1>2, <2>2
<1>8. /\ result' \in Seq(Chunk) /\ Len(result') = m
      /\ \A k \in 1..m : result'[k] = sorted[k]
  <2>1. result' = SubSeq(sorted, 1, m)
    BY <1>4, <1>7 DEF return
  <2>. QED BY <1>4, <1>7, <2>1
<1>9. PICK q \in [1..n -> Representatives] : \A k \in 1..n : q[k] = place[o[k]]
  <2>. DEFINE f == [k \in 1..n |-> place[o[k]]]
  <2>1. f \in [1..n -> Representatives] /\ \A k \in 1..n : f[k] = place[o[k]]
    BY <1>5, <1>6
  <2>. QED BY <2>1
<1>10. ASSUME NEW k \in 1..n PROVE ChunkOf(At(q[k])) = sorted[k]
  <2>1. o[k] \in 1..n
    BY <1>5
  <2>2. ChunkOf(At(place[o[k]])) = all_chunks[o[k]]
    BY <1>6, <2>1
  <2>. QED BY <1>7, <1>9, <2>2
<1>11. ASSUME NEW k \in 1..n, NEW l \in 1..n, k < l PROVE Better(q[k], q[l])
  <2>1. o[k] \in 1..n /\ o[l] \in 1..n /\ Before(all_chunks, o[k], o[l])
    BY <1>5, <1>11
  <2>2. /\ all_chunks[o[k]] = ChunkOf(At(q[k])) /\ all_chunks[o[l]] = ChunkOf(At(q[l]))
        /\ o[k] < o[l] => Earlier(q[k], q[l])
    BY <1>6, <1>9, <2>1
  <2>3. /\ all_chunks[o[k]].reranker_score = Rounded(At(q[k]).score)
        /\ all_chunks[o[l]].reranker_score = Rounded(At(q[l]).score)
    BY <2>2 DEF ChunkOf
  <2>. QED BY <2>1, <2>2, <2>3 DEF Before, Better
<1>12. \A p \in Representatives : \E k \in 1..n : q[k] = p
  BY <1>5, <1>6, <1>9
<1>13. /\ \A k \in 1..n : Rank(q[k]) = k
       /\ Cardinality({p \in Representatives : Rank(p) <= TOP_K}) = m
  BY <1>4, <1>11, <1>12, RankIs, BestAre
<1>14. UNCHANGED <<task, hits, all_chunks, seen_sources>> /\ task > SubTasks
  BY DEF return
<1>15. /\ TypeOK' /\ InTurn' /\ SeenPassed' /\ FoundIfSeen'
  BY <1>8, <1>14 DEF Inv, TypeOK, InTurn, SeenPassed, FoundIfSeen, Passing, Places, At
<1>16. /\ Places' = Places /\ Representatives' = Representatives
       /\ \A p : At(p)' = At(p) /\ Rank(p)' = Rank(p)
  BY <1>14 DEF Places, Representatives, Passing, At, Rank, Better, Earlier
<1>17. InLine'
  BY <1>3, <1>14, <1>16 DEF InLine, Lines, Earlier
<1>18. ResultIsBestRepresentatives'
  <2>1. ASSUME NEW p \in Representatives, Rank(p) <= TOP_K
        PROVE  result'[Rank(p)] = ChunkOf(At(p))
    <3>1. PICK k \in 1..n : q[k] = p
      BY <1>12
    <3>2. k = Rank(p) /\ k \in 1..m
      BY <1>4, <1>13, <2>1, <3>1, SizesAssumption
    <3>. QED BY <1>8, <1>10, <3>1, <3>2
  <2>. QED BY <1>8, <1>13, <1>16, <2>1 DEF ResultIsBestRepresentatives
<1>19. EmptyOnlyWithoutEvidence'
  <2>1. result' = << >> <=> m = 0
    BY <1>8
  <2>2. m = 0 <=> n = 0
    BY <1>4, SizesAssumption
  <2>3. n = 0 <=> all_chunks = << >>
    BY <1>1
  <2>4. all_chunks = << >> <=> seen_sources = {}
    BY DEF Inv, FoundIfSeen
  <2>5. seen_sources = {} <=> Passing = {}
    BY DEF Inv, SeenPassed
  <2>6. Passing = {} <=> \A p \in Places : At(p).score < MIN_SCORE
    <3>1. \A p \in Places : At(p).score \in Nat
      BY PlaceIs
    <3>. QED BY <3>1, ScoresAssumption DEF Passing
  <2>. QED BY <1>16, <2>1, <2>2, <2>3, <2>4, <2>5, <2>6 DEF EmptyOnlyWithoutEvidence
<1>. QED BY <1>15, <1>17, <1>18, <1>19 DEF Inv

LEMMA NextSearchKeepsInv ==
  ASSUME Inv, next_search
  PROVE  Inv'
<1>1. /\ task \in 1..SubTasks /\ task' = task + 1 /\ result = "searching"
      /\ UNCHANGED <<hits, all_chunks, seen_sources, result>>
  BY SizesAssumption DEF Inv, TypeOK, InTurn, Returned, next_search
<1>2. TypeOK' /\ InTurn'
  BY <1>1, SizesAssumption DEF Inv, TypeOK, InTurn, Returned
<1>3. Representatives' = Representatives /\ Passing' = Passing /\ \A p : At(p)' = At(p)
  BY <1>1 DEF Representatives, Passing, Places, At, Earlier
<1>4. SeenPassed' /\ FoundIfSeen'
  BY <1>1, <1>3 DEF Inv, SeenPassed, FoundIfSeen
<1>5. InLine'
  BY <1>1, <1>3 DEF Inv, InLine, Lines, Earlier
<1>6. ResultIsBestRepresentatives' /\ EmptyOnlyWithoutEvidence'
  BY <1>1 DEF ResultIsBestRepresentatives, EmptyOnlyWithoutEvidence, Returned
<1>. QED BY <1>2, <1>4, <1>5, <1>6 DEF Inv

-------------------------------------------------------------------------------
LEMMA InitInv == Init => Inv
<1>. SUFFICES ASSUME Init PROVE Inv
  OBVIOUS
<1>1. TypeOK /\ InTurn
  BY SizesAssumption DEF Init, TypeOK, InTurn, Returned
<1>2. Places = {} /\ Passing = {} /\ Representatives = {}
  <2>1. \A t \in 1..SubTasks : DOMAIN hits[t] = {}
    BY DEF Init
  <2>. QED BY <2>1 DEF Places, Passing, Representatives
<1>3. SeenPassed /\ FoundIfSeen
  BY <1>2 DEF Init, SeenPassed, FoundIfSeen
<1>4. Lines(<< >>)
  BY <1>2 DEF Init, Lines
<1>. QED BY <1>1, <1>3, <1>4 DEF Inv, Init, InLine, ResultIsBestRepresentatives, EmptyOnlyWithoutEvidence, Returned

LEMMA NextKeepsInv == Inv /\ [Next]_vars => Inv'
<1>. SUFFICES ASSUME Inv, [Next]_vars PROVE Inv'
  OBVIOUS
<1>1. CASE UNCHANGED vars
  <2>1. /\ Places' = Places /\ Representatives' = Representatives /\ Passing' = Passing
        /\ \A p : At(p)' = At(p) /\ Rank(p)' = Rank(p)
    BY <1>1 DEF vars, Places, Passing, Representatives, At, Rank, Better, Earlier
  <2>2. InLine'
    BY <1>1, <2>1 DEF Inv, InLine, Lines, Earlier, vars
  <2>3. ResultIsBestRepresentatives' /\ EmptyOnlyWithoutEvidence'
    BY <1>1, <2>1 DEF Inv, ResultIsBestRepresentatives, EmptyOnlyWithoutEvidence, Returned, vars
  <2>. QED BY <1>1, <2>1, <2>2, <2>3 DEF Inv, TypeOK, InTurn, SeenPassed, FoundIfSeen, Returned, vars
<1>. QED BY <1>1, NextHitKeepsInv, NextSearchKeepsInv, ReturnKeepsInv DEF Next

LEMMA SearchInvariant == Spec => []Inv
BY InitInv, NextKeepsInv, PTL DEF Spec

(* Every variable of _search_index keeps its type (retriever.py:79-120). *)
THEOREM TypeCorrect == Spec => []TypeOK
<1>1. Inv => TypeOK
  BY DEF Inv
<1>. QED BY SearchInvariant, <1>1, PTL

(* The result is the TOP_K best of one representative per source, best     *)
(* first by rounded score, equal ones in the order they were found         *)
(* (retriever.py:98-120).                                                  *)
THEOREM BestAreReturned == Spec => []ResultIsBestRepresentatives
<1>1. Inv => ResultIsBestRepresentatives
  BY DEF Inv
<1>. QED BY SearchInvariant, <1>1, PTL

(* The result is empty exactly when no hit of any search passed            *)
(* (retriever.py:99-120, synthesizer.py:110).                              *)
THEOREM EmptyMeansNoEvidence == Spec => []EmptyOnlyWithoutEvidence
<1>1. Inv => EmptyOnlyWithoutEvidence
  BY DEF Inv
<1>. QED BY SearchInvariant, <1>1, PTL

===============================================================================
