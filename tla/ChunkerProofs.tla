----------------------------- MODULE ChunkerProofs -----------------------------
(***************************************************************************)
(* Proofs about the chunker, for documents of any length and any sizes     *)
(* with OVERLAP < MIN < TARGET, as the code has them.                      *)
(***************************************************************************)
EXTENDS Chunker, WellFoundedInduction, SequenceTheorems, TLAPS

-------------------------------------------------------------------------------
(* Sets of natural numbers. *)

(* Every set of natural numbers has a least member. *)
LEMMA LeastNat ==
  ASSUME NEW S \in SUBSET Nat, S # {}
  PROVE  \E m \in S : \A k \in S : m <= k
<1>. DEFINE R == OpToRel(<, Nat)
<1>1. IsWellFoundedOn(R, Nat)
  BY NatLessThanWellFounded
<1>2. ASSUME NEW k \in Nat, NEW m \in Nat, k < m PROVE <<k, m>> \in R
  BY <1>2, Zenon DEF OpToRel
<1>. HIDE DEF R
<1>3. PICK m \in S : \A k \in S : ~(<<k, m>> \in R)
  BY <1>1, WFMin
<1>4. ASSUME NEW k \in S PROVE m <= k
  <2>1. k \in Nat /\ m \in Nat
    OBVIOUS
  <2>2. ~(k < m)
    BY <1>2, <1>3, <2>1
  <2>. QED BY <2>1, <2>2
<1>. QED BY <1>4

(* Every set of natural numbers with a bound has a greatest member. *)
LEMMA GreatestNat ==
  ASSUME NEW S \in SUBSET Nat, S # {}, NEW b \in Nat, \A k \in S : k <= b
  PROVE  \E m \in S : \A k \in S : k <= m
<1>. DEFINE T == {b - k : k \in S}
<1>1. T \in SUBSET Nat /\ T # {}
  <2>1. ASSUME NEW k \in S PROVE b - k \in Nat
    OBVIOUS
  <2>2. \A t \in T : t \in Nat
    BY <2>1
  <2>3. \A k \in S : b - k \in T
    OBVIOUS
  <2>. QED BY <2>2, <2>3
<1>2. PICK t \in T : \A u \in T : t <= u
  <2>. HIDE DEF T
  <2>. QED BY <1>1, LeastNat
<1>3. PICK m \in S : t = b - m
  OBVIOUS
<1>4. ASSUME NEW k \in S PROVE k <= m
  <2>1. b - k \in T
    OBVIOUS
  <2>2. b - m <= b - k
    BY <1>2, <1>3, <2>1
  <2>. QED BY <2>2
<1>. QED BY <1>4

-------------------------------------------------------------------------------
(* The inductive invariant. *)
Span == [lo : Nat, hi : Nat]
Chunk == [spans : Seq(Span), chunk_index : Nat, char_count : Nat]

LastSpan(chunk) == chunk.spans[Len(chunk.spans)]

(* Span b does not begin before a, and repeats at most OVERLAP of it. *)
FollowedBy(a, b) == a.lo <= b.lo /\ a.hi - OVERLAP <= b.lo

(* Within a chunk, and from a chunk to the next. *)
Forward(chunk) == \A k \in 2..Len(chunk.spans) : FollowedBy(chunk.spans[k - 1], chunk.spans[k])
Onward(c) == c > 1 => FollowedBy(LastSpan(chunks[c - 1]), Head(chunks[c].spans))
Ordered == \A c \in DOMAIN chunks : Forward(chunks[c]) /\ Onward(c)

(* What a window that begins at s may follow: a span that reaches at most  *)
(* OVERLAP beyond s, and that begins with the first solid position from s  *)
(* if it lies there as a whole.                                            *)
Precedes(a, s) ==
  /\ a.hi - OVERLAP <= s
  /\ a.lo <= s \/ (a.lo \in Solid(s, N) /\ a.lo < s + OVERLAP /\ Solid(s, a.lo) = {})

Latest == ~returned /\ chunks # << >> => Precedes(LastSpan(chunks[Len(chunks)]), start)

Bounded(c) ==
  /\ c > 1 => chunks[c].char_count >= MIN
  /\ chunks[c].char_count <= TARGET + MIN * (Len(chunks[c].spans) - 1)

Covered(n) == \A i \in Solid(0, n) : \E c \in DOMAIN chunks : In(i, chunks[c])

Inv ==
  /\ TypeOK
  /\ ~returned => start < N
  /\ \A c \in DOMAIN chunks : chunks[c].spans # << >> /\ Bounded(c)
  /\ Ordered /\ Latest
  /\ Covered(IF returned THEN N ELSE start)

-------------------------------------------------------------------------------
(* What the operators compute. *)
LEMMA SolidIs ==
  ASSUME NEW lo \in Nat, NEW hi \in Nat
  PROVE  /\ Solid(lo, hi) \in SUBSET Nat
         /\ \A i \in Solid(lo, hi) : lo <= i /\ i < hi
         /\ \A k \in Nat : Solid(lo, k) \cap (lo..(hi - 1)) \subseteq Solid(lo, hi)
BY DEF Solid

(* The span that strip leaves of content[lo:hi]. *)
LEMMA StripIs ==
  ASSUME NEW lo \in Nat, NEW hi \in Nat, lo <= hi
  PROVE  LET s == Strip(lo, hi) IN
         /\ s \in Span /\ lo <= s.lo /\ s.lo <= s.hi /\ s.hi <= hi
         /\ Solid(lo, hi) = {} => s.lo = lo /\ s.hi = lo
         /\ Solid(lo, hi) # {} => s.lo \in Solid(lo, hi) /\ s.lo < s.hi
         /\ \A i \in Solid(lo, hi) : s.lo <= i /\ i < s.hi
<1>. DEFINE S == Solid(lo, hi)
<1>1. S \in SUBSET Nat /\ \A i \in S : lo <= i /\ i < hi
  BY SolidIs
<1>2. CASE S = {}
  <2>1. Strip(lo, hi) = [lo |-> lo, hi |-> lo]
    BY <1>2 DEF Strip
  <2>. QED BY <1>2, <2>1 DEF Span
<1>3. CASE S # {}
  <2>. HIDE DEF S
  <2>1. \E i \in S : \A j \in S : i <= j
    BY <1>1, <1>3, LeastNat
  <2>2. \E i \in S : \A j \in S : j <= i
    <3>1. \A j \in S : j <= hi
      BY <1>1
    <3>. QED BY <1>1, <1>3, <3>1, GreatestNat
  <2>. DEFINE least == CHOOSE i \in S : \A j \in S : i <= j
              greatest == CHOOSE i \in S : \A j \in S : j <= i
  <2>3. least \in S /\ \A j \in S : least <= j
    BY <2>1
  <2>4. greatest \in S /\ \A j \in S : j <= greatest
    BY <2>2
  <2>5. Strip(lo, hi) = [lo |-> least, hi |-> 1 + greatest]
    BY <1>3 DEF Strip, S
  <2>. HIDE DEF least, greatest
  <2>6. least \in Nat /\ greatest \in Nat /\ lo <= least /\ least <= greatest /\ greatest < hi
    BY <1>1, <2>3, <2>4
  <2>7. [lo |-> least, hi |-> 1 + greatest] \in Span
    BY <2>6 DEF Span
  <2>8. \A i \in S : least <= i /\ i < 1 + greatest
    BY <1>1, <2>3, <2>4, <2>6
  <2>. QED BY <1>3, <2>3, <2>5, <2>6, <2>7, <2>8 DEF S
<1>. QED BY <1>2, <1>3

(* The end of the window at start: behind what the next one overlaps. *)
LEMMA WindowEndIs ==
  ASSUME content \in Seq(Char), start \in Nat, start < N
  PROVE  /\ WindowEnd \in Nat /\ start < WindowEnd /\ WindowEnd <= N /\ WindowEnd <= start + TARGET
         /\ WindowEnd < N => start + OVERLAP < WindowEnd
         /\ WindowEnd = N \/ start + OVERLAP < WindowEnd
<1>. DEFINE n == N
            w == WindowLimit
            B == Boundaries(start, w)
<1>1. n \in Nat
  BY DEF N
<1>2. w \in Nat /\ start < w /\ w <= n /\ w <= start + TARGET /\ (w < n => w = start + TARGET)
  BY <1>1, SizesAssumption DEF WindowLimit
<1>3. CASE w < n /\ B # {}
  <2>. DEFINE b == CHOOSE b \in B : \A c \in B : c <= b
  <2>1. WindowEnd = 1 + b
    BY <1>3 DEF WindowEnd
  <2>2. \A c \in B : c \in Nat /\ start + MIN < c /\ c <= w - 2
    <3>. HIDE DEF w
    <3>. QED BY <1>2, SizesAssumption DEF Boundaries
  <2>3. \A c \in B : c <= w
    BY <1>2, <2>2
  <2>. HIDE DEF B
  <2>4. B \in SUBSET Nat
    BY <2>2
  <2>5. \E m \in B : \A c \in B : c <= m
    BY <1>2, <1>3, <2>3, <2>4, GreatestNat
  <2>6. b \in B
    BY <2>5
  <2>. HIDE DEF b, w, n
  <2>7. 1 + b \in Nat /\ start < 1 + b /\ 1 + b <= n /\ 1 + b <= start + TARGET /\ start + OVERLAP < 1 + b
    BY <1>1, <1>2, <2>2, <2>6, SizesAssumption
  <2>. QED BY <2>1, <2>7 DEF n
<1>4. CASE ~(w < n /\ B # {})
  <2>1. WindowEnd = w
    BY <1>4 DEF WindowEnd
  <2>. HIDE DEF w, B
  <2>2. w = n \/ start + OVERLAP < w
    BY <1>1, <1>2, SizesAssumption
  <2>3. w < n => start + OVERLAP < w
    BY <1>1, <1>2, SizesAssumption
  <2>. QED BY <1>2, <2>1, <2>2, <2>3
<1>. QED BY <1>3, <1>4

(* The span of a window follows any span that precedes the window.         *)
LEMMA StripFollows ==
  ASSUME NEW s \in Nat, NEW e \in Nat, s < e, e <= N, N \in Nat,
         e = N \/ s + OVERLAP < e, NEW a \in Span, Precedes(a, s)
  PROVE  FollowedBy(a, Strip(s, e))
<1>1. PICK b : b = Strip(s, e)
  OBVIOUS
<1>2. /\ b \in Span /\ s <= b.lo /\ b.lo <= b.hi
      /\ Solid(s, e) # {} => b.lo \in Solid(s, e)
      /\ \A i \in Solid(s, e) : b.lo <= i
  BY <1>1, StripIs
<1>3. a.hi - OVERLAP <= s /\ a.lo \in Nat /\ a.hi \in Nat /\ b.lo \in Nat /\ OVERLAP \in Nat
  BY <1>2, SizesAssumption DEF Precedes, Span
<1>4. a.hi - OVERLAP <= b.lo
  BY <1>2, <1>3
<1>5. CASE a.lo <= s
  BY <1>1, <1>2, <1>3, <1>4, <1>5 DEF FollowedBy
<1>6. CASE a.lo \in Solid(s, N) /\ a.lo < s + OVERLAP /\ Solid(s, a.lo) = {}
  <2>1. s <= a.lo /\ a.lo < e
    BY <1>3, <1>6, SolidIs
  <2>2. a.lo \in Solid(s, e)
    BY <1>6, <2>1 DEF Solid
  <2>3. b.lo \in Solid(s, e)
    BY <1>2, <2>2
  <2>4. ~(b.lo < a.lo)
    <3>1. SUFFICES ASSUME b.lo < a.lo PROVE FALSE
      OBVIOUS
    <3>2. b.lo \in Solid(s, a.lo)
      BY <1>3, <2>1, <2>3, <3>1 DEF Solid
    <3>. QED BY <1>6, <3>2
  <2>. QED BY <1>1, <1>3, <1>4, <2>4 DEF FollowedBy
<1>. QED BY <1>5, <1>6, Zenon DEF Precedes

(* It precedes the next window, which begins OVERLAP before its end.       *)
LEMMA StripPrecedes ==
  ASSUME NEW s \in Nat, NEW e \in Nat, s < e, e <= N, N \in Nat, NEW t \in Nat,
         t = e - OVERLAP, s < t
  PROVE  Precedes(Strip(s, e), t)
<1>1. PICK b : b = Strip(s, e)
  OBVIOUS
<1>2. /\ b \in Span /\ s <= b.lo /\ b.lo <= b.hi /\ b.hi <= e
      /\ Solid(s, e) = {} => b.lo = s
      /\ Solid(s, e) # {} => b.lo \in Solid(s, e)
      /\ \A i \in Solid(s, e) : b.lo <= i
  BY <1>1, StripIs
<1>3. b.lo \in Nat /\ b.hi \in Nat /\ OVERLAP \in Nat
  BY <1>2, SizesAssumption DEF Span
<1>4. b.hi - OVERLAP <= t
  BY <1>2, <1>3
<1>5. ASSUME t < b.lo
      PROVE  b.lo \in Solid(t, N) /\ b.lo < t + OVERLAP /\ Solid(t, b.lo) = {}
  <2>1. b.lo \in Solid(s, e)
    BY <1>2, <1>3, <1>5
  <2>2. b.lo < e /\ b.lo < t + OVERLAP
    BY <1>3, <2>1, SolidIs
  <2>3. b.lo \in Solid(t, N)
    BY <1>3, <1>5, <2>1, <2>2 DEF Solid
  <2>4. Solid(t, b.lo) = {}
    <3>1. ASSUME NEW i \in Solid(t, b.lo) PROVE FALSE
      <4>1. i \in Nat /\ t <= i /\ i < b.lo
        BY <1>3, SolidIs
      <4>2. i \in Solid(s, e)
        BY <1>3, <2>2, <4>1 DEF Solid
      <4>. QED BY <1>2, <1>3, <4>1, <4>2
    <3>. QED BY <3>1
  <2>. QED BY <2>2, <2>3, <2>4
<1>6. b.lo <= t \/ (b.lo \in Solid(t, N) /\ b.lo < t + OVERLAP /\ Solid(t, b.lo) = {})
  <2>1. b.lo <= t \/ t < b.lo
    BY <1>3
  <2>. QED BY <1>5, <2>1
<1>. QED BY <1>1, <1>4, <1>6, Zenon DEF Precedes

-------------------------------------------------------------------------------
(* The three things a window's span does to the n chunks there are.        *)
Others(n) == \A c \in 1..(n - 1) : chunks'[c] = chunks[c]

Joined(b, n) ==
  /\ n # 0 /\ Length(b) < MIN
  /\ Len(chunks') = n /\ index' = index /\ Others(n)
  /\ chunks'[n].spans = Append(chunks[n].spans, b)
  /\ chunks'[n].chunk_index = chunks[n].chunk_index
  /\ chunks'[n].char_count = chunks[n].char_count + 1 + Length(b)

Added(b, n) ==
  /\ Length(b) > 0 /\ (n # 0 => Length(b) >= MIN)
  /\ Len(chunks') = n + 1 /\ index' = index + 1 /\ Others(n + 1)
  /\ chunks'[n + 1].spans = <<b>> /\ chunks'[n + 1].chunk_index = index
  /\ chunks'[n + 1].char_count = Length(b)

Dropped(b, n) == n = 0 /\ Length(b) = 0 /\ chunks' = chunks /\ index' = index

LEMMA EmitCases ==
  ASSUME chunks \in Seq(Chunk), index \in Nat, NEW b \in Span, b.lo <= b.hi,
         NEW n \in Nat, n = Len(chunks), Emit(b)
  PROVE  chunks' \in Seq(Chunk) /\ (Joined(b, n) \/ Added(b, n) \/ Dropped(b, n))
<1>1. Length(b) \in Nat /\ MIN \in Nat
  BY SizesAssumption DEF Length, Span
<1>2. chunks = << >> <=> n = 0
  OBVIOUS
<1>3. CASE Short(b) /\ chunks # << >> /\ Merge(b)
  <2>1. PICK d : d = [spans |-> Append(chunks[n].spans, b), chunk_index |-> chunks[n].chunk_index,
                      char_count |-> chunks[n].char_count + 1 + Length(b)]
    OBVIOUS
  <2>2. chunks' = [chunks EXCEPT ![n] = d] /\ index' = index
    BY <1>3, <2>1 DEF Merge
  <2>3. n \in DOMAIN chunks /\ chunks[n] \in Chunk
    BY <1>2, <1>3
  <2>4. /\ d.spans = Append(chunks[n].spans, b) /\ d.chunk_index = chunks[n].chunk_index
        /\ d.char_count = chunks[n].char_count + 1 + Length(b)
    BY <2>1
  <2>5. Append(chunks[n].spans, b) \in Seq(Span)
    BY <2>3 DEF Chunk
  <2>6. d \in Chunk
    BY <1>1, <2>1, <2>3, <2>5 DEF Chunk
  <2>7. chunks' \in Seq(Chunk) /\ Len(chunks') = n /\ chunks'[n] = d /\ Others(n)
    BY <2>2, <2>3, <2>6 DEF Others
  <2>8. n # 0 /\ Length(b) < MIN
    BY <1>2, <1>3 DEF Short
  <2>. QED BY <2>2, <2>4, <2>7, <2>8 DEF Joined
<1>4. CASE ~(Short(b) /\ chunks # << >>) /\ Length(b) > 0 /\ Add(b)
  <2>1. PICK d : d = [spans |-> <<b>>, chunk_index |-> index, char_count |-> Length(b)]
    OBVIOUS
  <2>2. chunks' = Append(chunks, d) /\ index' = index + 1
    BY <1>4, <2>1 DEF Add
  <2>3. d.spans = <<b>> /\ d.chunk_index = index /\ d.char_count = Length(b)
    BY <2>1
  <2>4. <<b>> \in Seq(Span)
    OBVIOUS
  <2>5. d \in Chunk
    BY <1>1, <2>1, <2>4 DEF Chunk
  <2>6. chunks' \in Seq(Chunk) /\ Len(chunks') = n + 1 /\ chunks'[n + 1] = d /\ Others(n + 1)
    BY <2>2, <2>5 DEF Others
  <2>7. Length(b) > 0 /\ (n # 0 => Length(b) >= MIN)
    BY <1>1, <1>2, <1>4 DEF Short
  <2>. QED BY <2>2, <2>3, <2>6, <2>7 DEF Added
<1>5. CASE Length(b) = 0 /\ chunks = << >> /\ UNCHANGED <<chunks, index>>
  BY <1>2, <1>5 DEF Dropped
<1>. QED BY <1>3, <1>4, <1>5 DEF Emit

Grown(b, n) ==
  /\ chunks \in Seq(Chunk) /\ chunks' \in Seq(Chunk) /\ n = Len(chunks)
  /\ Joined(b, n) \/ Added(b, n) \/ Dropped(b, n)

(* Chunks keep being numbered from 0. *)
LEMMA NumbersKept ==
  ASSUME NEW b \in Span, NEW n \in Nat, Grown(b, n),
         index = n, \A c \in DOMAIN chunks : chunks[c].chunk_index = c - 1
  PROVE  index' = Len(chunks') /\ \A c \in DOMAIN chunks' : chunks'[c].chunk_index = c - 1
<1>. SUFFICES ASSUME NEW c \in DOMAIN chunks'
              PROVE  index' = Len(chunks') /\ chunks'[c].chunk_index = c - 1
  BY DEF Grown, Joined, Added, Dropped
<1>1. CASE Joined(b, n)
  <2>1. c \in 1..n /\ c \in DOMAIN chunks /\ index' = Len(chunks')
    BY <1>1 DEF Grown, Joined
  <2>2. chunks'[c].chunk_index = chunks[c].chunk_index
    BY <1>1, <2>1 DEF Joined, Others
  <2>. QED BY <2>1, <2>2
<1>2. CASE Added(b, n)
  BY <1>2 DEF Grown, Added, Others
<1>3. CASE Dropped(b, n)
  BY <1>3 DEF Grown, Dropped
<1>. QED BY <1>1, <1>2, <1>3 DEF Grown

(* A chunk has spans, and grows by less than MIN and a space with each     *)
(* that is merged into it.                                                 *)
LEMMA LengthsKept ==
  ASSUME NEW b \in Span, b.lo <= b.hi, NEW n \in Nat, Grown(b, n), Length(b) <= TARGET,
         \A c \in DOMAIN chunks : chunks[c].spans # << >> /\ Bounded(c)
  PROVE  \A c \in DOMAIN chunks' : chunks'[c].spans # << >> /\ Bounded(c)'
<1>. SUFFICES ASSUME NEW c \in DOMAIN chunks'
              PROVE  chunks'[c].spans # << >> /\ Bounded(c)'
  OBVIOUS
<1>1. Length(b) \in Nat /\ MIN \in Nat /\ TARGET \in Nat
  BY SizesAssumption DEF Length, Span
<1>2. ASSUME c \in DOMAIN chunks, chunks'[c] = chunks[c]
      PROVE  chunks'[c].spans # << >> /\ Bounded(c)'
  BY <1>2 DEF Bounded
<1>3. CASE Joined(b, n)
  <2>1. CASE c # n
    BY <1>2, <1>3, <2>1 DEF Grown, Joined, Others
  <2>2. CASE c = n
    <3>1. n \in DOMAIN chunks /\ chunks[n] \in Chunk
      BY <1>3 DEF Grown, Joined
    <3>2. PICK k \in Nat : k = Len(chunks[n].spans)
      BY <3>1 DEF Chunk
    <3>3. PICK l \in Nat : l = chunks[n].char_count
      BY <3>1 DEF Chunk
    <3>4. /\ k # 0 /\ (n > 1 => l >= MIN) /\ l <= TARGET + MIN * (k - 1)
      BY <3>1, <3>2, <3>3 DEF Bounded, Chunk
    <3>5. chunks'[n].spans # << >> /\ Len(chunks'[n].spans) = k + 1
      BY <1>3, <3>1, <3>2 DEF Joined, Chunk
    <3>6. chunks'[n].char_count = l + 1 + Length(b) /\ Length(b) < MIN
      BY <1>3, <3>3 DEF Joined
    <3>7. MIN * k = MIN * (k - 1) + MIN /\ MIN * (k - 1) \in Int
      BY <1>1
    <3>8. l + 1 + Length(b) <= TARGET + MIN * k
      BY <1>1, <3>4, <3>6, <3>7
    <3>9. n > 1 => l + 1 + Length(b) >= MIN
      BY <1>1, <3>4
    <3>10. (k + 1) - 1 = k
      OBVIOUS
    <3>. QED BY <2>2, <3>5, <3>6, <3>8, <3>9, <3>10 DEF Bounded
  <2>. QED BY <2>1, <2>2
<1>4. CASE Added(b, n)
  <2>1. CASE c # n + 1
    BY <1>2, <1>4, <2>1 DEF Grown, Added, Others
  <2>2. CASE c = n + 1
    <3>1. chunks'[c].spans # << >> /\ Len(chunks'[c].spans) = 1
      <4>1. chunks'[c].spans = <<b>>
        BY <1>4, <2>2 DEF Added
      <4>. QED BY <4>1
    <3>2. chunks'[c].char_count = Length(b) /\ (c > 1 => Length(b) >= MIN)
      BY <1>4, <2>2 DEF Added
    <3>3. MIN * (1 - 1) = 0
      BY <1>1
    <3>4. chunks'[c].char_count <= TARGET + MIN * (Len(chunks'[c].spans) - 1)
      BY <1>1, <3>1, <3>2, <3>3
    <3>. QED BY <3>1, <3>2, <3>4 DEF Bounded
  <2>. QED BY <2>1, <2>2
<1>5. CASE Dropped(b, n)
  BY <1>2, <1>5 DEF Grown, Dropped
<1>. QED BY <1>3, <1>4, <1>5 DEF Grown

(* The new span becomes the last one, unless it is dropped. *)
LEMMA LastIsNew ==
  ASSUME NEW b \in Span, NEW n \in Nat, Grown(b, n), chunks' # << >>
  PROVE  LastSpan(chunks'[Len(chunks')]) = b
<1>1. CASE Joined(b, n)
  <2>1. chunks[n] \in Chunk
    BY <1>1 DEF Grown, Joined
  <2>2. PICK q \in Seq(Span) : q = chunks[n].spans
    BY <2>1 DEF Chunk
  <2>3. chunks'[n].spans = Append(q, b) /\ Len(chunks') = n
    BY <1>1, <2>2 DEF Joined
  <2>. QED BY <2>2, <2>3 DEF LastSpan
<1>2. CASE Added(b, n)
  BY <1>2 DEF Added, LastSpan
<1>3. CASE Dropped(b, n)
  <2>1. chunks' \in Seq(Chunk) /\ Len(chunks') = 0
    BY <1>3 DEF Grown, Dropped
  <2>. QED BY <2>1
<1>. QED BY <1>1, <1>2, <1>3 DEF Grown

(* Spans stay in their order when one comes that follows the last. *)
LEMMA OrderKept ==
  ASSUME NEW b \in Span, NEW n \in Nat, Grown(b, n), Ordered,
         \A c \in DOMAIN chunks : chunks[c].spans # << >>,
         n # 0 => FollowedBy(LastSpan(chunks[n]), b)
  PROVE  Ordered'
<1>. SUFFICES ASSUME NEW c \in DOMAIN chunks'
              PROVE  Forward(chunks'[c]) /\ Onward(c)'
  BY DEF Ordered
<1>1. ASSUME c \in DOMAIN chunks, chunks'[c] = chunks[c], c > 1 => chunks'[c - 1] = chunks[c - 1]
      PROVE  Forward(chunks'[c]) /\ Onward(c)'
  <2>1. Forward(chunks[c]) /\ Onward(c)
    BY <1>1 DEF Ordered
  <2>. QED BY <1>1, <2>1, Zenon DEF Onward
<1>2. CASE Joined(b, n)
  <2>1. CASE c # n
    BY <1>1, <1>2, <2>1 DEF Grown, Joined, Others
  <2>2. CASE c = n
    <3>1. n \in DOMAIN chunks /\ chunks[n] \in Chunk /\ chunks[n].spans # << >>
      BY <1>2 DEF Grown, Joined
    <3>2. PICK q \in Seq(Span) : q = chunks[n].spans
      BY <3>1 DEF Chunk
    <3>3. PICK k \in Nat : k = Len(q) /\ k # 0
      BY <3>1, <3>2
    <3>4. chunks'[n].spans = Append(q, b)
      BY <1>2, <3>2 DEF Joined
    <3>5. /\ \A j \in 2..k : FollowedBy(q[j - 1], q[j])
          /\ FollowedBy(q[k], b)
      BY <1>2, <3>1, <3>2, <3>3 DEF Ordered, Forward, LastSpan, Joined
    <3>6. Forward(chunks'[n])
      <4>1. ASSUME NEW j \in 2..(k + 1) PROVE FollowedBy(Append(q, b)[j - 1], Append(q, b)[j])
        <5>1. CASE j # k + 1
          <6>1. j \in 2..k /\ Append(q, b)[j - 1] = q[j - 1] /\ Append(q, b)[j] = q[j]
            BY <3>3, <5>1
          <6>. QED BY <3>5, <6>1, Zenon
        <5>2. CASE j = k + 1
          <6>1. Append(q, b)[j - 1] = q[k] /\ Append(q, b)[j] = b
            BY <3>3, <5>2
          <6>. QED BY <3>5, <6>1, Zenon
        <5>. QED BY <5>1, <5>2
      <4>2. Len(Append(q, b)) = k + 1
        BY <3>3
      <4>. QED BY <3>4, <4>1, <4>2, Zenon DEF Forward
    <3>7. Head(chunks'[n].spans) = Head(chunks[n].spans)
      BY <3>2, <3>3, <3>4
    <3>8. Onward(n)
      BY <3>1 DEF Ordered
    <3>9. n > 1 => chunks'[n - 1] = chunks[n - 1]
      BY <1>2 DEF Joined, Others
    <3>10. Onward(n)'
      BY <3>7, <3>8, <3>9, Zenon DEF Onward
    <3>. QED BY <2>2, <3>6, <3>10
  <2>. QED BY <2>1, <2>2
<1>3. CASE Added(b, n)
  <2>1. CASE c # n + 1
    BY <1>1, <1>3, <2>1 DEF Grown, Added, Others
  <2>2. CASE c = n + 1
    <3>1. chunks'[c].spans = <<b>> /\ c - 1 = n
      BY <1>3, <2>2 DEF Added
    <3>2. Forward(chunks'[c])
      BY <3>1 DEF Forward
    <3>3. Head(chunks'[c].spans) = b
      BY <3>1
    <3>4. c > 1 => n # 0 /\ chunks'[n] = chunks[n]
      BY <1>3, <2>2 DEF Added, Others
    <3>5. Onward(c)'
      BY <3>1, <3>3, <3>4, Zenon DEF Onward
    <3>. QED BY <3>2, <3>5
  <2>. QED BY <2>1, <2>2
<1>4. CASE Dropped(b, n)
  BY <1>1, <1>4 DEF Dropped
<1>. QED BY <1>2, <1>3, <1>4 DEF Grown

(* What is in a chunk stays there, and what is in the new span is in one. *)
LEMMA InKept ==
  ASSUME NEW b \in Span, NEW n \in Nat, Grown(b, n), NEW i \in Nat,
         (\E c \in DOMAIN chunks : In(i, chunks[c])) \/ (b.lo <= i /\ i < b.hi)
  PROVE  \E c \in DOMAIN chunks' : In(i, chunks'[c])
<1>1. CASE Joined(b, n)
  <2>1. n \in DOMAIN chunks /\ n \in DOMAIN chunks' /\ chunks[n] \in Chunk
    BY <1>1 DEF Grown, Joined
  <2>2. PICK q \in Seq(Span) : q = chunks[n].spans
    BY <2>1 DEF Chunk
  <2>3. PICK k \in Nat : k = Len(q)
    OBVIOUS
  <2>4. chunks'[n].spans = Append(q, b)
    BY <1>1, <2>2 DEF Joined
  <2>5. /\ \A j \in DOMAIN q : j \in DOMAIN Append(q, b) /\ Append(q, b)[j] = q[j]
        /\ k + 1 \in DOMAIN Append(q, b) /\ Append(q, b)[k + 1] = b
    BY <2>3
  <2>6. In(i, chunks[n]) => In(i, chunks'[n])
    BY <2>2, <2>4, <2>5, Zenon DEF In
  <2>7. b.lo <= i /\ i < b.hi => In(i, chunks'[n])
    BY <2>4, <2>5, Zenon DEF In
  <2>8. ASSUME NEW c \in DOMAIN chunks, c # n PROVE c \in DOMAIN chunks' /\ chunks'[c] = chunks[c]
    BY <1>1, <2>8 DEF Grown, Joined, Others
  <2>. QED BY <2>1, <2>6, <2>7, <2>8, Zenon
<1>2. CASE Added(b, n)
  <2>1. n + 1 \in DOMAIN chunks' /\ chunks'[n + 1].spans = <<b>>
    BY <1>2 DEF Grown, Added
  <2>2. 1 \in DOMAIN <<b>> /\ <<b>>[1] = b
    OBVIOUS
  <2>3. b.lo <= i /\ i < b.hi => In(i, chunks'[n + 1])
    BY <2>1, <2>2, Zenon DEF In
  <2>4. ASSUME NEW c \in DOMAIN chunks PROVE c \in DOMAIN chunks' /\ chunks'[c] = chunks[c]
    BY <1>2 DEF Grown, Added, Others
  <2>. QED BY <2>1, <2>3, <2>4, Zenon
<1>3. CASE Dropped(b, n)
  <2>1. ~(b.lo <= i /\ i < b.hi)
    BY <1>3 DEF Dropped, Length, Span
  <2>. QED BY <1>3, <2>1 DEF Dropped
<1>. QED BY <1>1, <1>2, <1>3 DEF Grown

-------------------------------------------------------------------------------
(* Turns of the loop. *)
LEMMA InitInv == Init => Inv
<1>. SUFFICES ASSUME Init PROVE Inv
  OBVIOUS
<1>1. content \in Seq(Char) /\ N \in Nat /\ start = 0 /\ chunks = << >> /\ index = 0
  BY DocumentsAssumption DEF Init, N
<1>2. returned = (Solid(0, N) = {})
  BY DEF Init
<1>3. ~returned => start < N
  <2>1. N = 0 => Solid(0, N) = {}
    BY DEF Solid
  <2>2. ~returned => N # 0
    BY <1>2, <2>1, Zenon
  <2>. QED BY <1>1, <2>2
<1>4. TypeOK
  BY <1>1, <1>2 DEF TypeOK
<1>5. Ordered /\ Latest
  BY <1>1 DEF Ordered, Latest
<1>6. Covered(IF returned THEN N ELSE start)
  <2>1. Solid(0, 0) = {}
    BY DEF Solid
  <2>2. Solid(0, IF returned THEN N ELSE start) = {}
    BY <1>1, <1>2, <2>1
  <2>. QED BY <2>2 DEF Covered
<1>. QED BY <1>1, <1>3, <1>4, <1>5, <1>6 DEF Inv

(* What a turn does, with the window's end and its span named. *)
LEMMA WindowIs ==
  ASSUME Inv, window
  PROVE  \E e \in Nat, b \in Span, n \in Nat :
           /\ e = WindowEnd /\ start < e /\ e <= N /\ e <= start + TARGET
           /\ e = N \/ start + OVERLAP < e
           /\ b = Strip(start, e) /\ start <= b.lo /\ b.lo <= b.hi /\ b.hi <= e
           /\ n = Len(chunks) /\ Grown(b, n)
           /\ IF e >= N THEN returned' = TRUE /\ start' = start
              ELSE start' = e - OVERLAP /\ returned' = (start' >= N)
<1>1. content \in Seq(Char) /\ start \in Nat /\ start < N /\ chunks \in Seq(Chunk)
      /\ index \in Nat /\ N \in Nat
  BY DEF Inv, TypeOK, window, Chunk, Span, N
<1>2. PICK e \in Nat : /\ e = WindowEnd /\ start < e /\ e <= N /\ e <= start + TARGET
                       /\ e = N \/ start + OVERLAP < e
  BY <1>1, WindowEndIs
<1>3. PICK b \in Span : b = Strip(start, e) /\ start <= b.lo /\ b.lo <= b.hi /\ b.hi <= e
  BY <1>1, <1>2, StripIs
<1>4. PICK n \in Nat : n = Len(chunks)
  BY <1>1
<1>5. Grown(b, n)
  <2>1. Emit(b)
    BY <1>2, <1>3 DEF window
  <2>. QED BY <1>1, <1>3, <1>4, <2>1, EmitCases DEF Grown
<1>6. IF e >= N THEN returned' = TRUE /\ start' = start
      ELSE start' = e - OVERLAP /\ returned' = (start' >= N)
  BY <1>2 DEF window, NextStart
<1>. QED BY <1>2, <1>3, <1>4, <1>5, <1>6

LEMMA WindowKeepsInv ==
  ASSUME Inv, window
  PROVE  Inv'
<1>1. PICK e \in Nat, b \in Span, n \in Nat :
        /\ e = WindowEnd /\ start < e /\ e <= N /\ e <= start + TARGET
        /\ e = N \/ start + OVERLAP < e
        /\ b = Strip(start, e) /\ start <= b.lo /\ b.lo <= b.hi /\ b.hi <= e
        /\ n = Len(chunks) /\ Grown(b, n)
        /\ IF e >= N THEN returned' = TRUE /\ start' = start
           ELSE start' = e - OVERLAP /\ returned' = (start' >= N)
  BY WindowIs
<1>2. /\ content \in Seq(Char) /\ start \in Nat /\ start < N /\ ~returned /\ content' = content
      /\ index = n /\ \A c \in DOMAIN chunks : chunks[c].chunk_index = c - 1
  BY <1>1 DEF Inv, TypeOK, window
<1>3. PICK m \in Nat : m = N /\ N' = m
  BY <1>2 DEF N
<1>4. b.lo \in Nat /\ b.hi \in Nat /\ OVERLAP \in Nat /\ TARGET \in Nat
  BY SizesAssumption DEF Span
<1>5. start' \in 0..m /\ returned' \in BOOLEAN /\ (~returned' => start' < m)
      /\ (~returned' => e # m /\ start' \in Nat /\ start' = e - OVERLAP /\ start < start')
      /\ (returned' => e = m)
  <2>1. CASE e >= m
    BY <1>1, <1>2, <1>3, <2>1
  <2>2. CASE ~(e >= m)
    <3>1. start' = e - OVERLAP /\ returned' = (start' >= m)
      BY <1>1, <1>3, <2>2
    <3>2. start + OVERLAP < e
      BY <1>1, <1>3, <2>2
    <3>3. start' \in Nat /\ start < start' /\ start' < m
      BY <1>2, <1>4, <2>2, <3>1, <3>2
    <3>4. ~(start' >= m)
      BY <3>3
    <3>5. ~returned'
      BY <3>1, <3>4, Zenon
    <3>6. returned' \in BOOLEAN
      BY <3>1
    <3>. QED BY <2>2, <3>1, <3>3, <3>5, <3>6
  <2>. QED BY <2>1, <2>2
<1>6. TypeOK'
  <2>1. index' = Len(chunks') /\ \A c \in DOMAIN chunks' : chunks'[c].chunk_index = c - 1
    BY <1>1, <1>2, NumbersKept
  <2>2. chunks' \in Seq(Chunk)
    BY <1>1 DEF Grown
  <2>. QED BY <1>2, <1>3, <1>5, <2>1, <2>2 DEF TypeOK, Chunk, Span
<1>7. \A c \in DOMAIN chunks' : chunks'[c].spans # << >> /\ Bounded(c)'
  <2>1. Length(b) <= TARGET
    BY <1>1, <1>2, <1>4 DEF Length
  <2>. QED BY <1>1, <2>1, LengthsKept DEF Inv
<1>8. Ordered'
  <2>1. ASSUME n # 0 PROVE FollowedBy(LastSpan(chunks[n]), b)
    <3>1. n \in DOMAIN chunks /\ chunks # << >>
      BY <1>1, <2>1 DEF Grown
    <3>2. LastSpan(chunks[n]) \in Span
      <4>1. chunks[n] \in Chunk /\ chunks[n].spans # << >>
        BY <3>1, <1>1 DEF Grown, Inv
      <4>. QED BY <4>1 DEF Chunk, LastSpan
    <3>3. Precedes(LastSpan(chunks[n]), start)
      BY <1>1, <1>2, <3>1 DEF Inv, Latest
    <3>. QED BY <1>1, <1>2, <1>3, <3>2, <3>3, StripFollows
  <2>2. Ordered /\ \A c \in DOMAIN chunks : chunks[c].spans # << >>
    BY DEF Inv
  <2>. QED BY <1>1, <2>1, <2>2, OrderKept
<1>9. Latest'
  <2>1. CASE returned' \/ chunks' = << >>
    BY <2>1 DEF Latest
  <2>2. CASE ~returned' /\ chunks' # << >>
    <3>1. PICK a : a = LastSpan(chunks'[Len(chunks')]) /\ a = b
      BY <1>1, <2>2, LastIsNew
    <3>2. PICK s \in Nat : s = start'
      BY <1>5, <2>2
    <3>3. Precedes(a, s)
      BY <1>1, <1>2, <1>3, <1>5, <2>2, <3>1, <3>2, StripPrecedes
    <3>4. Precedes(a, s)'
      BY <1>2, <1>3, <3>3 DEF Precedes, Solid
    <3>. QED BY <3>1, <3>2, <3>4 DEF Latest, Precedes
  <2>. QED BY <2>1, <2>2
<1>10. ASSUME NEW k \in Nat, k <= e PROVE Covered(k)'
  <2>. SUFFICES ASSUME NEW i \in Solid(0, k) PROVE \E c \in DOMAIN chunks' : In(i, chunks'[c])
    BY <1>2 DEF Covered, Solid
  <2>1. i \in Nat /\ i < k
    BY SolidIs
  <2>2. CASE i < start
    <3>1. i \in Solid(0, start)
      BY <1>2, <2>1, <2>2 DEF Solid
    <3>2. \E c \in DOMAIN chunks : In(i, chunks[c])
      BY <1>2, <3>1 DEF Inv, Covered
    <3>. QED BY <1>1, <2>1, <3>2, InKept
  <2>3. CASE ~(i < start)
    <3>1. i \in Solid(start, e)
      BY <1>2, <1>10, <2>1, <2>3 DEF Solid
    <3>2. b.lo <= i /\ i < b.hi
      BY <1>1, <1>2, <3>1, StripIs
    <3>. QED BY <1>1, <2>1, <3>2, InKept
  <2>. QED BY <2>2, <2>3
<1>11. Covered(IF returned THEN N ELSE start)'
  <2>1. CASE returned'
    <3>1. e = m
      BY <1>5, <2>1
    <3>. QED BY <1>3, <1>10, <2>1, <3>1
  <2>2. CASE ~returned'
    <3>1. start' \in Nat /\ start' <= e
      BY <1>4, <1>5, <2>2
    <3>. QED BY <1>10, <2>2, <3>1
  <2>. QED BY <2>1, <2>2
<1>. QED BY <1>3, <1>5, <1>6, <1>7, <1>8, <1>9, <1>11 DEF Inv

(* The invariant of every document's chunking. *)
THEOREM ChunkerInvariant == Spec => []Inv
<1>1. Inv /\ [Next]_vars => Inv'
  <2>. SUFFICES ASSUME Inv, [Next]_vars PROVE Inv'
    OBVIOUS
  <2>1. CASE window
    BY <2>1, WindowKeepsInv
  <2>2. CASE UNCHANGED vars
    BY <2>2 DEF vars, Inv, TypeOK, N, Bounded, Ordered, Onward, Latest, Precedes, Solid, Covered
  <2>. QED BY <2>1, <2>2 DEF Next
<1>. QED BY InitInv, <1>1, PTL DEF Spec

(* The state is what TypeOK says: chunks are numbered from 0 without gaps  *)
(* (strategy.py:103-116).                                                  *)
THEOREM TypeCorrect == Spec => []TypeOK
<1>1. Inv => TypeOK
  BY DEF Inv
<1>. QED BY ChunkerInvariant, <1>1, PTL

(* Every character that is not blank is in a chunk when the chunker        *)
(* returns, however windows were cut, stripped and merged                  *)
(* (strategy.py:76-121).                                                   *)
THEOREM NothingLost == Spec => []NothingIsLost
<1>1. Inv => NothingIsLost
  BY DEF Inv, Covered, NothingIsLost
<1>. QED BY ChunkerInvariant, <1>1, PTL

(* The texts of the chunks go forward through the document and repeat no   *)
(* more than the overlap (strategy.py:85-101, 121).                        *)
THEOREM OverlapOnly == Spec => []OnlyOverlapIsRepeated
<1>1. ASSUME Inv PROVE OnlyOverlapIsRepeated
  <2>1. Ordered
    BY <1>1 DEF Inv
  <2>. QED BY <2>1, Zenon DEF Ordered, Forward, Onward, FollowedBy, LastSpan, OnlyOverlapIsRepeated
<1>. QED BY ChunkerInvariant, <1>1, PTL

(* Only the first chunk may be shorter than MIN, and one is longer than    *)
(* TARGET only by what was merged into it (strategy.py:87-101).            *)
THEOREM LengthsBounded == Spec => []LengthsAreBounded
<1>1. Inv => LengthsAreBounded
  BY DEF Inv, Bounded, LengthsAreBounded
<1>. QED BY ChunkerInvariant, <1>1, PTL

(* Each window starts after the one before and no further than its end     *)
(* (strategy.py:79-83, 119-121).                                           *)
THEOREM WindowsAdvance == Spec => WindowsAdvanceAndOverlap
<1>1. Inv /\ [Next]_vars => [~returned' => start < start' /\ start' <= WindowEnd]_vars
  <2>. SUFFICES ASSUME Inv, window, ~returned' PROVE start < start' /\ start' <= WindowEnd
    BY DEF Next
  <2>1. PICK e \in Nat : /\ e = WindowEnd /\ e <= N
                         /\ e = N \/ start + OVERLAP < e
                         /\ IF e >= N THEN returned' = TRUE ELSE start' = e - OVERLAP
    BY WindowIs
  <2>2. start \in Nat /\ OVERLAP \in Nat /\ N \in Nat
    BY SizesAssumption DEF Inv, TypeOK, N
  <2>. QED BY <2>1, <2>2
<1>. QED BY ChunkerInvariant, <1>1, PTL DEF Spec, WindowsAdvanceAndOverlap

===============================================================================
