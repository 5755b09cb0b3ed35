--------------------------- MODULE QueryStreamProofs ---------------------------
(***************************************************************************)
(* Proofs about the query stream, for replies of any length and a graph    *)
(* any number of events ahead of the generator.                            *)
(***************************************************************************)
EXTENDS QueryStream, WellFoundedInduction, SequenceTheorems, TLAPS

-------------------------------------------------------------------------------
(* Sets of natural numbers. *)

(* Every set of natural numbers has a least member. *)
LEMMA LeastNat ==
  ASSUME NEW S \in SUBSET Nat, S # {}
  PROVE  \E m \in S : \A k \in S : m <= k
<1>. DEFINE R == OpToRel(<, Nat)
<1>1. IsWellFoundedOn(R, Nat)
  BY NatLessThanWellFounded
<1>2. ASSUME NEW k \in Nat, NEW m \in Nat, k < m PROVE <<k, m>> \in R
  BY <1>2, Zenon DEF OpToRel
<1>. HIDE DEF R
<1>3. PICK m \in S : \A k \in S : ~(<<k, m>> \in R)
  BY <1>1, WFMin
<1>4. ASSUME NEW k \in S PROVE m <= k
  <2>1. k \in Nat /\ m \in Nat
    OBVIOUS
  <2>2. ~(k < m)
    BY <1>2, <1>3, <2>1
  <2>. QED BY <2>1, <2>2
<1>. QED BY <1>4

(* A set with 0 and the successor of each of its members has them all. *)
LEMMA SetInduction ==
  ASSUME NEW S, 0 \in S, \A n \in Nat : n \in S => n + 1 \in S
  PROVE  Nat \subseteq S
<1>. SUFFICES ASSUME Nat \ S # {} PROVE FALSE
  OBVIOUS
<1>1. PICK m \in Nat \ S : \A k \in Nat \ S : m <= k
  <2>1. Nat \ S \in SUBSET Nat
    OBVIOUS
  <2>. QED BY <2>1, LeastNat
<1>2. m # 0 /\ m - 1 \in Nat
  BY <1>1
<1>3. m - 1 \in S
  BY <1>1, <1>2
<1>. QED BY <1>1, <1>2, <1>3

-------------------------------------------------------------------------------
(* What Ascending computes. *)
Defines(f, I, n) ==
  f = [k \in 0..n |-> IF k = 0 THEN << >>
                      ELSE IF k \in I THEN Append(f[k - 1], k) ELSE f[k - 1]]

LEMMA AscendingExists ==
  ASSUME NEW I, NEW n \in Nat
  PROVE  \E f : Defines(f, I, n)
<1>. DEFINE S == {m \in Nat : \E f : Defines(f, I, m)}
<1>1. 0 \in S
  <2>. DEFINE f == [k \in 0..0 |-> << >>]
  <2>1. Defines(f, I, 0)
    BY DEF Defines
  <2>. QED BY <2>1
<1>2. ASSUME NEW m \in Nat, m \in S PROVE m + 1 \in S
  <2>1. PICK f : Defines(f, I, m)
    BY <1>2
  <2>. DEFINE last == IF m + 1 \in I THEN Append(f[m], m + 1) ELSE f[m]
              g == [k \in 0..(m + 1) |-> IF k = m + 1 THEN last ELSE f[k]]
  <2>2. \A k \in 0..m : g[k] = f[k]
    OBVIOUS
  <2>3. \A k \in 0..m : f[k] = IF k = 0 THEN << >>
                               ELSE IF k \in I THEN Append(f[k - 1], k) ELSE f[k - 1]
    BY <2>1 DEF Defines
  <2>4. \A k \in 0..(m + 1) : k = m + 1 \/ k \in 0..m
    OBVIOUS
  <2>5. \A k \in 0..(m + 1) : k # 0 => k - 1 \in 0..m
    OBVIOUS
  <2>6. g[m + 1] = last /\ g[m] = f[m]
    BY <2>2
  <2>. HIDE DEF last
  <2>7. ASSUME NEW k \in 0..(m + 1)
        PROVE  g[k] = IF k = 0 THEN << >>
                      ELSE IF k \in I THEN Append(g[k - 1], k) ELSE g[k - 1]
    <3>1. CASE k = m + 1
      BY <2>6, <3>1 DEF last
    <3>2. CASE k # m + 1
      BY <2>2, <2>3, <2>4, <3>2
    <3>. QED BY <3>1, <3>2
  <2>8. g = [k \in 0..(m + 1) |-> g[k]]
    OBVIOUS
  <2>. HIDE DEF g
  <2>9. Defines(g, I, m + 1)
    BY <2>7, <2>8 DEF Defines
  <2>. QED BY <2>9
<1>. HIDE DEF S
<1>3. Nat \subseteq S
  BY <1>1, <1>2, SetInduction
<1>. QED BY <1>3 DEF S

LEMMA AscendingAgrees ==
  ASSUME NEW I, NEW J, NEW m \in Nat, NEW n \in Nat, m <= n,
         \A k \in 1..m : k \in I <=> k \in J,
         NEW f, NEW g, Defines(f, I, m), Defines(g, J, n)
  PROVE  \A k \in 0..m : f[k] = g[k]
<1>. DEFINE S == {k \in Nat : k <= m => f[k] = g[k]}
<1>0. /\ \A k \in 0..m : f[k] = IF k = 0 THEN << >>
                                ELSE IF k \in I THEN Append(f[k - 1], k) ELSE f[k - 1]
      /\ \A k \in 0..n : g[k] = IF k = 0 THEN << >>
                                ELSE IF k \in J THEN Append(g[k - 1], k) ELSE g[k - 1]
  BY DEF Defines
<1>1. 0 \in S
  BY <1>0
<1>2. ASSUME NEW k \in Nat, k \in S PROVE k + 1 \in S
  BY <1>0, <1>2
<1>. HIDE DEF S
<1>3. Nat \subseteq S
  BY <1>1, <1>2, SetInduction
<1>. QED BY <1>3 DEF S

LEMMA AscendingIs ==
  ASSUME NEW I, NEW n \in Nat
  PROVE  \E f : Defines(f, I, n) /\ Ascending(I, n) = f[n]
<1>. DEFINE f == CHOOSE g : Defines(g, I, n)
<1>1. Defines(f, I, n)
  BY AscendingExists
<1>2. Ascending(I, n) = f[n]
  BY Zenon DEF Ascending, Defines
<1>. QED BY <1>1, <1>2

(* The recursion equation of Ascending, which only looks at 1..n. *)
LEMMA AscendingStep ==
  ASSUME NEW I, NEW n \in Nat
  PROVE  /\ Ascending(I, 0) = << >>
         /\ n + 1 \in I => Ascending(I, n + 1) = Append(Ascending(I, n), n + 1)
         /\ n + 1 \notin I => Ascending(I, n + 1) = Ascending(I, n)
<1>1. PICK f : Defines(f, I, n) /\ Ascending(I, n) = f[n]
  BY AscendingIs
<1>2. PICK g : Defines(g, I, n + 1) /\ Ascending(I, n + 1) = g[n + 1]
  BY AscendingIs
<1>3. PICK h : Defines(h, I, 0) /\ Ascending(I, 0) = h[0]
  BY AscendingIs
<1>4. f[n] = g[n]
  BY <1>1, <1>2, AscendingAgrees
<1>5. g[n + 1] = IF n + 1 \in I THEN Append(g[n], n + 1) ELSE g[n]
  <2>1. \A k \in 0..(n + 1) : g[k] = IF k = 0 THEN << >>
                                     ELSE IF k \in I THEN Append(g[k - 1], k) ELSE g[k - 1]
    BY <1>2 DEF Defines
  <2>2. n + 1 \in 0..(n + 1) /\ n + 1 # 0 /\ (n + 1) - 1 = n
    OBVIOUS
  <2>. QED BY <2>1, <2>2
<1>6. h[0] = << >>
  BY <1>3 DEF Defines
<1>. QED BY <1>1, <1>2, <1>3, <1>4, <1>5, <1>6

(* The members of an interval, in ascending order. *)
LEMMA AscendingInterval ==
  ASSUME NEW a \in Nat, NEW m \in Nat, NEW n \in Nat, a + m <= n
  PROVE  Ascending((a + 1)..(a + m), n) = [i \in 1..m |-> a + i]
<1>. DEFINE I == (a + 1)..(a + m)
            upto(k) == [i \in 1..(IF k <= a THEN 0 ELSE IF k <= a + m THEN k - a ELSE m) |-> a + i]
            S == {k \in Nat : Ascending(I, k) = upto(k)}
<1>1. Ascending(I, 0) = upto(0)
  BY AscendingStep
<1>2. ASSUME NEW k \in Nat, k + 1 \in I
      PROVE  /\ upto(k + 1) = Append(upto(k), k + 1)
             /\ Ascending(I, k + 1) = Append(Ascending(I, k), k + 1)
  <2>1. upto(k) = [i \in 1..(k - a) |-> a + i] /\ k - a \in Nat
    BY <1>2
  <2>2. upto(k + 1) = [i \in 1..((k - a) + 1) |-> a + i]
    BY <1>2
  <2>3. upto(k + 1) = Append(upto(k), k + 1)
    BY <2>1, <2>2
  <2>. QED BY <1>2, <2>3, AscendingStep
<1>3. ASSUME NEW k \in Nat, k + 1 \notin I
      PROVE  /\ upto(k + 1) = upto(k)
             /\ Ascending(I, k + 1) = Ascending(I, k)
  <2>1. upto(k + 1) = upto(k)
    BY <1>3
  <2>. QED BY <1>3, <2>1, AscendingStep
<1>4. upto(n) = [i \in 1..m |-> a + i]
  OBVIOUS
<1>. HIDE DEF upto, I
<1>5. ASSUME NEW k \in Nat, k \in S PROVE k + 1 \in S
  <2>1. Ascending(I, k) = upto(k)
    BY <1>5
  <2>2. Ascending(I, k + 1) = upto(k + 1)
    BY <1>2, <1>3, <2>1, Zenon
  <2>. QED BY <2>2
<1>6. 0 \in S
  BY <1>1
<1>. HIDE DEF S
<1>7. n \in S
  BY <1>5, <1>6, SetInduction
<1>8. Ascending(I, n) = upto(n)
  BY <1>7 DEF S
<1>. QED BY <1>4, <1>8 DEF I

Interval(a, m) == (a + 1)..(a + m)
Counted(a, m) == [i \in 1..m |-> a + i]

LEMMA AscendingOf ==
  ASSUME NEW I, NEW a \in Nat, NEW m \in Nat, NEW n \in Nat, a + m <= n, I = Interval(a, m)
  PROVE  Ascending(I, n) = Counted(a, m)
BY AscendingInterval, Zenon DEF Interval, Counted

-------------------------------------------------------------------------------
(* The values of the variables. *)
Kind == {"answer", "sentinel", "stray", "plan"}
Word == Kind \X Nat
Token == [class : {"open", "close", "other"}] \cup [class : {"text"}, word : Word]
Outcome == {"uncalled", "list", "empty", "unlisted", "answer", "none", "number", "raises"}
Call == [tokens : Seq(Token), outcome : Outcome]
TokenEvent == [type : {"token"}, node : Nodes, chunk : Token]
EndEvent == [type : {"end"}, citations : 0..1, retrieved_chunks : 0..1]

TypeInv ==
  /\ phase \in {"idle", "streaming", "answered", "saved", "failed", "cut"}
  /\ task \in Nodes \cup Stopped
  /\ sub_tasks \in 0..1 /\ retrieved_chunks \in 0..1 /\ citations \in 0..1
  /\ searched \in BOOLEAN
  /\ call \in Call /\ reply \in Call
  /\ events \in Seq(TokenEvent \cup EndEvent)
  /\ held \in [citations : 0..1, retrieved_chunks : 0..1]

(* A reply with m text tokens: where each class of token is. *)
Shape(tokens, m) ==
  /\ m > 0 => m + 1 <= Len(tokens)
  /\ \A i \in 1..Len(tokens) :
       /\ (tokens[i].class = "open") <=> (i = 1 /\ Len(tokens) > 1)
       /\ (tokens[i].class = "text") <=> (i \in 2..(m + 1))
       /\ (tokens[i].class = "close") <=> (i = m + 2)

(* What the extractor is after c of a reply's n tokens, m of them text,    *)
(* and how many words it has let through.                                  *)
After(n, m, c) ==
  IF c = 0 \/ n <= 1 THEN "SEEKING" ELSE IF c <= m + 1 THEN "IN_VALUE" ELSE "DONE"
Passed(m, c) == IF c <= 1 THEN 0 ELSE IF c <= m + 1 THEN c - 1 ELSE m

PlannerStep == StepRecord("Planner", << >>)
RetrieverStep == StepRecord("Retriever", <<"ai_search_read">>)
SynthesizerStep == StepRecord("Synthesizer", << >>)

(* The trace is as long as the graph is far. *)
Progress ==
  /\ task \in {"unstarted", "planner"} => step_log = << >>
  /\ task = "retriever" => step_log = <<PlannerStep>>
  /\ task = "synthesizer" => step_log = <<PlannerStep, RetrieverStep>>
  /\ task = "ended" => step_log = <<PlannerStep, RetrieverStep, SynthesizerStep>>
  /\ task \in {"raised", "cancelled"} =>
       step_log \in {<< >>, <<PlannerStep>>, <<PlannerStep, RetrieverStep>>}

(* Nothing moves before the request is admitted. *)
Admitted ==
  /\ auth_enabled \in BOOLEAN /\ authorization \in Authorization
  /\ status # Unsent => status = Admission
  /\ (status = 200) <=> (phase # "idle")
  /\ (phase = "idle") <=> (task = "unstarted")

(* What an answer needs. *)
Answered ==
  /\ task # "ended" => answer = NoAnswer /\ citations = 0
  /\ task = "ended" => \/ answer = "refusal" /\ citations = 0
                       \/ answer = "accepted" /\ retrieved_chunks > 0
  /\ retrieved_chunks > 0 => searched

(* Which call the graph awaits. *)
Awaited ==
  /\ (call = NoCall) <=> (call.outcome = "uncalled")
  /\ task \in {"retriever"} \cup Stopped => call = NoCall
  /\ task \in {"unstarted", "planner", "retriever"} => reply = NoCall
  /\ task = "synthesizer" =>
       \/ call = NoCall /\ reply = NoCall
       \/ call # NoCall /\ call.outcome = reply.outcome /\ retrieved_chunks > 0

(* The events on their way: p of earlier nodes, k of the synthesizer after *)
(* the c that were consumed, then the end.                                 *)
Suffix(tokens, d) == [i \in 1..(Len(tokens) - d) |-> tokens[d + i]]

Earlier(p) == \A i \in 1..p : events[i].type = "token" /\ events[i].node # "synthesizer"

SynthesizerToken(t) == [type |-> "token", node |-> "synthesizer", chunk |-> t]

Pending(c, p, k) == \A i \in 1..k : events[p + i] = SynthesizerToken(reply.tokens[c + i])

ToCome(d) == (task = "synthesizer" /\ call # NoCall) => call.tokens = Suffix(reply.tokens, d)

EndOf(c, n) == [type |-> "end", citations |-> c, retrieved_chunks |-> n]
Results == [citations |-> citations, retrieved_chunks |-> retrieved_chunks]

Ending(d, l) ==
  /\ task # "ended" => Len(events) = l
  /\ task = "ended" =>
       /\ d = Len(reply.tokens)
       /\ \/ Len(events) = l + 1 /\ events[l + 1] = EndOf(citations, retrieved_chunks)
          \/ events = << >> /\ l = 0 /\ held = Results

Queue(c, p, k) ==
  /\ c + k <= Len(reply.tokens)
  /\ Earlier(p) /\ Pending(c, p, k) /\ ToCome(c + k) /\ Ending(c + k, p + k)

TokensSent(n) == [i \in 1..n |-> [type |-> "token", content |-> reply.tokens[i + 1].word]]

Finished == task = "ended" /\ events = << >>

(* What the client has received of the n words let through. *)
Delivered(n) ==
  /\ answer_parts = [i \in 1..n |-> reply.tokens[i + 1].word]
  /\ phase \in {"idle", "streaming"} => wire = TokensSent(n)
  /\ phase \in {"answered", "saved"} =>
       Finished /\ wire = Append(TokensSent(n), [type |-> "done", citations |-> citations])
  /\ phase = "failed" => task = "raised" /\ wire = Append(TokensSent(n), [type |-> "error"])
  /\ phase = "cut" =>
       \/ wire = TokensSent(n)
       \/ Finished /\ wire = Append(TokensSent(n), [type |-> "done", citations |-> citations])
  /\ record = IF phase = "saved" THEN <<[answer |-> answer_parts, chunks |-> retrieved_chunks]>>
              ELSE << >>

StreamAt(m, c, p, k) ==
  /\ Shape(reply.tokens, m)
  /\ extractor = After(Len(reply.tokens), m, c)
  /\ Queue(c, p, k)
  /\ Delivered(Passed(m, c))

Stream ==
  \E m, c \in 0..Len(reply.tokens), p, k \in 0..Len(events) : StreamAt(m, c, p, k)

(* The inductive invariant. *)
StreamInv == TypeInv /\ Progress /\ Admitted /\ Answered /\ Awaited /\ Stream

-------------------------------------------------------------------------------
(* Every reply is a call's, and a synthesizer's reply has a shape. *)
LEMMA TokensAre ==
  /\ Open \in Token /\ Open.class = "open"
  /\ Close \in Token /\ Close.class = "close"
  /\ Other \in Token /\ Other.class = "other"
  /\ \A w \in Kind, i \in Nat :
       Text(w, i) \in Token /\ Text(w, i).class = "text"
  /\ \A t \in Token : t.class = "text" => t.word \in Word
BY DEF Token, Word, Kind, Open, Close, Other, Text

LEMMA BegunIs ==
  ASSUME NEW w \in Kind, NEW m \in Nat
  PROVE  LET T == Begun(w, m) IN
         /\ T \in Seq(Token) /\ Len(T) = m + 1
         /\ T[1] = Open /\ \A i \in 2..(m + 1) : T[i] = Text(w, i - 1)
<1>1. Texts(w, m) \in Seq(Token) /\ Len(Texts(w, m)) = m
  BY TokensAre DEF Texts
<1>2. \A i \in 1..m : Texts(w, m)[i] = Text(w, i)
  BY DEF Texts
<1>3. <<Open>> \in Seq(Token) /\ Len(<<Open>>) = 1
  BY TokensAre
<1>. QED BY <1>1, <1>2, <1>3, ConcatProperties DEF Begun

LEMMA WholeIs ==
  ASSUME NEW w \in Kind, NEW m \in Nat
  PROVE  LET T == Whole(w, m) IN
         /\ T \in Seq(Token) /\ Len(T) = m + 3
         /\ T[1] = Open /\ \A i \in 2..(m + 1) : T[i] = Text(w, i - 1)
         /\ T[m + 2] = Close /\ T[m + 3] = Other
<1>. DEFINE S == Begun(w, m)
            E == <<Close, Other>>
<1>1. E \in Seq(Token) /\ Len(E) = 2 /\ E[1] = Close /\ E[2] = Other
  BY TokensAre
<1>2. /\ S \in Seq(Token) /\ Len(S) = m + 1
      /\ S[1] = Open /\ \A i \in 2..(m + 1) : S[i] = Text(w, i - 1)
  BY BegunIs
<1>3. Whole(w, m) = S \o E
  BY DEF Whole
<1>. HIDE DEF S, E
<1>4. /\ S \o E \in Seq(Token) /\ Len(S \o E) = m + 3
      /\ \A i \in 1..(m + 1) : (S \o E)[i] = S[i]
      /\ (S \o E)[m + 2] = E[1] /\ (S \o E)[m + 3] = E[2]
  <2>1. S \in Seq(Token) /\ E \in Seq(Token)
    BY <1>1, <1>2
  <2>2. S \o E \in Seq(Token) /\ Len(S \o E) = Len(S) + Len(E)
    BY <2>1, ConcatProperties, Zenon
  <2>. DEFINE T == S \o E
  <2>. HIDE DEF T
  <2>3. \A i \in 1..(Len(S) + Len(E)) : T[i] = IF i <= Len(S) THEN S[i] ELSE E[i - Len(S)]
    BY <2>1, ConcatProperties, Zenon DEF T
  <2>4. \A i \in 1..(m + 3) : T[i] = IF i <= m + 1 THEN S[i] ELSE E[i - (m + 1)]
    BY <1>1, <1>2, <2>3
  <2>5. /\ \A i \in 1..(m + 1) : T[i] = S[i]
        /\ T[m + 2] = E[1] /\ T[m + 3] = E[2]
    BY <2>4
  <2>. USE DEF T
  <2>. QED BY <1>1, <1>2, <2>2, <2>5
<1>. QED BY <1>1, <1>2, <1>3, <1>4

LEMMA BegunHasShape ==
  ASSUME NEW w \in Kind, NEW m \in Nat \ {0}
  PROVE  Shape(Begun(w, m), m)
<1>. DEFINE T == Begun(w, m)
<1>1. Len(T) = m + 1 /\ T[1] = Open /\ \A i \in 2..(m + 1) : T[i] = Text(w, i - 1)
  BY BegunIs
<1>2. \A i \in 2..(m + 1) : T[i].class = "text"
  BY <1>1, TokensAre
<1>. HIDE DEF T
<1>3. Shape(T, m)
  BY <1>1, <1>2, TokensAre DEF Shape
<1>. QED BY <1>3 DEF T

LEMMA WholeHasShape ==
  ASSUME NEW w \in Kind, NEW m \in Nat
  PROVE  Shape(Whole(w, m), m)
<1>. DEFINE T == Whole(w, m)
<1>1. /\ Len(T) = m + 3 /\ T[1] = Open /\ T[m + 2] = Close /\ T[m + 3] = Other
      /\ \A i \in 2..(m + 1) : T[i] = Text(w, i - 1)
  BY WholeIs
<1>2. \A i \in 2..(m + 1) : T[i].class = "text"
  BY <1>1, TokensAre
<1>3. \A i \in 1..(m + 3) : i = 1 \/ i \in 2..(m + 1) \/ i = m + 2 \/ i = m + 3
  OBVIOUS
<1>. HIDE DEF T
<1>4. Shape(T, m)
  BY <1>1, <1>2, <1>3, TokensAre DEF Shape
<1>. QED BY <1>4 DEF T

LEMMA SynthesizerRepliesHaveShape ==
  ASSUME NEW r \in SynthesizerReplies
  PROVE  /\ r \in Call /\ r.outcome # "uncalled"
         /\ \E m \in 0..Len(r.tokens) : Shape(r.tokens, m)
<1>. DEFINE Good(T) == T \in Seq(Token) /\ \E m \in 0..Len(T) : Shape(T, m)
<1>1. ASSUME NEW w \in Kind, NEW m \in Nat
      PROVE  Good(Whole(w, m)) /\ (m # 0 => Good(Begun(w, m)))
  <2>1. Good(Whole(w, m))
    <3>1. m \in 0..Len(Whole(w, m)) /\ Whole(w, m) \in Seq(Token)
      BY WholeIs
    <3>. QED BY <3>1, WholeHasShape, Zenon
  <2>2. ASSUME m # 0 PROVE Good(Begun(w, m))
    <3>1. m \in 0..Len(Begun(w, m)) /\ Begun(w, m) \in Seq(Token) /\ m \in Nat \ {0}
      BY <2>2, BegunIs
    <3>. QED BY <3>1, BegunHasShape, Zenon
  <2>. QED BY <2>1, <2>2
<1>2. Good(<<Other>>)
  <2>1. <<Other>> \in Seq(Token) /\ Shape(<<Other>>, 0)
    BY TokensAre DEF Shape
  <2>. QED BY <2>1
<1>3. Good(<< >>)
  BY DEF Shape
<1>. HIDE DEF Good
<1>4. ASSUME NEW T, NEW o \in {"answer", "raises", "none", "number"}, Good(T), r = Reply(T, o)
      PROVE  r \in Call /\ r.outcome # "uncalled" /\ Good(r.tokens)
  <2>1. r.tokens = T /\ r.outcome = o
    BY <1>4 DEF Reply
  <2>2. T \in Seq(Token)
    BY <1>4 DEF Good
  <2>3. r \in Call
    <3>1. r = [tokens |-> T, outcome |-> o]
      BY <1>4 DEF Reply
    <3>2. o \in Outcome
      BY DEF Outcome
    <3>. QED BY <2>2, <3>1, <3>2 DEF Call
  <2>4. o # "uncalled"
    OBVIOUS
  <2>. QED BY <1>4, <2>1, <2>3, <2>4
<1>5. \A i \in 1..MaxText : Good(Whole("answer", i)) /\ Good(Begun("answer", i))
  BY <1>1, MaxTextAssumption DEF Kind
<1>6. Good(Whole("sentinel", 1)) /\ Good(Whole("answer", 0)) /\ Good(Whole("stray", 1))
  BY <1>1 DEF Kind
<1>7. r \in Call /\ r.outcome # "uncalled" /\ Good(r.tokens)
  BY <1>2, <1>3, <1>4, <1>5, <1>6 DEF SynthesizerReplies
<1>. QED BY <1>7 DEF Good

LEMMA PlannerRepliesAreCalls ==
  ASSUME NEW r \in PlannerReplies
  PROVE  r \in Call /\ r.outcome # "uncalled"
<1>1. Begun("plan", 1) \o <<Close>> \in Seq(Token)
  BY BegunIs, TokensAre, ConcatProperties DEF Kind
<1>2. r.tokens \in {<< >>, Begun("plan", 1) \o <<Close>>} /\ r.outcome \in {"list", "empty", "raises", "unlisted"}
  BY DEF PlannerReplies
<1>3. r = [tokens |-> r.tokens, outcome |-> r.outcome]
  BY DEF PlannerReplies
<1>4. r.tokens \in Seq(Token)
  <2>1. r.tokens = << >> \/ r.tokens = Begun("plan", 1) \o <<Close>>
    BY <1>2
  <2>2. << >> \in Seq(Token)
    OBVIOUS
  <2>. QED BY <1>1, <2>1, <2>2, Zenon
<1>5. r.outcome \in Outcome /\ r.outcome # "uncalled"
  <2>1. r.outcome \in {"list", "empty", "raises", "unlisted"}
    BY <1>2
  <2>. QED BY <2>1 DEF Outcome
<1>. QED BY <1>3, <1>4, <1>5 DEF Call

(* Control is all of the invariant but what is on its way or on the wire. *)
Control == TypeInv /\ Progress /\ Admitted /\ Answered /\ Awaited

-------------------------------------------------------------------------------
(* Who leaves what alone. *)
GraphStep == Graph \/ graph_cancelled
GeneratorStep == Generator \/ save \/ disconnect

LEMMA NextIs ==
  ASSUME Next
  PROVE  query \/ query_refused \/ GraphStep \/ GeneratorStep
BY DEF Next, GraphStep, GeneratorStep

LEMMA GraphLeaves ==
  ASSUME GraphStep
  PROVE  /\ phase' = phase /\ status' = status /\ auth_enabled' = auth_enabled
         /\ authorization' = authorization /\ Admission' = Admission
         /\ extractor' = extractor /\ answer_parts' = answer_parts /\ held' = held
         /\ wire' = wire /\ record' = record
<1>1. UNCHANGED <<phase, request, generator>>
  <2>1. ASSUME raise PROVE UNCHANGED <<phase, request, generator>>
    BY <2>1 DEF raise
  <2>2. ASSUME NEW a, NEW c, synthesizer_ends(a, c) PROVE UNCHANGED <<phase, request, generator>>
    BY <2>2 DEF synthesizer_ends
  <2>3. ASSUME planner_calls PROVE UNCHANGED <<phase, request, generator>>
    BY <2>1, <2>3 DEF planner_calls
  <2>4. ASSUME model_streams PROVE UNCHANGED <<phase, request, generator>>
    BY <2>4 DEF model_streams
  <2>5. ASSUME planner_returns PROVE UNCHANGED <<phase, request, generator>>
    BY <2>5 DEF planner_returns
  <2>6. ASSUME retriever_fails PROVE UNCHANGED <<phase, request, generator>>
    BY <2>1, <2>6 DEF retriever_fails
  <2>7. ASSUME retriever_returns PROVE UNCHANGED <<phase, request, generator>>
    BY <2>7 DEF retriever_returns
  <2>8. ASSUME synthesizer_calls PROVE UNCHANGED <<phase, request, generator>>
    BY <2>8 DEF synthesizer_calls
  <2>9. ASSUME synthesizer_refuses \/ synthesizer_accepts PROVE UNCHANGED <<phase, request, generator>>
    BY <2>2, <2>9 DEF synthesizer_refuses, synthesizer_accepts
  <2>10. ASSUME synthesizer_fails PROVE UNCHANGED <<phase, request, generator>>
    BY <2>1, <2>10 DEF synthesizer_fails
  <2>11. ASSUME graph_cancelled PROVE UNCHANGED <<phase, request, generator>>
    BY <2>11 DEF graph_cancelled
  <2>. QED BY <2>3, <2>4, <2>5, <2>6, <2>7, <2>8, <2>9, <2>10, <2>11 DEF GraphStep, Graph
<1>2. auth_enabled' = auth_enabled /\ authorization' = authorization /\ status' = status
  BY <1>1 DEF request, config
<1>3. Admission' = Admission
  BY <1>2 DEF Admission
<1>. QED BY <1>1, <1>2, <1>3 DEF generator

LEMMA GeneratorLeaves ==
  ASSUME GeneratorStep
  PROVE  /\ status' = status /\ auth_enabled' = auth_enabled /\ authorization' = authorization
         /\ Admission' = Admission
         /\ task' = task /\ call' = call /\ reply' = reply /\ searched' = searched
         /\ sub_tasks' = sub_tasks /\ retrieved_chunks' = retrieved_chunks
         /\ answer' = answer /\ citations' = citations /\ step_log' = step_log
<1>1. UNCHANGED <<request, graph>>
  BY DEF GeneratorStep, Generator, consume_token, consume_end, send_done, send_error, save, disconnect
<1>2. auth_enabled' = auth_enabled /\ authorization' = authorization /\ status' = status
  BY <1>1 DEF request, config
<1>3. Admission' = Admission
  BY <1>2 DEF Admission
<1>. QED BY <1>1, <1>2, <1>3 DEF graph, agent_state

(* What each step of the graph does to the graph. *)
LEMMA Raises ==
  ASSUME raise
  PROVE  /\ task' = "raised" /\ call' = NoCall /\ reply' = reply /\ events' = events
         /\ sub_tasks' = sub_tasks /\ retrieved_chunks' = retrieved_chunks /\ searched' = searched
         /\ answer' = answer /\ citations' = citations /\ step_log' = step_log
BY DEF raise, agent_state

LEMMA Ends ==
  ASSUME NEW a, NEW c, synthesizer_ends(a, c)
  PROVE  /\ step_log' = Append(step_log, SynthesizerStep)
         /\ answer' = a /\ citations' = c /\ task' = "ended" /\ call' = NoCall
         /\ events' = Append(events, [type |-> "end", citations |-> c, retrieved_chunks |-> retrieved_chunks])
         /\ reply' = reply
         /\ sub_tasks' = sub_tasks /\ retrieved_chunks' = retrieved_chunks /\ searched' = searched
BY DEF synthesizer_ends, Logged, SynthesizerStep

LEMMA Starts ==
  ASSUME Admitted, query \/ query_refused
  PROVE  /\ auth_enabled' = auth_enabled /\ authorization' = authorization /\ Admission' = Admission
         /\ call' = call /\ reply' = reply /\ events' = events /\ searched' = searched
         /\ sub_tasks' = sub_tasks /\ retrieved_chunks' = retrieved_chunks
         /\ answer' = answer /\ citations' = citations /\ step_log' = step_log
         /\ extractor' = extractor /\ answer_parts' = answer_parts /\ held' = held
         /\ wire' = wire /\ record' = record
         /\ status = Unsent /\ status' = Admission /\ phase = "idle" /\ task = "unstarted"
         /\ \/ phase' = phase /\ task' = task /\ Admission # 200
            \/ phase' = "streaming" /\ task' = "planner" /\ Admission = 200
<1>1. auth_enabled' = auth_enabled /\ authorization' = authorization
  BY DEF query, query_refused, config
<1>2. Admission' = Admission
  BY <1>1 DEF Admission
<1>3. UNCHANGED <<call, reply, events, searched, agent_state, generator>>
  BY DEF query, query_refused, graph
<1>4. status = Unsent /\ phase = "idle" /\ task = "unstarted"
  BY DEF query, query_refused, Admitted, Unsent
<1>. QED BY <1>1, <1>2, <1>3, <1>4 DEF agent_state, generator, query, query_refused, graph

(* The five ways the graph moves. *)
Keeps == step_log' = step_log /\ answer' = answer /\ citations' = citations
KeepsEvidence ==
  sub_tasks' = sub_tasks /\ retrieved_chunks' = retrieved_chunks /\ searched' = searched

Streams ==
  /\ task \in Nodes /\ call.tokens # << >>
  /\ call' = [call EXCEPT !.tokens = Tail(@)]
  /\ events' = Append(events, [type |-> "token", node |-> task, chunk |-> Head(call.tokens)])
  /\ task' = task /\ reply' = reply /\ Keeps /\ KeepsEvidence

Calls ==
  /\ Idling /\ call' \in Call /\ call'.outcome # "uncalled"
  /\ \/ task = "planner" /\ reply' = reply
     \/ /\ task = "synthesizer" /\ retrieved_chunks > 0
        /\ reply' \in SynthesizerReplies /\ call' = reply'
  /\ events' = events /\ task' = task /\ Keeps /\ KeepsEvidence

Stops ==
  /\ task \in Nodes /\ task' \in {"raised", "cancelled"} /\ call' = NoCall
  /\ events' = events /\ reply' = reply /\ Keeps /\ KeepsEvidence

Advances ==
  /\ \/ /\ task = "planner" /\ task' = "retriever"
        /\ step_log' = Append(step_log, PlannerStep)
        /\ call' = NoCall /\ retrieved_chunks' = retrieved_chunks /\ searched' = searched
     \/ /\ task = "retriever" /\ task' = "synthesizer"
        /\ step_log' = Append(step_log, RetrieverStep)
        /\ call' = call /\ searched' \in BOOLEAN
        /\ retrieved_chunks' \in (IF searched' THEN 0..1 ELSE {0})
  /\ sub_tasks' \in {0, 1, sub_tasks}
  /\ events' = events /\ reply' = reply /\ answer' = answer /\ citations' = citations

Finishes ==
  /\ task = "synthesizer" /\ task' = "ended" /\ call' = NoCall
  /\ \/ Idling /\ answer' = "refusal" /\ citations' = 0
     \/ Returned /\ answer' = "refusal" /\ citations' = 0
     \/ Returned /\ answer' = "accepted" /\ citations' \in 0..1
  /\ step_log' = Append(step_log, SynthesizerStep)
  /\ events' = Append(events, [type |-> "end", citations |-> citations', retrieved_chunks |-> retrieved_chunks])
  /\ reply' = reply /\ KeepsEvidence

LEMMA GraphMoves ==
  ASSUME GraphStep
  PROVE  Streams \/ Calls \/ Stops \/ Advances \/ Finishes
<1>1. ASSUME raise, task \in Nodes PROVE Stops
  BY <1>1, Raises DEF Stops, Keeps, KeepsEvidence
<1>2. ASSUME planner_calls PROVE Stops \/ Calls
  <2>1. CASE raise
    BY <1>1, <1>2, <2>1 DEF planner_calls, Nodes
  <2>2. CASE /\ call' \in PlannerReplies
             /\ UNCHANGED <<phase, request, task, agent_state, searched, reply, events, generator>>
    BY <1>2, <2>2, PlannerRepliesAreCalls DEF planner_calls, Calls, Keeps, KeepsEvidence, agent_state
  <2>. QED BY <1>2, <2>1, <2>2 DEF planner_calls
<1>3. ASSUME model_streams PROVE Streams
  BY <1>3 DEF model_streams, Streams, Keeps, KeepsEvidence, agent_state
<1>4. ASSUME planner_returns PROVE Advances
  BY <1>4 DEF planner_returns, Advances, Logged, PlannerStep
<1>5. ASSUME retriever_fails PROVE Stops
  BY <1>1, <1>5 DEF retriever_fails, Nodes
<1>6. ASSUME retriever_returns PROVE Advances
  BY <1>6 DEF retriever_returns, Advances, Logged, RetrieverStep, Searches
<1>7. ASSUME synthesizer_calls PROVE Calls
  BY <1>7, SynthesizerRepliesHaveShape DEF synthesizer_calls, Calls, Keeps, KeepsEvidence, agent_state
<1>8. ASSUME synthesizer_refuses PROVE Finishes
  BY <1>8, Ends DEF synthesizer_refuses, Finishes, KeepsEvidence
<1>9. ASSUME synthesizer_accepts PROVE Finishes
  <2>1. PICK c \in 0..1 : synthesizer_ends("accepted", c)
    BY <1>9 DEF synthesizer_accepts
  <2>2. /\ step_log' = Append(step_log, SynthesizerStep)
        /\ answer' = "accepted" /\ citations' = c /\ task' = "ended" /\ call' = NoCall
        /\ events' = Append(events, [type |-> "end", citations |-> c, retrieved_chunks |-> retrieved_chunks])
        /\ reply' = reply /\ KeepsEvidence
    BY <2>1, Ends DEF KeepsEvidence
  <2>3. task = "synthesizer" /\ Returned
    BY <1>9 DEF synthesizer_accepts
  <2>4. citations' \in 0..1
    BY <2>2
  <2>. QED BY <2>2, <2>3, <2>4 DEF Finishes, KeepsEvidence
<1>10. ASSUME synthesizer_fails PROVE Stops
  BY <1>1, <1>10 DEF synthesizer_fails, Nodes
<1>11. ASSUME graph_cancelled PROVE Stops
  BY <1>11 DEF graph_cancelled, Stops, Keeps, KeepsEvidence, agent_state
<1>. QED BY <1>2, <1>3, <1>4, <1>5, <1>6, <1>7, <1>8, <1>9, <1>10, <1>11 DEF GraphStep, Graph

-------------------------------------------------------------------------------
(* The parts of Control, one at a time. *)
LEMMA SequencesGrow ==
  ASSUME NEW A, NEW s \in Seq(A), NEW e \in A
  PROVE  /\ Append(s, e) \in Seq(A) /\ Len(Append(s, e)) = Len(s) + 1
         /\ Append(s, e)[Len(s) + 1] = e
         /\ \A i \in 1..Len(s) : Append(s, e)[i] = s[i]
OBVIOUS

LEMMA TailIs ==
  ASSUME NEW A, NEW s \in Seq(A), s # << >>
  PROVE  /\ Tail(s) \in Seq(A) /\ Head(s) = s[1] /\ Len(s) >= 1
         /\ Len(Tail(s)) = Len(s) - 1
         /\ \A i \in 1..(Len(s) - 1) : Tail(s)[i] = s[i + 1]
OBVIOUS

LEMMA NoCallIs == NoCall \in Call /\ NoCall.outcome = "uncalled" /\ NoCall.tokens = << >>
BY DEF NoCall, Call, Outcome

(* The tail of the awaited tokens. *)
LEMMA StreamsCall ==
  ASSUME call \in Call, Streams
  PROVE  /\ call' \in Call /\ call'.outcome = call.outcome
         /\ call'.tokens = Tail(call.tokens) /\ Head(call.tokens) \in Token
<1>1. call.tokens \in Seq(Token) /\ call.tokens # << >> /\ call.outcome \in Outcome
  BY DEF Streams, Call
<1>2. Tail(call.tokens) \in Seq(Token) /\ Head(call.tokens) \in Token
  BY <1>1
<1>3. call' = [tokens |-> Tail(call.tokens), outcome |-> call.outcome]
  BY DEF Streams, Call
<1>. QED BY <1>1, <1>2, <1>3 DEF Call

LEMMA AppendIs ==
  ASSUME NEW x, NEW y, NEW z
  PROVE  /\ Append(<< >>, x) = <<x>>
         /\ Append(<<x>>, y) = <<x, y>>
         /\ Append(<<x, y>>, z) = <<x, y, z>>
<1>. DEFINE A == {x, y, z}
<1>1. <<x>> \in Seq(A) /\ <<x, y>> \in Seq(A) /\ <<x, y, z>> \in Seq(A) /\ y \in A /\ z \in A
  OBVIOUS
<1>2. Append(<<x>>, y) = <<x, y>>
  <2>1. Append(<<x>>, y) \in Seq(A) /\ Len(Append(<<x>>, y)) = 2
    BY <1>1, AppendProperties
  <2>2. \A i \in 1..2 : Append(<<x>>, y)[i] = <<x, y>>[i]
    BY <1>1, AppendProperties
  <2>. QED BY <1>1, <2>1, <2>2, SeqEqual
<1>3. Append(<<x, y>>, z) = <<x, y, z>>
  <2>1. Append(<<x, y>>, z) \in Seq(A) /\ Len(Append(<<x, y>>, z)) = 3
    BY <1>1, AppendProperties
  <2>2. \A i \in 1..3 : Append(<<x, y>>, z)[i] = <<x, y, z>>[i]
    BY <1>1, AppendProperties
  <2>. QED BY <1>1, <2>1, <2>2, SeqEqual
<1>. QED BY <1>2, <1>3

LEMMA ProgressKept ==
  ASSUME Admitted, Progress, Next
  PROVE  Progress'
<1>1. ASSUME task' = task, step_log' = step_log PROVE Progress'
  BY <1>1 DEF Progress
<1>2. CASE query \/ query_refused
  BY <1>2, Starts DEF Progress
<1>3. CASE GeneratorStep
  BY <1>1, <1>3, GeneratorLeaves
<1>4. CASE GraphStep
  <2>1. CASE Streams \/ Calls
    BY <1>1, <2>1 DEF Streams, Calls, Keeps
  <2>2. CASE Stops
    BY <2>2 DEF Stops, Keeps, Nodes, Progress
  <2>3. CASE Advances
    BY <2>3, AppendIs DEF Advances, Progress
  <2>4. CASE Finishes
    BY <2>4, AppendIs DEF Finishes, Progress
  <2>. QED BY <1>4, <2>1, <2>2, <2>3, <2>4, GraphMoves
<1>. QED BY <1>2, <1>3, <1>4, NextIs

LEMMA AdmittedKept ==
  ASSUME Admitted, task \in Nodes \cup Stopped, Next
  PROVE  Admitted'
<1>1. CASE query \/ query_refused
  BY <1>1, Starts DEF Admitted, Unsent
<1>2. CASE GeneratorStep
  BY <1>2, GeneratorLeaves DEF Admitted, GeneratorStep, Generator, consume_token, consume_end,
     send_done, send_error, save, disconnect
<1>3. CASE GraphStep
  <2>1. (task = "unstarted") <=> (task' = "unstarted")
    BY <1>3, GraphMoves DEF Streams, Calls, Stops, Advances, Finishes, Nodes
  <2>. QED BY <1>3, <2>1, GraphLeaves DEF Admitted
<1>. QED BY <1>1, <1>2, <1>3, NextIs

LEMMA AnsweredKept ==
  ASSUME Admitted, Answered, Awaited, Next
  PROVE  Answered'
<1>1. CASE query \/ query_refused
  BY <1>1, Starts DEF Answered
<1>2. CASE GeneratorStep
  BY <1>2, GeneratorLeaves DEF Answered
<1>3. CASE GraphStep
  <2>1. CASE Streams \/ Calls \/ Stops
    BY <2>1 DEF Streams, Calls, Stops, Keeps, KeepsEvidence, Nodes, Answered
  <2>2. CASE Advances
    <3>1. task # "ended" /\ task' # "ended" /\ answer' = answer /\ citations' = citations
      BY <2>2 DEF Advances
    <3>2. retrieved_chunks' > 0 => searched'
      <4>1. CASE task = "planner"
        <5>1. retrieved_chunks' = retrieved_chunks /\ searched' = searched
          BY <2>2, <4>1 DEF Advances
        <5>. QED BY <5>1, Zenon DEF Answered
      <4>2. CASE task = "retriever" /\ retrieved_chunks' \in (IF searched' THEN 0..1 ELSE {0})
        BY <4>2
      <4>. QED BY <2>2, <4>1, <4>2 DEF Advances
    <3>. QED BY <3>1, <3>2 DEF Answered
  <2>3. CASE Finishes
    BY <2>3 DEF Finishes, KeepsEvidence, Answered, Awaited, Returned
  <2>. QED BY <1>3, <2>1, <2>2, <2>3, GraphMoves
<1>. QED BY <1>1, <1>2, <1>3, NextIs

LEMMA AwaitedKept ==
  ASSUME Admitted, Awaited, call \in Call, Next
  PROVE  Awaited'
<1>1. CASE query \/ query_refused
  BY <1>1, Starts DEF Awaited, Stopped
<1>2. CASE GeneratorStep
  BY <1>2, GeneratorLeaves DEF Awaited
<1>3. CASE GraphStep
  <2>1. CASE Streams
    BY <2>1, StreamsCall, NoCallIs DEF Streams, KeepsEvidence, Awaited
  <2>2. CASE Calls
    BY <2>2, NoCallIs DEF Calls, KeepsEvidence, Awaited, Stopped, Idling
  <2>3. CASE Stops
    BY <2>3, NoCallIs DEF Stops, Awaited
  <2>4. CASE Advances
    BY <2>4, NoCallIs DEF Advances, Awaited
  <2>5. CASE Finishes
    BY <2>5, NoCallIs DEF Finishes, Awaited
  <2>. QED BY <1>3, <2>1, <2>2, <2>3, <2>4, <2>5, GraphMoves
<1>. QED BY <1>1, <1>2, <1>3, NextIs

LEMMA TypesKept ==
  ASSUME TypeInv, Admitted, Awaited, Next
  PROVE  TypeInv'
<1>1. CASE query \/ query_refused
  BY <1>1, Starts DEF TypeInv, Nodes
<1>2. CASE GeneratorStep
  <2>1. phase' \in {"idle", "streaming", "answered", "saved", "failed", "cut"}
    BY <1>2 DEF TypeInv, GeneratorStep, Generator, consume_token, consume_end,
       send_done, send_error, save, disconnect
  <2>2. events' \in Seq(TokenEvent \cup EndEvent)
    <3>1. events' = events \/ (events # << >> /\ events' = Tail(events))
      BY <1>2 DEF GeneratorStep, Generator, consume_token, consume_end, send_done, send_error, save, disconnect
    <3>2. events \in Seq(TokenEvent \cup EndEvent)
      BY DEF TypeInv
    <3>. QED BY <3>1, <3>2, TailIs, Zenon
  <2>3. held' \in [citations : 0..1, retrieved_chunks : 0..1]
    <3>1. CASE consume_end
      <4>1. Head(events) \in TokenEvent \cup EndEvent /\ Head(events).type = "end"
        BY <3>1 DEF consume_end, TypeInv, Next_event
      <4>2. Head(events) \in EndEvent
        BY <4>1 DEF TokenEvent
      <4>. QED BY <3>1, <4>2 DEF consume_end, Captured, EndEvent, Next_event
    <3>2. CASE ~consume_end
      BY <1>2, <3>2 DEF TypeInv, GeneratorStep, Generator, consume_token,
         send_done, send_error, save, disconnect, generator
    <3>. QED BY <3>1, <3>2
  <2>. QED BY <1>2, <2>1, <2>2, <2>3, GeneratorLeaves DEF TypeInv
<1>3. CASE GraphStep
  <2>. USE GraphLeaves
  <2>1. CASE Streams
    <3>1. [type |-> "token", node |-> task, chunk |-> Head(call.tokens)] \in TokenEvent \cup EndEvent
      BY <2>1, StreamsCall DEF TypeInv, Streams, TokenEvent
    <3>2. events' \in Seq(TokenEvent \cup EndEvent)
      BY <2>1, <3>1, SequencesGrow DEF TypeInv, Streams
    <3>. QED BY <1>3, <2>1, <3>2, StreamsCall DEF TypeInv, Streams, Keeps, KeepsEvidence
  <2>2. CASE Calls
    BY <1>3, <2>2, SynthesizerRepliesHaveShape DEF TypeInv, Calls, Keeps, KeepsEvidence
  <2>3. CASE Stops
    BY <1>3, <2>3, NoCallIs DEF TypeInv, Stops, Keeps, KeepsEvidence, Stopped
  <2>4. CASE Advances
    <3>1. searched' \in BOOLEAN /\ retrieved_chunks' \in 0..1 /\ sub_tasks' \in 0..1
      BY <2>4 DEF TypeInv, Advances
    <3>. QED BY <1>3, <2>4, <3>1, NoCallIs DEF TypeInv, Advances, Nodes
  <2>5. CASE Finishes
    <3>1. citations' \in 0..1
      BY <2>5 DEF Finishes
    <3>2. [type |-> "end", citations |-> citations', retrieved_chunks |-> retrieved_chunks]
            \in TokenEvent \cup EndEvent
      BY <3>1 DEF TypeInv, EndEvent
    <3>3. events' \in Seq(TokenEvent \cup EndEvent)
      BY <2>5, <3>2, SequencesGrow DEF TypeInv, Finishes
    <3>. QED BY <1>3, <2>5, <3>1, <3>3, NoCallIs DEF TypeInv, Finishes, KeepsEvidence, Stopped
  <2>. QED BY <1>3, <2>1, <2>2, <2>3, <2>4, <2>5, GraphMoves
<1>. QED BY <1>1, <1>2, <1>3, NextIs

-------------------------------------------------------------------------------
(* The stream. *)

(* One more token of a reply is fed to the extractor. *)
LEMMA FeedIs ==
  ASSUME NEW T \in Seq(Token), NEW m \in 0..Len(T), NEW c \in 0..Len(T), c < Len(T), Shape(T, m)
  PROVE  LET state == After(Len(T), m, c) IN
         /\ state # "DONE" =>
              /\ feed(state, T[c + 1])[1] = After(Len(T), m, c + 1)
              /\ feed(state, T[c + 1])[2] = IF c + 1 \in 2..(m + 1) THEN <<T[c + 1].word>> ELSE << >>
         /\ state = "DONE" => After(Len(T), m, c + 1) = "DONE" /\ c + 1 \notin 2..(m + 1)
<1>0. /\ m > 0 => m + 1 <= Len(T)
      /\ (T[c + 1].class = "open") <=> (c = 0 /\ Len(T) > 1)
      /\ (T[c + 1].class = "text") <=> (c + 1 \in 2..(m + 1))
      /\ (T[c + 1].class = "close") <=> (c = m + 1)
  BY DEF Shape
<1>1. CASE c = 0 /\ Len(T) > 1
  BY <1>0, <1>1 DEF After, feed
<1>2. CASE Len(T) <= 1
  BY <1>0, <1>2 DEF After, feed
<1>3. CASE c \in 1..m
  BY <1>0, <1>3 DEF After, feed
<1>4. CASE c = m + 1 /\ Len(T) > 1
  BY <1>0, <1>4 DEF After, feed
<1>5. CASE c > m + 1 /\ Len(T) > 1
  BY <1>0, <1>5 DEF After, feed
<1>. QED BY <1>1, <1>2, <1>3, <1>4, <1>5

LEMMA PassedIs ==
  ASSUME NEW m \in Nat, NEW c \in Nat
  PROVE  /\ Passed(m, c) \in 0..m /\ Passed(m, 0) = 0
         /\ c + 1 \in 2..(m + 1) => Passed(m, c) = c - 1 /\ Passed(m, c + 1) = c
         /\ c + 1 \notin 2..(m + 1) => Passed(m, c + 1) = Passed(m, c)
BY DEF Passed

(* What a new word does to what was delivered. *)
LEMMA ConcatOne ==
  ASSUME NEW A, NEW s \in Seq(A), NEW e \in A
  PROVE  s \o <<e>> = Append(s, e) /\ s \o << >> = s
BY AppendIsConcat, ConcatEmptySeq, Zenon

LEMMA DeliversWord ==
  ASSUME NEW n \in Nat, reply.tokens[n + 2].word \in Word,
         \A i \in 1..n : reply.tokens[i + 1].word \in Word
  PROVE  LET w == reply.tokens[n + 2].word IN
         /\ [i \in 1..n |-> reply.tokens[i + 1].word] \o <<w>> = [i \in 1..(n + 1) |-> reply.tokens[i + 1].word]
         /\ TokensSent(n) \o [i \in DOMAIN <<w>> |-> [type |-> "token", content |-> <<w>>[i]]] = TokensSent(n + 1)
<1>. DEFINE w == reply.tokens[n + 2].word
            g == [i \in 1..n |-> reply.tokens[i + 1].word]
            e == [type |-> "token", content |-> w]
<1>1. g \in Seq(Word) /\ w \in Word
  OBVIOUS
<1>2. g \o <<w>> = Append(g, w)
  <2>. HIDE DEF g, w
  <2>. QED BY <1>1, ConcatOne
<1>3. Append(g, w) = [i \in 1..(n + 1) |-> reply.tokens[i + 1].word]
  OBVIOUS
<1>4. TokensSent(n) \in Seq([type : {"token"}, content : Word]) /\ e \in [type : {"token"}, content : Word]
  BY DEF TokensSent
<1>5. TokensSent(n) \o <<e>> = Append(TokensSent(n), e)
  <2>. HIDE DEF e
  <2>. QED BY <1>4, ConcatOne
<1>6. Append(TokensSent(n), e) = TokensSent(n + 1)
  BY DEF TokensSent
<1>7. [i \in DOMAIN <<w>> |-> [type |-> "token", content |-> <<w>>[i]]] = <<e>>
  OBVIOUS
<1>. QED BY <1>2, <1>3, <1>5, <1>6, <1>7

LEMMA TextIsWord ==
  ASSUME NEW T \in Seq(Token), NEW m \in 0..Len(T), Shape(T, m)
  PROVE  \A i \in 1..m : i + 1 <= Len(T) /\ T[i + 1].word \in Word
<1>1. ASSUME NEW i \in 1..m PROVE i + 1 <= Len(T) /\ T[i + 1].word \in Word
  <2>1. i + 1 \in 1..Len(T) /\ i + 1 \in 2..(m + 1)
    BY DEF Shape
  <2>2. T[i + 1].class = "text" /\ T[i + 1] \in Token
    BY <2>1 DEF Shape
  <2>. QED BY <2>1, <2>2, TokensAre
<1>. QED BY <1>1

LEMMA StreamHas ==
  ASSUME StreamInv
  PROVE  /\ reply.tokens \in Seq(Token) /\ Len(reply.tokens) \in Nat
         /\ events \in Seq(TokenEvent \cup EndEvent) /\ Len(events) \in Nat
         /\ call \in Call
         /\ task \in {"unstarted", "planner", "retriever"} => reply.tokens = << >>
         /\ (task = "synthesizer" /\ call = NoCall) => reply.tokens = << >>
BY NoCallIs DEF StreamInv, TypeInv, Call, Awaited

LEMMA StreamWitness ==
  ASSUME NEW m, NEW c, NEW p, NEW k, m \in 0..Len(reply.tokens)', c \in 0..Len(reply.tokens)',
         p \in 0..Len(events)', k \in 0..Len(events)', StreamAt(m, c, p, k)'
  PROVE  Stream'
BY DEF Stream

LEMMA DeliveredKept ==
  ASSUME NEW n \in Nat, Delivered(n), Admitted, GraphStep, reply' = reply, task \in Nodes
  PROVE  Delivered(n)'
<1>1. phase \in {"streaming", "cut"} => wire = TokensSent(n)
  BY DEF Delivered, Finished, Nodes
<1>2. phase \notin {"idle", "answered", "saved", "failed"}
  BY DEF Delivered, Finished, Nodes, Admitted
<1>3. TokensSent(n)' = TokensSent(n)
  BY DEF TokensSent
<1>. QED BY <1>1, <1>2, <1>3, GraphLeaves DEF Delivered

LEMMA SuffixIs ==
  ASSUME NEW A, NEW T \in Seq(A), NEW d \in Nat, d <= Len(T)
  PROVE  /\ Suffix(T, d) \in Seq(A) /\ Len(Suffix(T, d)) = Len(T) - d
         /\ Suffix(T, d) # << >> =>
              /\ d < Len(T) /\ Head(Suffix(T, d)) = T[d + 1]
              /\ Tail(Suffix(T, d)) = Suffix(T, d + 1)
<1>1. Suffix(T, d) \in Seq(A) /\ Len(Suffix(T, d)) = Len(T) - d
  BY DEF Suffix
<1>2. ASSUME Suffix(T, d) # << >> PROVE d < Len(T) /\ Head(Suffix(T, d)) = T[d + 1]
  BY <1>1, <1>2 DEF Suffix
<1>3. ASSUME d < Len(T) PROVE Tail(Suffix(T, d)) = Suffix(T, d + 1)
  BY <1>3 DEF Suffix
<1>. QED BY <1>1, <1>2, <1>3

LEMMA StreamKeptByStreams ==
  ASSUME StreamInv, Streams, GraphStep
  PROVE  Stream'
<1>. DEFINE T == reply.tokens
            e == [type |-> "token", node |-> task, chunk |-> Head(call.tokens)]
<1>1. PICK m \in 0..Len(T), c \in 0..Len(T), p \in 0..Len(events), k \in 0..Len(events) : StreamAt(m, c, p, k)
  BY DEF StreamInv, Stream
<1>2. /\ T \in Seq(Token) /\ events \in Seq(TokenEvent \cup EndEvent) /\ reply' = reply /\ task' = task
      /\ call.tokens \in Seq(Token) /\ call.tokens # << >> /\ call'.tokens = Tail(call.tokens)
      /\ call # NoCall /\ call' # NoCall /\ Head(call.tokens) \in Token /\ task \in Nodes
  BY StreamHas, StreamsCall, NoCallIs DEF Streams, Call, StreamInv, Awaited
<1>3. Delivered(Passed(m, c))'
  <2>1. Delivered(Passed(m, c)) /\ Passed(m, c) \in Nat /\ Admitted
    BY <1>1, PassedIs DEF StreamAt, StreamInv
  <2>. QED BY <1>2, <2>1, DeliveredKept
<1>4. extractor' = After(Len(T), m, c)
  BY <1>1, GraphLeaves DEF StreamAt
<1>5. Len(events) = p + k /\ task # "ended" /\ task' # "ended"
  BY <1>1, <1>2 DEF StreamAt, Queue, Ending, Nodes
<1>6. e \in TokenEvent \cup EndEvent
  BY <1>2 DEF TokenEvent
<1>7. /\ events' = Append(events, e) /\ Len(events') = p + k + 1 /\ events'[p + k + 1] = e
      /\ \A i \in 1..(p + k) : events'[i] = events[i]
  <2>1. events' = Append(events, e)
    BY DEF Streams
  <2>. HIDE DEF e
  <2>. QED BY <1>2, <1>5, <1>6, <2>1, SequencesGrow
<1>8. CASE task = "synthesizer"
  <2>1. call.tokens = Suffix(T, c + k) /\ c + k <= Len(T)
    BY <1>1, <1>2, <1>8 DEF StreamAt, Queue, ToCome
  <2>2. /\ c + k < Len(T) /\ Head(call.tokens) = T[c + k + 1]
        /\ Tail(call.tokens) = Suffix(T, c + k + 1)
    <3>. DEFINE d == c + k
    <3>1. d \in Nat /\ T \in Seq(Token) /\ d <= Len(T) /\ call.tokens = Suffix(T, d) /\ Suffix(T, d) # << >>
      BY <1>2, <2>1
    <3>. HIDE DEF d, T
    <3>2. d < Len(T) /\ Head(call.tokens) = T[d + 1] /\ Tail(call.tokens) = Suffix(T, d + 1)
      BY <3>1, SuffixIs
    <3>. QED BY <3>2 DEF d
  <2>3. e = SynthesizerToken(T[c + (k + 1)])
    BY <1>8, <2>2 DEF SynthesizerToken
  <2>. HIDE DEF e
  <2>4. Pending(c, p, k + 1)'
    <3>1. \A i \in 1..k : events[p + i] = SynthesizerToken(T[c + i])
      BY <1>1 DEF StreamAt, Queue, Pending
    <3>2. \A i \in 1..k : events'[p + i] = events[p + i]
      BY <1>7
    <3>3. events'[p + (k + 1)] = SynthesizerToken(T[c + (k + 1)])
      BY <1>7, <2>3
    <3>4. \A i \in 1..(k + 1) : i \in 1..k \/ i = k + 1
      OBVIOUS
    <3>. QED BY <1>2, <3>1, <3>2, <3>3, <3>4 DEF Pending, SynthesizerToken
  <2>5. Earlier(p)'
    BY <1>1, <1>7 DEF StreamAt, Queue, Earlier
  <2>6. ToCome(c + (k + 1))'
    BY <1>2, <2>2 DEF ToCome
  <2>7. Ending(c + (k + 1), p + (k + 1))'
    BY <1>5, <1>7 DEF Ending
  <2>8. StreamAt(m, c, p, k + 1)'
    BY <1>1, <1>2, <1>3, <1>4, <2>2, <2>4, <2>5, <2>6, <2>7 DEF StreamAt, Queue
  <2>9. /\ m \in 0..Len(reply.tokens)' /\ c \in 0..Len(reply.tokens)'
        /\ p \in 0..Len(events)' /\ k + 1 \in 0..Len(events)'
    BY <1>2, <1>7
  <2>. QED BY <2>8, <2>9, StreamWitness, Zenon
<1>9. CASE task # "synthesizer"
  <2>1. T = << >> /\ c = 0 /\ k = 0 /\ task \in {"planner", "retriever"}
    <3>1. T = << >>
      BY <1>2, <1>9, StreamHas DEF Nodes
    <3>. QED BY <1>1, <1>2, <1>9, <3>1 DEF StreamAt, Queue, Nodes
  <2>. HIDE DEF T
  <2>2. Earlier(p + 1)'
    <3>1. e.type = "token" /\ e.node # "synthesizer"
      BY <1>9
    <3>. HIDE DEF e
    <3>. QED BY <1>1, <1>7, <2>1, <3>1 DEF StreamAt, Queue, Earlier
  <2>3. Queue(c, p + 1, k)'
    BY <1>1, <1>2, <1>5, <1>7, <1>9, <2>1, <2>2 DEF T, StreamAt, Queue, Pending, ToCome, Ending
  <2>4. StreamAt(m, c, p + 1, k)'
    BY <1>1, <1>2, <1>3, <1>4, <2>3 DEF StreamAt, T
  <2>. QED BY <1>1, <1>2, <1>7, <2>1, <2>4, StreamWitness DEF T
<1>. QED BY <1>8, <1>9

LEMMA StreamKeptByCalls ==
  ASSUME StreamInv, Calls, GraphStep
  PROVE  Stream'
<1>. DEFINE T == reply.tokens
<1>1. PICK m \in 0..Len(T), c \in 0..Len(T), p \in 0..Len(events), k \in 0..Len(events) : StreamAt(m, c, p, k)
  BY DEF StreamInv, Stream
<1>2. /\ call = NoCall /\ T = << >> /\ events' = events /\ task' = task /\ task \in {"planner", "synthesizer"}
      /\ retrieved_chunks' = retrieved_chunks /\ Len(events) \in Nat
  BY StreamHas DEF Calls, Idling, KeepsEvidence
<1>3. m = 0 /\ c = 0 /\ k = 0
  BY <1>1, <1>2 DEF StreamAt, Queue
<1>4. /\ Len(events) = p /\ Earlier(p) /\ extractor = "SEEKING" /\ Delivered(0)
  BY <1>1, <1>2, <1>3, PassedIs DEF StreamAt, Queue, Ending, After
<1>5. Earlier(p)' /\ extractor' = "SEEKING" /\ Len(events') = p
  BY <1>2, <1>4, GraphLeaves DEF Earlier
<1>6. CASE task = "planner"
  <2>1. reply' = reply
    BY <1>6 DEF Calls
  <2>2. Delivered(0)'
    BY <1>2, <1>4, <2>1, DeliveredKept DEF StreamInv, Nodes
  <2>3. Queue(0, p, 0)'
    BY <1>2, <1>4, <1>5, <1>6, <2>1 DEF Queue, Pending, ToCome, Ending
  <2>4. Shape(reply'.tokens, 0)
    BY <1>1, <1>3, <2>1 DEF StreamAt
  <2>5. StreamAt(0, 0, p, 0)'
    BY <1>2, <1>5, <2>1, <2>2, <2>3, <2>4, PassedIs DEF StreamAt, After
  <2>6. 0 \in 0..Len(reply.tokens)' /\ p \in 0..Len(events)' /\ 0 \in 0..Len(events)'
    BY <1>2, <1>4, <2>1
  <2>. QED BY <2>5, <2>6, StreamWitness, Zenon
<1>7. CASE task = "synthesizer"
  <2>1. reply' \in SynthesizerReplies /\ call' = reply'
    BY <1>7 DEF Calls
  <2>2. PICK n \in 0..Len(reply'.tokens) : Shape(reply'.tokens, n)
    BY <2>1, SynthesizerRepliesHaveShape
  <2>3. reply'.tokens \in Seq(Token) /\ Len(reply'.tokens) \in Nat
    BY <2>1, SynthesizerRepliesHaveShape DEF Call
  <2>4. Delivered(0)'
    <3>1. TokensSent(0) = << >> /\ TokensSent(0)' = << >>
      BY DEF TokensSent
    <3>2. answer_parts = << >> /\ [i \in 1..0 |-> reply'.tokens[i + 1].word] = << >>
      BY <1>4 DEF Delivered
    <3>3. phase \in {"streaming", "cut"} /\ wire = << >> /\ record = << >>
      BY <1>4, <1>7, <3>1 DEF Delivered, Finished, StreamInv, Admitted, TypeInv
    <3>. QED BY <3>1, <3>2, <3>3, GraphLeaves DEF Delivered
  <2>5. Suffix(reply'.tokens, 0) = reply'.tokens
    BY <2>3 DEF Suffix
  <2>6. Queue(0, p, 0)'
    BY <1>2, <1>4, <1>5, <1>7, <2>1, <2>3, <2>5 DEF Queue, Pending, ToCome, Ending
  <2>7. StreamAt(n, 0, p, 0)'
    BY <1>5, <2>2, <2>4, <2>6, PassedIs DEF StreamAt, After
  <2>8. 0 \in 0..Len(reply.tokens)' /\ p \in 0..Len(events)' /\ 0 \in 0..Len(events)' /\ n \in 0..Len(reply.tokens)'
    BY <1>2, <1>4, <2>2, <2>3
  <2>. QED BY <2>7, <2>8, StreamWitness, Zenon
<1>. QED BY <1>2, <1>6, <1>7

LEMMA StreamKeptByOthers ==
  ASSUME StreamInv, Stops \/ Advances, GraphStep
  PROVE  Stream'
<1>. DEFINE T == reply.tokens
<1>1. PICK m \in 0..Len(T), c \in 0..Len(T), p \in 0..Len(events), k \in 0..Len(events) : StreamAt(m, c, p, k)
  BY DEF StreamInv, Stream
<1>2. /\ events' = events /\ reply' = reply /\ task \in Nodes /\ task' # "ended" /\ task # "ended"
      /\ task' = "synthesizer" => call' = NoCall
  BY NoCallIs DEF Stops, Advances, Nodes, StreamInv, Awaited
<1>3. Delivered(Passed(m, c))'
  <2>1. Delivered(Passed(m, c)) /\ Passed(m, c) \in Nat /\ Admitted
    BY <1>1, PassedIs DEF StreamAt, StreamInv
  <2>. QED BY <1>2, <2>1, DeliveredKept
<1>4. extractor' = After(Len(T), m, c)
  BY <1>1, GraphLeaves DEF StreamAt
<1>5. Queue(c, p, k)'
  BY <1>1, <1>2 DEF StreamAt, Queue, Earlier, Pending, ToCome, Ending
<1>6. StreamAt(m, c, p, k)'
  BY <1>1, <1>2, <1>3, <1>4, <1>5 DEF StreamAt
<1>7. /\ m \in 0..Len(reply.tokens)' /\ c \in 0..Len(reply.tokens)'
      /\ p \in 0..Len(events)' /\ k \in 0..Len(events)'
  BY <1>2
<1>. QED BY <1>6, <1>7, StreamWitness, Zenon

LEMMA StreamKeptByFinishes ==
  ASSUME StreamInv, Finishes, GraphStep
  PROVE  Stream'
<1>. DEFINE T == reply.tokens
            e == EndOf(citations', retrieved_chunks)
<1>1. PICK m \in 0..Len(T), c \in 0..Len(T), p \in 0..Len(events), k \in 0..Len(events) : StreamAt(m, c, p, k)
  BY DEF StreamInv, Stream
<1>2. /\ T \in Seq(Token) /\ events \in Seq(TokenEvent \cup EndEvent) /\ reply' = reply
      /\ task = "synthesizer" /\ task' = "ended" /\ retrieved_chunks' = retrieved_chunks
      /\ retrieved_chunks \in 0..1 /\ citations' \in 0..1 /\ Len(events) = p + k
  BY <1>1, StreamHas DEF Finishes, KeepsEvidence, StreamInv, TypeInv, StreamAt, Queue, Ending
<1>3. Delivered(Passed(m, c))'
  <2>1. Delivered(Passed(m, c)) /\ Passed(m, c) \in Nat /\ Admitted /\ task \in Nodes
    BY <1>1, <1>2, PassedIs DEF StreamAt, StreamInv, Nodes
  <2>. QED BY <1>2, <2>1, DeliveredKept
<1>4. extractor' = After(Len(T), m, c)
  BY <1>1, GraphLeaves DEF StreamAt
<1>5. c + k = Len(T)
  <2>1. CASE Idling
    BY <1>1, <1>2, <2>1, StreamHas DEF Idling, StreamAt, Queue
  <2>2. CASE Returned
    <3>1. Suffix(T, c + k) = << >> /\ c + k <= Len(T)
      BY <1>1, <1>2, <2>2 DEF Returned, StreamAt, Queue, ToCome
    <3>2. Len(Suffix(T, c + k)) = Len(T) - (c + k)
      <4>1. c + k \in Nat
        OBVIOUS
      <4>. HIDE DEF T
      <4>. QED BY <1>2, <3>1, <4>1, SuffixIs
    <3>. QED BY <1>2, <3>1, <3>2
  <2>. QED BY <2>1, <2>2 DEF Finishes
<1>6. e \in TokenEvent \cup EndEvent
  BY <1>2 DEF EndOf, EndEvent
<1>7. /\ Len(events') = p + k + 1 /\ events'[p + k + 1] = e
      /\ \A i \in 1..(p + k) : events'[i] = events[i]
  <2>1. events' = Append(events, e)
    BY DEF Finishes, EndOf
  <2>. HIDE DEF e
  <2>. QED BY <1>2, <1>6, <2>1, SequencesGrow
<1>8. Earlier(p)' /\ Pending(c, p, k)'
  <2>1. Earlier(p)'
    BY <1>1, <1>7 DEF StreamAt, Queue, Earlier
  <2>2. Pending(c, p, k) /\ \A i \in 1..k : events'[p + i] = events[p + i]
    BY <1>1, <1>7 DEF StreamAt, Queue
  <2>3. Pending(c, p, k)'
    BY <1>2, <2>2 DEF Pending, SynthesizerToken
  <2>. QED BY <2>1, <2>3
<1>9. Ending(c + k, p + k)'
  BY <1>2, <1>5, <1>7 DEF Ending
<1>10. StreamAt(m, c, p, k)'
  BY <1>1, <1>2, <1>3, <1>4, <1>5, <1>8, <1>9 DEF StreamAt, Queue, ToCome
<1>11. /\ m \in 0..Len(reply.tokens)' /\ c \in 0..Len(reply.tokens)'
       /\ p \in 0..Len(events)' /\ k \in 0..Len(events)'
  BY <1>2, <1>7
<1>. QED BY <1>10, <1>11, StreamWitness, Zenon

LEMMA StreamKeptByStart ==
  ASSUME StreamInv, query \/ query_refused
  PROVE  Stream'
<1>. DEFINE T == reply.tokens
<1>1. PICK m \in 0..Len(T), c \in 0..Len(T), p \in 0..Len(events), k \in 0..Len(events) : StreamAt(m, c, p, k)
  BY DEF StreamInv, Stream
<1>. DEFINE n == Passed(m, c)
<1>2. /\ events' = events /\ reply' = reply /\ extractor' = extractor
      /\ answer_parts' = answer_parts /\ wire' = wire /\ record' = record
      /\ phase = "idle" /\ phase' \in {"idle", "streaming"}
      /\ task = "unstarted" /\ task' \in {"unstarted", "planner"}
  BY Starts DEF StreamInv
<1>3. Delivered(n)'
  <2>1. Delivered(n)
    BY <1>1 DEF StreamAt
  <2>. HIDE DEF n
  <2>2. wire = TokensSent(n) /\ record = << >> /\ TokensSent(n)' = TokensSent(n)
    BY <1>2, <2>1 DEF Delivered, TokensSent
  <2>. QED BY <1>2, <2>1, <2>2 DEF Delivered
<1>4. Queue(c, p, k)'
  BY <1>1, <1>2 DEF StreamAt, Queue, Earlier, Pending, ToCome, Ending
<1>5. StreamAt(m, c, p, k)'
  BY <1>1, <1>2, <1>3, <1>4 DEF StreamAt
<1>6. /\ m \in 0..Len(reply.tokens)' /\ c \in 0..Len(reply.tokens)'
      /\ p \in 0..Len(events)' /\ k \in 0..Len(events)'
  BY <1>2
<1>. QED BY <1>5, <1>6, StreamWitness, Zenon

(* The last three steps of the generator find the queue empty. *)
LEMMA DrainedIs ==
  ASSUME StreamInv, NEW m \in 0..Len(reply.tokens), NEW c \in 0..Len(reply.tokens),
         NEW p \in 0..Len(events), NEW k \in 0..Len(events), StreamAt(m, c, p, k), events = << >>
  PROVE  /\ p = 0 /\ k = 0
         /\ task = "ended" => c = Len(reply.tokens) /\ held = Results
BY DEF StreamAt, Queue, Ending

LEMMA StreamKeptByClose ==
  ASSUME StreamInv, send_done \/ send_error \/ save \/ disconnect, GeneratorStep
  PROVE  Stream'
<1>. DEFINE T == reply.tokens
<1>1. PICK m \in 0..Len(T), c \in 0..Len(T), p \in 0..Len(events), k \in 0..Len(events) : StreamAt(m, c, p, k)
  BY DEF StreamInv, Stream
<1>. DEFINE n == Passed(m, c)
<1>2. /\ events' = events /\ extractor' = extractor /\ answer_parts' = answer_parts /\ held' = held
  BY DEF send_done, send_error, save, disconnect, generator
<1>3. /\ reply' = reply /\ task' = task /\ call' = call
      /\ citations' = citations /\ retrieved_chunks' = retrieved_chunks
  BY GeneratorLeaves
<1>4. Delivered(n) /\ TokensSent(n)' = TokensSent(n)
  BY <1>1, <1>3 DEF StreamAt, TokensSent
<1>5. events = << >> /\ task = "ended" => held = Results
  BY <1>1, DrainedIs
<1>6. Delivered(n)'
  <2>. HIDE DEF n
  <2>1. CASE send_done
    <3>1. /\ phase = "streaming" /\ phase' = "answered" /\ events = << >> /\ task = "ended"
          /\ wire' = Append(wire, [type |-> "done", citations |-> held.citations]) /\ record' = record
      BY <2>1 DEF send_done, Drained
    <3>2. held.citations = citations /\ wire = TokensSent(n) /\ record = << >>
      BY <1>4, <1>5, <3>1 DEF Delivered, Results
    <3>. QED BY <1>2, <1>3, <1>4, <3>1, <3>2 DEF Delivered, Finished
  <2>2. CASE send_error
    <3>1. /\ phase = "streaming" /\ phase' = "failed" /\ task = "raised"
          /\ wire' = Append(wire, [type |-> "error"]) /\ record' = record
      BY <2>2 DEF send_error
    <3>2. wire = TokensSent(n) /\ record = << >>
      BY <1>4, <3>1 DEF Delivered
    <3>. QED BY <1>2, <1>3, <1>4, <3>1, <3>2 DEF Delivered
  <2>3. CASE save
    <3>1. /\ phase = "answered" /\ phase' = "saved" /\ wire' = wire
          /\ record' = <<[answer |-> answer_parts, chunks |-> held.retrieved_chunks]>>
      BY <2>3 DEF save
    <3>2. Finished /\ wire = Append(TokensSent(n), [type |-> "done", citations |-> citations])
      BY <1>4, <3>1 DEF Delivered
    <3>3. held.retrieved_chunks = retrieved_chunks
      BY <1>5, <3>2 DEF Finished, Results
    <3>. QED BY <1>2, <1>3, <1>4, <3>1, <3>2, <3>3 DEF Delivered, Finished
  <2>4. CASE disconnect
    <3>1. phase \in {"streaming", "answered"} /\ phase' = "cut" /\ wire' = wire /\ record' = record
      BY <2>4 DEF disconnect, generator
    <3>. QED BY <1>2, <1>3, <1>4, <3>1 DEF Delivered, Finished
  <2>. QED BY <2>1, <2>2, <2>3, <2>4
<1>7. Queue(c, p, k)'
  BY <1>1, <1>2, <1>3 DEF StreamAt, Queue, Earlier, Pending, ToCome, Ending, Results
<1>8. StreamAt(m, c, p, k)'
  BY <1>1, <1>2, <1>3, <1>6, <1>7 DEF StreamAt
<1>9. /\ m \in 0..Len(reply.tokens)' /\ c \in 0..Len(reply.tokens)'
      /\ p \in 0..Len(events)' /\ k \in 0..Len(events)'
  BY <1>2, <1>3
<1>. QED BY <1>8, <1>9, StreamWitness, Zenon

(* Which event the generator finds first. *)
LEMMA HeadIs ==
  ASSUME StreamInv, NEW m \in 0..Len(reply.tokens), NEW c \in 0..Len(reply.tokens),
         NEW p \in 0..Len(events), NEW k \in 0..Len(events), StreamAt(m, c, p, k), events # << >>
  PROVE  \/ p > 0 /\ Next_event.type = "token" /\ Next_event.node # "synthesizer"
         \/ p = 0 /\ k > 0 /\ Next_event = SynthesizerToken(reply.tokens[c + 1])
         \/ /\ p = 0 /\ k = 0 /\ Next_event = EndOf(citations, retrieved_chunks)
            /\ Len(events) = 1 /\ task = "ended" /\ c = Len(reply.tokens)
<1>1. Next_event = events[1] /\ Len(events) \in Nat /\ Len(events) >= 1
  <2>1. events \in Seq(TokenEvent \cup EndEvent) /\ Len(events) \in Nat
    BY StreamHas
  <2>2. Head(events) = events[1] /\ Len(events) >= 1
    BY <2>1, TailIs, Zenon
  <2>. QED BY <2>1, <2>2 DEF Next_event
<1>2. CASE p > 0
  BY <1>1, <1>2 DEF StreamAt, Queue, Earlier
<1>3. CASE p = 0 /\ k > 0
  <2>1. \A i \in 1..k : events[p + i] = SynthesizerToken(reply.tokens[c + i])
    BY DEF StreamAt, Queue, Pending
  <2>2. events[p + 1] = SynthesizerToken(reply.tokens[c + 1]) /\ p + 1 = 1
    BY <1>3, <2>1
  <2>. QED BY <1>1, <1>3, <2>2
<1>4. CASE p = 0 /\ k = 0
  <2>1. Ending(c, 0) /\ c + 0 = c
    BY <1>4 DEF StreamAt, Queue
  <2>2. /\ task = "ended" /\ c = Len(reply.tokens)
        /\ Len(events) = 0 + 1 /\ events[0 + 1] = EndOf(citations, retrieved_chunks)
    BY <1>1, <2>1 DEF Ending
  <2>. QED BY <1>1, <1>4, <2>2
<1>. QED BY <1>2, <1>3, <1>4

LEMMA StreamKeptByConsumeEnd ==
  ASSUME StreamInv, consume_end, GeneratorStep
  PROVE  Stream'
<1>. DEFINE T == reply.tokens
<1>1. PICK m \in 0..Len(T), c \in 0..Len(T), p \in 0..Len(events), k \in 0..Len(events) : StreamAt(m, c, p, k)
  BY DEF StreamInv, Stream
<1>. DEFINE n == Passed(m, c)
<1>2. /\ events # << >> /\ events' = Tail(events) /\ Next_event.type = "end" /\ held' = Captured(Next_event)
      /\ phase = "streaming" /\ phase' = phase /\ extractor' = extractor
      /\ answer_parts' = answer_parts /\ wire' = wire /\ record' = record
  BY DEF consume_end
<1>3. /\ reply' = reply /\ task' = task /\ call' = call
      /\ citations' = citations /\ retrieved_chunks' = retrieved_chunks
  BY GeneratorLeaves
<1>4. /\ p = 0 /\ k = 0 /\ Next_event = EndOf(citations, retrieved_chunks)
      /\ Len(events) = 1 /\ task = "ended" /\ c = Len(T)
  BY <1>1, <1>2, HeadIs DEF SynthesizerToken
<1>5. events' = << >> /\ held' = Results
  <2>1. events \in Seq(TokenEvent \cup EndEvent)
    BY StreamHas
  <2>2. Len(Tail(events)) = 0 /\ Tail(events) \in Seq(TokenEvent \cup EndEvent)
    BY <1>2, <1>4, <2>1
  <2>. QED BY <1>2, <1>4, <2>2 DEF Captured, Results, EndOf
<1>6. Delivered(n)'
  <2>1. Delivered(n) /\ TokensSent(n)' = TokensSent(n)
    BY <1>1, <1>3 DEF StreamAt, TokensSent
  <2>. HIDE DEF n
  <2>. QED BY <1>2, <1>3, <2>1 DEF Delivered
<1>7. Queue(c, 0, 0)'
  BY <1>3, <1>4, <1>5 DEF Queue, Earlier, Pending, ToCome, Ending, Results
<1>8. StreamAt(m, c, 0, 0)'
  BY <1>1, <1>2, <1>3, <1>6, <1>7 DEF StreamAt
<1>9. /\ m \in 0..Len(reply.tokens)' /\ c \in 0..Len(reply.tokens)' /\ 0 \in 0..Len(events)'
  BY <1>3, <1>5
<1>. QED BY <1>8, <1>9, StreamWitness, Zenon

LEMMA StreamKeptByConsumeToken ==
  ASSUME StreamInv, consume_token, GeneratorStep
  PROVE  Stream'
<1>. DEFINE T == reply.tokens
<1>1. PICK m \in 0..Len(T), c \in 0..Len(T), p \in 0..Len(events), k \in 0..Len(events) : StreamAt(m, c, p, k)
  BY DEF StreamInv, Stream
<1>2. /\ events # << >> /\ events' = Tail(events) /\ Next_event.type = "token"
      /\ phase = "streaming" /\ phase' = phase /\ held' = held /\ record' = record
      /\ ~ForExtractor(Next_event) => extractor' = extractor /\ answer_parts' = answer_parts /\ wire' = wire
  BY DEF consume_token
<1>3. /\ reply' = reply /\ task' = task /\ call' = call
      /\ citations' = citations /\ retrieved_chunks' = retrieved_chunks
  BY GeneratorLeaves
<1>4. /\ Len(events') = Len(events) - 1 /\ Len(events) \in Nat /\ Len(events) >= 1
      /\ \A i \in 1..(Len(events) - 1) : events'[i] = events[i + 1]
      /\ T \in Seq(Token) /\ Len(T) \in Nat
  <2>1. events \in Seq(TokenEvent \cup EndEvent) /\ T \in Seq(Token) /\ Len(T) \in Nat /\ Len(events) \in Nat
    BY StreamHas
  <2>. QED BY <1>2, <2>1, TailIs
<1>5. /\ c + k <= Len(T) /\ Earlier(p) /\ Pending(c, p, k) /\ ToCome(c + k) /\ Ending(c + k, p + k)
      /\ Shape(T, m) /\ extractor = After(Len(T), m, c) /\ Delivered(Passed(m, c))
  BY <1>1 DEF StreamAt, Queue
<1>6. /\ task # "ended" => Len(events) = p + k
      /\ task = "ended" => /\ c + k = Len(T)
                           /\ Len(events) = p + k + 1 /\ events[p + k + 1] = EndOf(citations, retrieved_chunks)
  BY <1>2, <1>5 DEF Ending
<1>7. CASE p > 0 /\ Next_event.node # "synthesizer"
  <2>1. extractor' = extractor /\ answer_parts' = answer_parts /\ wire' = wire
    BY <1>2, <1>7 DEF ForExtractor
  <2>2. Delivered(Passed(m, c))'
    <3>. DEFINE n == Passed(m, c)
    <3>1. Delivered(n) /\ TokensSent(n)' = TokensSent(n)
      BY <1>3, <1>5 DEF TokensSent
    <3>. HIDE DEF n
    <3>2. Delivered(n)'
      BY <1>2, <1>3, <2>1, <3>1 DEF Delivered
    <3>. QED BY <3>2 DEF n
  <2>3. p - 1 \in Nat /\ \A i \in 1..(p - 1) : i + 1 \in 1..p /\ i \in 1..(Len(events) - 1)
    BY <1>4, <1>6, <1>7
  <2>4. Earlier(p - 1)'
    BY <1>4, <1>5, <2>3 DEF Earlier
  <2>5. Pending(c, p - 1, k)'
    <3>1. ASSUME NEW i \in 1..k PROVE events'[(p - 1) + i] = events[p + i]
      <4>1. (p - 1) + i \in 1..(Len(events) - 1) /\ ((p - 1) + i) + 1 = p + i
        BY <1>4, <1>6, <1>7
      <4>. QED BY <1>4, <4>1
    <3>. QED BY <1>3, <1>5, <3>1 DEF Pending, SynthesizerToken
  <2>6. Ending(c + k, (p - 1) + k)'
    <3>1. task = "ended" => events'[((p - 1) + k) + 1] = events[p + k + 1]
      BY <1>4, <1>6, <1>7, <2>3
    <3>. QED BY <1>3, <1>4, <1>6, <1>7, <2>3, <3>1 DEF Ending, EndOf
  <2>7. StreamAt(m, c, p - 1, k)'
    BY <1>3, <1>5, <2>1, <2>2, <2>4, <2>5, <2>6 DEF StreamAt, Queue, ToCome
  <2>8. /\ m \in 0..Len(reply.tokens)' /\ c \in 0..Len(reply.tokens)'
        /\ p - 1 \in 0..Len(events)' /\ k \in 0..Len(events)'
    BY <1>3, <1>4, <1>6, <2>3
  <2>. QED BY <2>7, <2>8, StreamWitness, Zenon
<1>8. CASE p = 0 /\ k > 0 /\ Next_event = SynthesizerToken(T[c + 1])
  <2>1. c < Len(T) /\ k - 1 \in Nat /\ (c + 1) + (k - 1) = c + k
    BY <1>4, <1>5, <1>8
  <2>2. /\ Next_event.node = "synthesizer" /\ Next_event.chunk = T[c + 1]
    BY <1>8 DEF SynthesizerToken
  <2>3. /\ extractor' = After(Len(T), m, c + 1)
        /\ Delivered(Passed(m, c + 1))'
    <3>. DEFINE n == Passed(m, c)
    <3>0. m \in Nat /\ c \in Nat
      OBVIOUS
    <3>1. /\ n \in 0..m /\ n \in Nat /\ Delivered(n)
          /\ TokensSent(n)' = TokensSent(n) /\ TokensSent(n + 1)' = TokensSent(n + 1)
      <4>1. n \in 0..m
        BY <3>0, PassedIs
      <4>2. TokensSent(n)' = TokensSent(n) /\ TokensSent(n + 1)' = TokensSent(n + 1)
        BY <1>3 DEF TokensSent
      <4>. QED BY <1>5, <4>1, <4>2
    <3>2. wire = TokensSent(n) /\ answer_parts = [i \in 1..n |-> T[i + 1].word] /\ record = << >>
      BY <1>2, <3>1 DEF Delivered
    <3>3. CASE c + 1 \notin 2..(m + 1)
      <4>1. extractor' = After(Len(T), m, c + 1) /\ answer_parts' = answer_parts /\ wire' = wire
        <5>1. CASE extractor = "DONE"
          BY <1>2, <1>4, <1>5, <2>1, <5>1, FeedIs DEF ForExtractor
        <5>2. CASE extractor # "DONE"
          <6>1. feed(extractor, T[c + 1])[1] = After(Len(T), m, c + 1) /\ feed(extractor, T[c + 1])[2] = << >>
            BY <1>4, <1>5, <2>1, <3>3, <5>2, FeedIs
          <6>2. /\ extractor' = After(Len(T), m, c + 1)
                /\ answer_parts' = answer_parts \o << >>
                /\ wire' = wire \o [i \in DOMAIN << >> |-> [type |-> "token", content |-> << >>[i]]]
            BY <2>2, <5>2, <6>1 DEF consume_token, ForExtractor
          <6>3. [i \in DOMAIN << >> |-> [type |-> "token", content |-> << >>[i]]] = << >>
            OBVIOUS
          <6>4. answer_parts \in Seq(Word) /\ wire \in Seq([type : {"token"}, content : Word])
            <7>1. \A i \in 1..n : T[i + 1].word \in Word
              BY <1>4, <1>5, <3>1, TextIsWord
            <7>. HIDE DEF n
            <7>. QED BY <3>1, <3>2, <7>1 DEF TokensSent
          <6>5. answer_parts \o << >> = answer_parts /\ wire \o << >> = wire
            BY <6>4, ConcatEmptySeq, Zenon
          <6>. QED BY <6>2, <6>3, <6>5
        <5>. QED BY <5>1, <5>2
      <4>2. Passed(m, c + 1) = n
        BY <3>0, <3>3, PassedIs
      <4>. HIDE DEF n
      <4>3. Delivered(n)'
        BY <1>2, <1>3, <3>1, <3>2, <4>1 DEF Delivered
      <4>. QED BY <4>1, <4>2, <4>3
    <3>4. CASE c + 1 \in 2..(m + 1)
      <4>. DEFINE w == T[c + 1].word
      <4>1. n = c - 1 /\ Passed(m, c + 1) = n + 1 /\ n + 2 = c + 1
        <5>1. Passed(m, c) = c - 1 /\ Passed(m, c + 1) = c
          BY <3>0, <3>4, PassedIs, Zenon
        <5>. QED BY <3>0, <5>1
      <4>2. extractor # "DONE"
        BY <1>4, <1>5, <2>1, <3>4, FeedIs
      <4>3. feed(extractor, T[c + 1])[1] = After(Len(T), m, c + 1) /\ feed(extractor, T[c + 1])[2] = <<w>>
        BY <1>4, <1>5, <2>1, <3>4, <4>2, FeedIs
      <4>4. /\ extractor' = After(Len(T), m, c + 1)
            /\ answer_parts' = answer_parts \o <<w>>
            /\ wire' = wire \o [i \in DOMAIN <<w>> |-> [type |-> "token", content |-> <<w>>[i]]]
        BY <2>2, <4>2, <4>3 DEF consume_token, ForExtractor
      <4>5. /\ T[n + 2].word \in Word /\ \A i \in 1..n : T[i + 1].word \in Word
        BY <1>4, <1>5, <3>4, <4>1, TextIsWord
      <4>6. /\ answer_parts' = [i \in 1..(n + 1) |-> T[i + 1].word]
            /\ wire' = TokensSent(n + 1)
        BY <3>1, <3>2, <4>1, <4>4, <4>5, DeliversWord
      <4>7. Delivered(n + 1)'
        BY <1>2, <1>3, <3>1, <3>2, <4>6 DEF Delivered
      <4>. QED BY <4>1, <4>4, <4>7
    <3>. QED BY <3>3, <3>4
  <2>4. Earlier(0)'
    BY DEF Earlier
  <2>5. Pending(c + 1, 0, k - 1)'
    <3>1. ASSUME NEW i \in 1..(k - 1) PROVE events'[0 + i] = events[0 + (i + 1)] /\ i + 1 \in 1..k
      <4>1. i \in 1..(Len(events) - 1) /\ 0 + i = i /\ 0 + (i + 1) = i + 1 /\ i + 1 \in 1..k
        BY <1>4, <1>6, <1>8, <2>1
      <4>. QED BY <1>4, <4>1
    <3>2. \A i \in 1..k : events[0 + i] = SynthesizerToken(T[c + i])
      BY <1>5, <1>8 DEF Pending
    <3>3. \A i \in 1..(k - 1) : c + (i + 1) = (c + 1) + i
      OBVIOUS
    <3>. QED BY <1>3, <3>1, <3>2, <3>3 DEF Pending, SynthesizerToken
  <2>6. Ending(c + k, 0 + (k - 1))'
    <3>1. ASSUME task = "ended" PROVE events'[(0 + (k - 1)) + 1] = events[p + k + 1]
      <4>1. (0 + (k - 1)) + 1 = k /\ k \in 1..(Len(events) - 1) /\ k + 1 = p + k + 1
        <5>1. Len(events) = p + k + 1 /\ p = 0 /\ k \in Nat /\ k > 0
          BY <1>6, <1>8, <3>1, <1>4
        <5>. QED BY <5>1
      <4>. QED BY <1>4, <4>1
    <3>. QED BY <1>3, <1>4, <1>6, <1>8, <2>1, <3>1 DEF Ending, EndOf
  <2>7. ToCome((c + 1) + (k - 1))' /\ Ending((c + 1) + (k - 1), 0 + (k - 1))'
    BY <1>3, <1>5, <2>1, <2>6 DEF ToCome
  <2>8. StreamAt(m, c + 1, 0, k - 1)'
    BY <1>3, <1>5, <2>1, <2>3, <2>4, <2>5, <2>7 DEF StreamAt, Queue
  <2>9. /\ m \in 0..Len(reply.tokens)' /\ c + 1 \in 0..Len(reply.tokens)'
        /\ 0 \in 0..Len(events)' /\ k - 1 \in 0..Len(events)'
    BY <1>3, <1>4, <1>6, <1>8, <2>1
  <2>. QED BY <2>8, <2>9, StreamWitness, Zenon
<1>. QED BY <1>1, <1>2, <1>7, <1>8, HeadIs DEF EndOf

-------------------------------------------------------------------------------
LEMMA InitStreamInv ==
  ASSUME Init
  PROVE  StreamInv
<1>1. /\ phase = "idle" /\ status = 0 /\ task = "unstarted" /\ call = NoCall /\ reply = NoCall
      /\ sub_tasks = 0 /\ retrieved_chunks = 0 /\ answer = NoAnswer /\ citations = 0 /\ step_log = << >>
      /\ searched = FALSE /\ events = << >> /\ extractor = "SEEKING" /\ answer_parts = << >>
      /\ held = [citations |-> 0, retrieved_chunks |-> 0] /\ wire = << >> /\ record = << >>
  BY DEF Init, Unsent
<1>2. TypeInv /\ Progress /\ Answered /\ Awaited
  <2>1. TypeInv
    <3>1. phase \in {"idle", "streaming", "answered", "saved", "failed", "cut"}
      BY <1>1
    <3>2. task \in Nodes \cup Stopped
      BY <1>1 DEF Stopped
    <3>3. sub_tasks \in 0..1 /\ retrieved_chunks \in 0..1 /\ citations \in 0..1 /\ searched \in BOOLEAN
      <4>1. sub_tasks = 0 /\ retrieved_chunks = 0 /\ citations = 0
        BY <1>1, Zenon
      <4>2. searched \in BOOLEAN
        BY <1>1, Zenon
      <4>. QED BY <4>1, <4>2
    <3>4. call \in Call /\ reply \in Call
      BY <1>1, NoCallIs, Zenon
    <3>5. events \in Seq(TokenEvent \cup EndEvent)
      <4>. HIDE DEF TokenEvent, EndEvent
      <4>. QED BY <1>1, EmptySeq, Zenon
    <3>6. held \in [citations : 0..1, retrieved_chunks : 0..1]
      BY <1>1
    <3>. QED BY <3>1, <3>2, <3>3, <3>4, <3>5, <3>6 DEF TypeInv
  <2>2. Progress
    BY <1>1 DEF Progress
  <2>3. Answered
    BY <1>1 DEF Answered
  <2>4. Awaited
    BY <1>1, NoCallIs DEF Awaited
  <2>. QED BY <2>1, <2>2, <2>3, <2>4
<1>3. Admitted
  <2>1. auth_enabled \in BOOLEAN /\ authorization \in Authorization
    BY DEF Init
  <2>. QED BY <1>1, <2>1 DEF Admitted, Unsent
<1>4. reply.tokens = << >> /\ Len(reply.tokens) = 0 /\ Len(events) = 0
  BY <1>1, NoCallIs
<1>5. Shape(reply.tokens, 0) /\ extractor = After(0, 0, 0)
  BY <1>1, <1>4 DEF Shape, After
<1>6. Queue(0, 0, 0)
  BY <1>1, <1>4 DEF Queue, Earlier, Pending, ToCome, Ending
<1>7. Delivered(0)
  BY <1>1 DEF Delivered, TokensSent
<1>8. StreamAt(0, 0, 0, 0)
  BY <1>4, <1>5, <1>6, <1>7, PassedIs DEF StreamAt
<1>9. 0 \in 0..Len(reply.tokens) /\ 0 \in 0..Len(events)
  BY <1>4
<1>10. Stream
  BY <1>8, <1>9, Zenon DEF Stream
<1>. QED BY <1>2, <1>3, <1>10 DEF StreamInv

LEMMA NextStreamInv ==
  ASSUME StreamInv, Next
  PROVE  StreamInv'
<1>1. TypeInv' /\ Progress' /\ Admitted' /\ Answered' /\ Awaited'
  BY TypesKept, ProgressKept, AdmittedKept, AnsweredKept, AwaitedKept DEF StreamInv, TypeInv
<1>2. ASSUME query \/ query_refused PROVE Stream'
  BY <1>2, StreamKeptByStart
<1>3. ASSUME GraphStep PROVE Stream'
  BY <1>3, GraphMoves, StreamKeptByStreams, StreamKeptByCalls, StreamKeptByOthers, StreamKeptByFinishes
<1>4. ASSUME GeneratorStep PROVE Stream'
  BY <1>4, StreamKeptByConsumeToken, StreamKeptByConsumeEnd, StreamKeptByClose DEF GeneratorStep, Generator
<1>5. Stream'
  BY <1>2, <1>3, <1>4, NextIs
<1>. QED BY <1>1, <1>5 DEF StreamInv

LEMMA StutterStreamInv ==
  ASSUME StreamInv, UNCHANGED vars
  PROVE  StreamInv'
<1>1. /\ phase' = phase /\ status' = status /\ auth_enabled' = auth_enabled /\ authorization' = authorization
      /\ task' = task /\ call' = call /\ reply' = reply /\ events' = events /\ searched' = searched
      /\ sub_tasks' = sub_tasks /\ retrieved_chunks' = retrieved_chunks
      /\ answer' = answer /\ citations' = citations /\ step_log' = step_log
      /\ extractor' = extractor /\ answer_parts' = answer_parts /\ held' = held
      /\ wire' = wire /\ record' = record
  BY DEF vars, request, config, graph, agent_state, generator
<1>2. Admission' = Admission
  BY <1>1 DEF Admission
<1>3. TypeInv' /\ Progress'
  BY <1>1 DEF StreamInv, TypeInv, Progress
<1>4. Admitted'
  BY <1>1, <1>2 DEF StreamInv, Admitted
<1>5. Answered' /\ Awaited'
  BY <1>1 DEF StreamInv, Answered, Awaited
<1>6. Stream'
  <2>1. PICK m \in 0..Len(reply.tokens), c \in 0..Len(reply.tokens),
             p \in 0..Len(events), k \in 0..Len(events) : StreamAt(m, c, p, k)
    BY DEF StreamInv, Stream
  <2>2. Queue(c, p, k)'
    BY <1>1, <2>1 DEF StreamAt, Queue, Earlier, Pending, ToCome, Ending, Results
  <2>3. Delivered(Passed(m, c))'
    <3>. DEFINE n == Passed(m, c)
    <3>1. Delivered(n) /\ TokensSent(n)' = TokensSent(n)
      BY <1>1, <2>1 DEF StreamAt, TokensSent
    <3>. HIDE DEF n
    <3>2. Delivered(n)'
      BY <1>1, <3>1 DEF Delivered, Finished
    <3>. QED BY <3>2 DEF n
  <2>4. StreamAt(m, c, p, k)'
    BY <1>1, <2>1, <2>2, <2>3 DEF StreamAt
  <2>5. /\ m \in 0..Len(reply.tokens)' /\ c \in 0..Len(reply.tokens)'
        /\ p \in 0..Len(events)' /\ k \in 0..Len(events)'
    BY <1>1
  <2>. QED BY <2>4, <2>5, StreamWitness, Zenon
<1>. QED BY <1>3, <1>4, <1>5, <1>6 DEF StreamInv

(* The inductive invariant holds. *)
THEOREM StreamInvariant == Spec => []StreamInv
<1>1. Init => StreamInv
  BY InitStreamInv
<1>2. StreamInv /\ [Next]_vars => StreamInv'
  BY NextStreamInv, StutterStreamInv
<1>. QED BY <1>1, <1>2, PTL DEF Spec

-------------------------------------------------------------------------------
(* What the properties say in terms of the invariant. *)
LEMMA WordsAre ==
  ASSUME NEW T \in Seq(Token), NEW m \in 0..Len(T), Shape(T, m)
  PROVE  Words(T) = [i \in 1..m |-> T[i + 1].word]
<1>. DEFINE I == {i \in DOMAIN T : T[i].class = "text"}
            a == Ascending(I, Len(T))
<1>1. Len(T) \in Nat /\ DOMAIN T = 1..Len(T) /\ (m > 0 => m + 1 <= Len(T)) /\ m \in Nat
  BY DEF Shape
<1>2. I = 2..(m + 1)
  BY <1>1 DEF Shape
<1>3. Words(T) = [i \in DOMAIN a |-> T[a[i]].word]
  BY DEF Words
<1>4. m > 0 => a = [i \in 1..m |-> 1 + i]
  <2>1. 1 \in Nat /\ Len(T) \in Nat /\ m \in Nat
    BY <1>1
  <2>2. I = Interval(1, m)
    BY <1>1, <1>2 DEF Interval
  <2>3. m > 0 => 1 + m <= Len(T)
    BY <1>1
  <2>. HIDE DEF I
  <2>4. m > 0 => a = Counted(1, m)
    BY <2>1, <2>2, <2>3, AscendingOf, Zenon
  <2>. QED BY <2>4 DEF Counted
<1>5. m = 0 => a = << >>
  <2>1. 0 \in Nat /\ Len(T) \in Nat /\ 0 + 0 <= Len(T)
    BY <1>1
  <2>2. m = 0 => I = Interval(0, 0)
    BY <1>2 DEF Interval
  <2>. HIDE DEF I
  <2>3. m = 0 => a = Counted(0, 0)
    BY <2>1, <2>2, AscendingOf, Zenon
  <2>. HIDE DEF a
  <2>. QED BY <2>3 DEF Counted
<1>. HIDE DEF a
<1>6. m > 0 => [i \in DOMAIN a |-> T[a[i]].word] = [i \in 1..m |-> T[i + 1].word]
  BY <1>1, <1>4
<1>7. m = 0 => [i \in DOMAIN a |-> T[a[i]].word] = [i \in 1..m |-> T[i + 1].word]
  BY <1>5
<1>. QED BY <1>1, <1>3, <1>6, <1>7

(* The wire holds n tokens and at most one other event. *)
TokensFirst(n) ==
  /\ Len(wire) = n \/ (Len(wire) = n + 1 /\ wire[n + 1].type # "token")
  /\ DOMAIN wire = 1..Len(wire)
  /\ \A i \in 1..n : wire[i] = [type |-> "token", content |-> reply.tokens[i + 1].word]

LEMMA TokensFirstShows ==
  ASSUME NEW n \in Nat, TokensFirst(n)
  PROVE  Shown = [i \in 1..n |-> reply.tokens[i + 1].word]
<1>. DEFINE I == {i \in DOMAIN wire : wire[i].type = "token"}
            l == Len(wire)
            a == Ascending(I, l)
<1>1. l = n \/ (l = n + 1 /\ wire[n + 1].type # "token")
  BY DEF TokensFirst
<1>2. DOMAIN wire = 1..l
  BY DEF TokensFirst
<1>3. \A i \in 1..n : wire[i].type = "token" /\ wire[i].content = reply.tokens[i + 1].word
  <2>1. \A i \in 1..n : wire[i] = [type |-> "token", content |-> reply.tokens[i + 1].word]
    BY Zenon DEF TokensFirst
  <2>2. ASSUME NEW i \in 1..n
        PROVE  wire[i].type = "token" /\ wire[i].content = reply.tokens[i + 1].word
    <3>. DEFINE w == reply.tokens[i + 1].word
                e == wire[i]
    <3>1. e = [type |-> "token", content |-> w]
      BY <2>1, Zenon
    <3>. HIDE DEF w, e
    <3>2. e.type = "token" /\ e.content = w
      BY <3>1
    <3>. QED BY <3>2 DEF w, e
  <2>. QED BY <2>2
<1>4. Shown = [i \in DOMAIN a |-> wire[a[i]].content]
  BY DEF Shown
<1>. HIDE DEF l
<1>5. l \in Nat /\ n <= l
  BY <1>1
<1>6. I = 1..n
  <2>1. \A i \in 1..l : i \in 1..n \/ i = n + 1
    BY <1>1
  <2>2. 1..n \subseteq 1..l
    BY <1>1
  <2>3. \A i \in 1..l : wire[i].type = "token" <=> i \in 1..n
    BY <1>1, <1>3, <2>1
  <2>4. I = {i \in 1..l : wire[i].type = "token"}
    BY <1>2
  <2>. QED BY <2>2, <2>3, <2>4
<1>7. a = [i \in 1..n |-> 0 + i]
  <2>1. 0 \in Nat /\ n \in Nat /\ l \in Nat /\ 0 + n <= l
    BY <1>5
  <2>2. I = Interval(0, n)
    BY <1>6 DEF Interval
  <2>. HIDE DEF I
  <2>3. a = Counted(0, n)
    BY <2>1, <2>2, AscendingOf
  <2>. HIDE DEF a
  <2>. QED BY <2>3 DEF Counted
<1>. HIDE DEF a
<1>8. DOMAIN a = 1..n /\ \A i \in 1..n : a[i] = i
  BY <1>7
<1>9. \A i \in 1..n : wire[a[i]].content = reply.tokens[i + 1].word
  BY <1>3, <1>8
<1>. QED BY <1>4, <1>8, <1>9

LEMMA ShownAre ==
  ASSUME NEW n \in Nat, NEW e, e.type # "token",
         wire = TokensSent(n) \/ wire = Append(TokensSent(n), e)
  PROVE  Shown = [i \in 1..n |-> reply.tokens[i + 1].word]
<1>1. /\ Len(wire) \in {n, n + 1} /\ DOMAIN wire = 1..Len(wire)
      /\ \A i \in 1..n : wire[i] = [type |-> "token", content |-> reply.tokens[i + 1].word]
      /\ Len(wire) = n + 1 => wire[n + 1].type # "token"
  BY DEF TokensSent
<1>2. TokensFirst(n)
  BY <1>1 DEF TokensFirst
<1>. QED BY <1>2, TokensFirstShows

(* The client's view of a state of the invariant. *)
LEMMA StreamShows ==
  ASSUME StreamInv
  PROVE  \E n \in Nat, m \in Nat :
           /\ n <= m
           /\ Words(reply.tokens) = [i \in 1..m |-> reply.tokens[i + 1].word]
           /\ Shown = [i \in 1..n |-> reply.tokens[i + 1].word]
           /\ Delivered(n) /\ (n > 0 => n + 1 <= Len(reply.tokens))
           /\ Finished => n = m
<1>1. PICK m \in 0..Len(reply.tokens), c \in 0..Len(reply.tokens),
           p \in 0..Len(events), k \in 0..Len(events) : StreamAt(m, c, p, k)
  BY DEF StreamInv, Stream
<1>. DEFINE n == Passed(m, c)
<1>2. reply.tokens \in Seq(Token) /\ Len(reply.tokens) \in Nat
  BY StreamHas
<1>3. m \in Nat /\ c \in Nat /\ n \in Nat /\ n <= m
  <2>1. m \in Nat /\ c \in Nat
    BY <1>2
  <2>2. n \in 0..m
    BY <2>1, PassedIs, Zenon
  <2>. HIDE DEF n
  <2>. QED BY <2>1, <2>2
<1>4. Shape(reply.tokens, m) /\ Delivered(n)
  BY <1>1 DEF StreamAt
<1>5. Words(reply.tokens) = [i \in 1..m |-> reply.tokens[i + 1].word]
  BY <1>2, <1>4, WordsAre
<1>6. Shown = [i \in 1..n |-> reply.tokens[i + 1].word]
  <2>. HIDE DEF n
  <2>1. \/ wire = TokensSent(n)
        \/ wire = Append(TokensSent(n), [type |-> "done", citations |-> citations])
        \/ wire = Append(TokensSent(n), [type |-> "error"])
    BY <1>4 DEF Delivered, StreamInv, TypeInv
  <2>2. [type |-> "done", citations |-> citations].type # "token" /\ [type |-> "error"].type # "token"
    OBVIOUS
  <2>. QED BY <1>3, <2>1, <2>2, ShownAre
<1>7. ASSUME Finished PROVE n = m
  <2>1. c = Len(reply.tokens)
    BY <1>1, <1>7, DrainedIs DEF Finished
  <2>2. m > 0 => m + 1 <= Len(reply.tokens)
    BY <1>4 DEF Shape
  <2>. QED BY <1>2, <1>3, <2>1, <2>2 DEF Passed
<1>8. n > 0 => n + 1 <= Len(reply.tokens)
  <2>1. m > 0 => m + 1 <= Len(reply.tokens)
    BY <1>4 DEF Shape
  <2>. HIDE DEF n
  <2>. QED BY <1>2, <1>3, <2>1
<1>. QED BY <1>3, <1>4, <1>5, <1>6, <1>7, <1>8

LEMMA TracedIs ==
  ASSUME Progress, task \in Nodes \cup Stopped
  PROVE  /\ task = "ended" => Traced = FullTrace
         /\ task # "ended" => Traced # FullTrace /\ IsPrefix(Traced, FullTrace)
         /\ Len(step_log) <= 3
<1>1. /\ PlannerStep.node_name = "Planner" /\ RetrieverStep.node_name = "Retriever"
      /\ SynthesizerStep.node_name = "Synthesizer"
  BY DEF PlannerStep, RetrieverStep, SynthesizerStep, StepRecord
<1>2. /\ task = "ended" => step_log = <<PlannerStep, RetrieverStep, SynthesizerStep>>
      /\ task # "ended" => step_log \in {<< >>, <<PlannerStep>>, <<PlannerStep, RetrieverStep>>}
  BY DEF Progress, Nodes, Stopped
<1>3. CASE step_log = << >>
  <2>1. Traced = << >>
    BY <1>3 DEF Traced
  <2>. QED BY <1>2, <1>3, <2>1 DEF FullTrace, IsPrefix
<1>4. CASE step_log = <<PlannerStep>>
  <2>1. Traced = <<"Planner">>
    BY <1>1, <1>4 DEF Traced
  <2>. QED BY <1>2, <1>4, <2>1 DEF FullTrace, IsPrefix
<1>5. CASE step_log = <<PlannerStep, RetrieverStep>>
  <2>1. Traced = <<"Planner", "Retriever">>
    BY <1>1, <1>5 DEF Traced
  <2>. QED BY <1>2, <1>5, <2>1 DEF FullTrace, IsPrefix
<1>6. CASE step_log = <<PlannerStep, RetrieverStep, SynthesizerStep>>
  <2>1. Traced = FullTrace
    BY <1>1, <1>6 DEF Traced, FullTrace
  <2>. QED BY <1>2, <1>6, <2>1
<1>. QED BY <1>2, <1>3, <1>4, <1>5, <1>6

(* What the wire says. *)
LEMMA TokensSay ==
  ASSUME NEW n \in Nat, wire = TokensSent(n)
  PROVE  \A i \in DOMAIN wire : wire[i].type = "token"
BY DEF TokensSent

LEMMA EventSays ==
  ASSUME NEW n \in Nat, NEW e, wire = Append(TokensSent(n), e)
  PROVE  /\ DOMAIN wire = 1..(n + 1) /\ Len(wire) = n + 1 /\ wire[n + 1] = e /\ Last(wire) = e
         /\ \A i \in DOMAIN wire : i # n + 1 => wire[i].type = "token"
BY DEF TokensSent, Last

DoneEvent == [type |-> "done", citations |-> citations]
ErrorEvent == [type |-> "error"]

(* The three things the client may have received. *)
LEMMA WireIs ==
  ASSUME NEW n \in Nat, Delivered(n), phase \in {"idle", "streaming", "answered", "saved", "failed", "cut"}
  PROVE  \/ wire = TokensSent(n) /\ ~Sent("done") /\ ~Sent("error")
         \/ /\ wire = Append(TokensSent(n), DoneEvent) /\ Last(wire) = DoneEvent
            /\ Sent("done") /\ ~Sent("error") /\ Finished
         \/ /\ wire = Append(TokensSent(n), ErrorEvent) /\ Last(wire) = ErrorEvent
            /\ Sent("error") /\ ~Sent("done") /\ task = "raised" /\ phase = "failed"
<1>0. DoneEvent.type = "done" /\ ErrorEvent.type = "error"
  BY DEF DoneEvent, ErrorEvent
<1>1. CASE wire = TokensSent(n)
  BY <1>1, TokensSay DEF Sent
<1>2. CASE wire = Append(TokensSent(n), DoneEvent) /\ Finished
  <2>1. /\ DOMAIN wire = 1..(n + 1) /\ wire[n + 1] = DoneEvent /\ Last(wire) = DoneEvent
        /\ \A i \in DOMAIN wire : i # n + 1 => wire[i].type = "token"
    BY <1>2, EventSays
  <2>. QED BY <1>0, <1>2, <2>1 DEF Sent
<1>3. CASE wire = Append(TokensSent(n), ErrorEvent) /\ task = "raised" /\ phase = "failed"
  <2>1. /\ DOMAIN wire = 1..(n + 1) /\ wire[n + 1] = ErrorEvent /\ Last(wire) = ErrorEvent
        /\ \A i \in DOMAIN wire : i # n + 1 => wire[i].type = "token"
    BY <1>3, EventSays
  <2>. QED BY <1>0, <1>3, <2>1 DEF Sent
<1>. QED BY <1>1, <1>2, <1>3 DEF Delivered, DoneEvent, ErrorEvent

LEMMA PrefixIs ==
  ASSUME NEW A, NEW s \in Seq(A), NEW t \in Seq(A), Len(s) <= Len(t),
         \A i \in 1..Len(s) : s[i] = t[i]
  PROVE  IsPrefix(s, t)
BY DEF IsPrefix

(* Whom setting and header entitle, the dependency admits. *)
LEMMA AdmissionIs ==
  ASSUME auth_enabled \in BOOLEAN, authorization \in Authorization
  PROVE  /\ Admission \in {200, 401, 403}
         /\ (Admission = 200) <=> (auth_enabled => authorization = "bearer")
<1>1. "query" \in get_capabilities({"admin"}) /\ "query" \in get_capabilities({"user"})
  BY DEF get_capabilities, ROLE_CAPABILITIES
<1>2. {"admin"} # NoRoles /\ {"user"} # NoRoles
  BY DEF NoRoles
<1>. QED BY <1>1, <1>2 DEF Admission, require_capability, validate_token

LEMMA StepsAreEntitled ==
  ASSUME Progress, task \in Nodes \cup Stopped
  PROVE  \A i \in DOMAIN step_log :
           Range(step_log[i].tool_calls) \subseteq Manifest[step_log[i].node_name]
<1>1. \A s \in {PlannerStep, RetrieverStep, SynthesizerStep} :
        Range(s.tool_calls) \subseteq Manifest[s.node_name]
  <2>1. Range(<< >>) = {} /\ Range(<<"ai_search_read">>) = {"ai_search_read"}
    BY DEF Range
  <2>. QED BY <2>1 DEF PlannerStep, RetrieverStep, SynthesizerStep, StepRecord, Manifest
<1>2. step_log \in {<< >>, <<PlannerStep>>, <<PlannerStep, RetrieverStep>>,
                    <<PlannerStep, RetrieverStep, SynthesizerStep>>}
  BY DEF Progress, Nodes, Stopped
<1>3. \A i \in DOMAIN step_log : step_log[i] \in {PlannerStep, RetrieverStep, SynthesizerStep}
  BY <1>2
<1>. QED BY <1>1, <1>3

-------------------------------------------------------------------------------
(* The properties, from the invariant. *)
LEMMA TypesHold ==
  ASSUME StreamInv
  PROVE  TypeOK
<1>1. TypeInv /\ Progress /\ Admitted /\ Answered
  BY DEF StreamInv
<1>2. PICK n \in Nat : Delivered(n)
  BY StreamShows
<1>3. status \in {Unsent, 200, 401, 403}
  BY <1>1, AdmissionIs DEF Admitted
<1>4. extractor \in {"SEEKING", "IN_VALUE", "DONE"}
  BY DEF StreamInv, Stream, StreamAt, After
<1>5. answer \in {NoAnswer, "refusal", "accepted"}
  BY <1>1 DEF Answered
<1>6. Len(step_log) <= 3
  BY <1>1, TracedIs DEF TypeInv
<1>7. \A i \in DOMAIN wire : wire[i].type \in {"token", "done", "error"}
  <2>1. \/ wire = TokensSent(n)
        \/ wire = Append(TokensSent(n), DoneEvent)
        \/ wire = Append(TokensSent(n), ErrorEvent)
    BY <1>1, <1>2, WireIs DEF TypeInv
  <2>2. DoneEvent.type = "done" /\ ErrorEvent.type = "error"
    BY DEF DoneEvent, ErrorEvent
  <2>3. CASE wire = TokensSent(n)
    BY <2>3, TokensSay
  <2>4. CASE wire = Append(TokensSent(n), DoneEvent)
    <3>1. /\ wire[n + 1] = DoneEvent
          /\ \A i \in DOMAIN wire : i # n + 1 => wire[i].type = "token"
      BY <2>4, EventSays
    <3>. QED BY <2>2, <3>1
  <2>5. CASE wire = Append(TokensSent(n), ErrorEvent)
    <3>1. /\ wire[n + 1] = ErrorEvent
          /\ \A i \in DOMAIN wire : i # n + 1 => wire[i].type = "token"
      BY <2>5, EventSays
    <3>. QED BY <2>2, <3>1
  <2>. QED BY <2>1, <2>3, <2>4, <2>5
<1>8. Len(record) <= 1
  <2>. DEFINE x == [answer |-> answer_parts, chunks |-> retrieved_chunks]
  <2>1. record = IF phase = "saved" THEN <<x>> ELSE << >>
    BY <1>2, Zenon DEF Delivered
  <2>. HIDE DEF x
  <2>. QED BY <2>1
<1>. QED BY <1>1, <1>3, <1>4, <1>5, <1>6, <1>7, <1>8 DEF TypeInv, TypeOK

LEMMA WorkEntitled ==
  ASSUME StreamInv
  PROVE  WorkIsEntitled
<1>1. TypeInv /\ Progress /\ Admitted /\ Awaited
  BY DEF StreamInv
<1>2. PICK n \in Nat : Delivered(n) /\ (n > 0 => n + 1 <= Len(reply.tokens))
  BY StreamShows
<1>3. /\ Admission \in {200, 401, 403}
      /\ (Admission = 200) <=> (auth_enabled => authorization = "bearer")
  BY <1>1, AdmissionIs DEF Admitted
<1>4. ASSUME status # 200 PROVE phase = "idle" /\ task = "unstarted" /\ wire = << >> /\ record = << >>
  <2>1. phase = "idle" /\ task = "unstarted"
    BY <1>1, <1>4 DEF Admitted
  <2>2. reply.tokens = << >>
    BY <1>1, <2>1, NoCallIs DEF Awaited
  <2>3. n = 0
    BY <1>2, <2>2
  <2>4. TokensSent(0) = << >>
    BY DEF TokensSent
  <2>5. wire = << >> /\ record = << >>
    BY <1>2, <2>1, <2>3, <2>4 DEF Delivered
  <2>. QED BY <2>1, <2>5
<1>5. \A i \in DOMAIN step_log :
        Range(step_log[i].tool_calls) \subseteq Manifest[step_log[i].node_name]
  BY <1>1, StepsAreEntitled DEF TypeInv
<1>6. /\ status = 200 => (auth_enabled => authorization = "bearer")
      /\ status \in {401, 403} => ~(auth_enabled => authorization = "bearer")
  BY <1>1, <1>3 DEF Admitted, Unsent
<1>. QED BY <1>4, <1>5, <1>6 DEF WorkIsEntitled

LEMMA ShownPrefix ==
  ASSUME StreamInv
  PROVE  ShownIsPrefixOfReply
<1>1. PICK n \in Nat, m \in Nat :
        /\ n <= m
        /\ Words(reply.tokens) = [i \in 1..m |-> reply.tokens[i + 1].word]
        /\ Shown = [i \in 1..n |-> reply.tokens[i + 1].word]
  BY StreamShows
<1>. DEFINE word(i) == reply.tokens[i + 1].word
            s == [i \in 1..n |-> word(i)]
            t == [i \in 1..m |-> word(i)]
            A == {word(i) : i \in 1..m}
<1>2. Shown = s /\ Words(reply.tokens) = t
  BY <1>1
<1>3. n \in Nat /\ m \in Nat /\ n <= m
  BY <1>1
<1>4. \A i \in 1..m : word(i) \in A
  OBVIOUS
<1>. HIDE DEF word, A
<1>5. s \in Seq(A) /\ t \in Seq(A) /\ Len(s) = n /\ Len(t) = m
  BY <1>3, <1>4
<1>6. \A i \in 1..n : s[i] = t[i]
  BY <1>3
<1>7. IsPrefix(s, t)
  <2>. HIDE DEF s, t
  <2>. QED BY <1>3, <1>5, <1>6, PrefixIs
<1>. QED BY <1>2, <1>7 DEF ShownIsPrefixOfReply

LEMMA DoneComplete ==
  ASSUME StreamInv
  PROVE  DoneIsComplete
<1>1. TypeInv /\ Progress
  BY DEF StreamInv
<1>2. PICK n \in Nat, m \in Nat :
        /\ Words(reply.tokens) = [i \in 1..m |-> reply.tokens[i + 1].word]
        /\ Shown = [i \in 1..n |-> reply.tokens[i + 1].word]
        /\ Delivered(n) /\ (Finished => n = m)
  BY StreamShows
<1>3. ASSUME Sent("done")
      PROVE  Last(wire) = DoneEvent /\ ~Sent("error") /\ Finished
  BY <1>1, <1>2, <1>3, WireIs DEF TypeInv
<1>4. ASSUME Finished PROVE Traced = FullTrace /\ Shown = Words(reply.tokens)
  <2>1. Traced = FullTrace
    BY <1>1, <1>4, TracedIs DEF TypeInv, Finished
  <2>2. n = m
    BY <1>2, <1>4
  <2>. QED BY <1>2, <2>1, <2>2
<1>. QED BY <1>3, <1>4 DEF DoneIsComplete, DoneEvent

LEMMA ErrorPartial ==
  ASSUME StreamInv
  PROVE  ErrorIsPartial
<1>1. TypeInv /\ Progress /\ Answered
  BY DEF StreamInv
<1>2. PICK n \in Nat : Delivered(n)
  BY StreamShows
<1>3. SUFFICES ASSUME Sent("error")
               PROVE  /\ Traced # FullTrace /\ IsPrefix(Traced, FullTrace)
                      /\ answer = NoAnswer /\ record = << >>
                      /\ Last(wire).type = "error"
  BY DEF ErrorIsPartial
<1>4. Last(wire) = ErrorEvent /\ task = "raised" /\ phase = "failed"
  BY <1>1, <1>2, <1>3, WireIs DEF TypeInv
<1>5. Traced # FullTrace /\ IsPrefix(Traced, FullTrace)
  BY <1>1, <1>4, TracedIs DEF TypeInv
<1>6. answer = NoAnswer
  BY <1>1, <1>4 DEF Answered
<1>7. record = << >>
  BY <1>2, <1>4 DEF Delivered
<1>8. Last(wire).type = "error"
  BY <1>4 DEF ErrorEvent
<1>. QED BY <1>5, <1>6, <1>7, <1>8

LEMMA CitationsEvidenced ==
  ASSUME StreamInv
  PROVE  CitationsNeedEvidence
<1>1. TypeInv /\ Answered
  BY DEF StreamInv
<1>2. PICK n \in Nat : Delivered(n)
  BY StreamShows
<1>3. SUFFICES ASSUME NEW i \in DOMAIN wire, wire[i].type = "done", wire[i].citations > 0
               PROVE  searched /\ retrieved_chunks > 0 /\ answer = "accepted"
  BY DEF CitationsNeedEvidence
<1>4. Sent("done")
  BY <1>3 DEF Sent
<1>5. wire = Append(TokensSent(n), DoneEvent) /\ task = "ended"
  BY <1>1, <1>2, <1>4, WireIs DEF TypeInv, Finished
<1>6. wire[n + 1] = DoneEvent /\ (i # n + 1 => wire[i].type = "token")
  BY <1>5, EventSays
<1>7. wire[i] = DoneEvent
  BY <1>3, <1>6
<1>8. citations > 0
  BY <1>3, <1>7 DEF DoneEvent
<1>. QED BY <1>1, <1>5, <1>8 DEF Answered

LEMMA RecordShown ==
  ASSUME StreamInv
  PROVE  RecordIsWhatWasShown
<1>1. TypeInv
  BY DEF StreamInv
<1>2. PICK n \in Nat : /\ Shown = [i \in 1..n |-> reply.tokens[i + 1].word]
                       /\ Delivered(n)
  BY StreamShows
<1>3. SUFFICES ASSUME record # << >>
               PROVE  /\ Sent("done")
                      /\ record[1] = [answer |-> Shown, chunks |-> retrieved_chunks]
  BY DEF RecordIsWhatWasShown
<1>4. phase = "saved" /\ answer_parts = Shown
  BY <1>2, <1>3 DEF Delivered
<1>5. record = <<[answer |-> Shown, chunks |-> retrieved_chunks]>>
  BY <1>2, <1>4 DEF Delivered
<1>6. wire = Append(TokensSent(n), DoneEvent)
  BY <1>2, <1>4 DEF Delivered, DoneEvent
<1>7. Sent("done")
  <2>1. n + 1 \in DOMAIN wire /\ wire[n + 1] = DoneEvent
    BY <1>6, EventSays
  <2>. QED BY <2>1 DEF Sent, DoneEvent
<1>. QED BY <1>5, <1>7

LEMMA TraceGrows ==
  ASSUME StreamInv, [Next]_vars
  PROVE  /\ IsPrefix(step_log, step_log')
         /\ Len(step_log') <= Len(step_log) + 1
         /\ (task \in Stopped => step_log' = step_log)
<1>. DEFINE A == {PlannerStep, RetrieverStep, SynthesizerStep}
<1>1. TypeInv /\ Progress /\ Admitted
  BY DEF StreamInv
<1>2. step_log \in Seq(A) /\ Len(step_log) \in Nat
  <2>1. step_log \in {<< >>, <<PlannerStep>>, <<PlannerStep, RetrieverStep>>,
                      <<PlannerStep, RetrieverStep, SynthesizerStep>>}
    BY <1>1 DEF Progress, TypeInv, Nodes, Stopped
  <2>2. PlannerStep \in A /\ RetrieverStep \in A /\ SynthesizerStep \in A
    OBVIOUS
  <2>. HIDE DEF A
  <2>3. << >> \in Seq(A) /\ Len(<< >>) = 0
    OBVIOUS
  <2>4. \A x, y, z \in A : <<x>> \in Seq(A) /\ <<x, y>> \in Seq(A) /\ <<x, y, z>> \in Seq(A)
    OBVIOUS
  <2>5. step_log \in Seq(A)
    BY <2>1, <2>2, <2>3, <2>4, Zenon
  <2>. QED BY <2>5
<1>3. \/ step_log' = step_log
      \/ task \notin Stopped /\ \E e \in A : step_log' = Append(step_log, e)
  <2>1. CASE query \/ query_refused
    BY <1>1, <2>1, Starts
  <2>2. CASE GeneratorStep
    BY <2>2, GeneratorLeaves
  <2>3. CASE GraphStep
    BY <2>3, GraphMoves DEF Streams, Calls, Stops, Advances, Finishes, Keeps, Stopped
  <2>4. CASE UNCHANGED vars
    BY <2>4 DEF vars, graph, agent_state
  <2>. QED BY <2>1, <2>2, <2>3, <2>4, NextIs
<1>. HIDE DEF A
<1>4. CASE step_log' = step_log
  <2>1. IsPrefix(step_log, step_log)
    BY <1>2, PrefixIs
  <2>. QED BY <1>2, <1>4, <2>1
<1>5. CASE task \notin Stopped /\ \E e \in A : step_log' = Append(step_log, e)
  <2>1. PICK e \in A : step_log' = Append(step_log, e)
    BY <1>5
  <2>2. /\ Append(step_log, e) \in Seq(A) /\ Len(Append(step_log, e)) = Len(step_log) + 1
        /\ \A i \in 1..Len(step_log) : Append(step_log, e)[i] = step_log[i]
    BY <1>2, SequencesGrow
  <2>3. IsPrefix(step_log, Append(step_log, e))
    <3>. DEFINE t == Append(step_log, e)
    <3>1. t \in Seq(A) /\ Len(t) = Len(step_log) + 1 /\ \A i \in 1..Len(step_log) : t[i] = step_log[i]
      BY <2>2
    <3>. HIDE DEF t
    <3>2. Len(step_log) <= Len(t) /\ \A i \in 1..Len(step_log) : step_log[i] = t[i]
      BY <1>2, <3>1
    <3>3. IsPrefix(step_log, t)
      BY <1>2, <3>1, <3>2, PrefixIs, Zenon
    <3>. QED BY <3>3 DEF t
  <2>. QED BY <1>2, <1>5, <2>1, <2>2, <2>3
<1>. QED BY <1>3, <1>4, <1>5

LEMMA StepsOfLife ==
  ASSUME StreamInv, [Next]_vars
  PROVE  [Lifecycle!Next]_phase
<1>1. CASE query \/ query_refused
  BY <1>1, Starts DEF StreamInv, Lifecycle!Next, Lifecycle!Open
<1>2. CASE GraphStep
  BY <1>2, GraphLeaves
<1>3. CASE GeneratorStep
  BY <1>3 DEF GeneratorStep, Generator, consume_token, consume_end, send_done, send_error, save,
     disconnect, Lifecycle!Next, Lifecycle!End, Lifecycle!Save, Lifecycle!Cut
<1>4. CASE UNCHANGED vars
  BY <1>4 DEF vars
<1>. QED BY <1>1, <1>2, <1>3, <1>4, NextIs

-------------------------------------------------------------------------------
(* The theorems. *)

(* Every variable stays in its range, for replies of any length            *)
(* (query.py:147-219, state.py:81-101).                                    *)
THEOREM TypeCorrect == Spec => []TypeOK
BY StreamInvariant, TypesHold, PTL

(* Only an entitled request runs, a refused one sets nothing in motion,    *)
(* and no step names a tool its node may not use (rbac.py:34-49,           *)
(* manifests.py:68-78).                                                    *)
THEOREM OnlyEntitledWork == Spec => []WorkIsEntitled
BY StreamInvariant, WorkEntitled, PTL

(* However far the graph runs ahead, the client has been shown a prefix of *)
(* the synthesizer's text (query.py:177-189).                              *)
THEOREM ShownInOrder == Spec => []ShownIsPrefixOfReply
BY StreamInvariant, ShownPrefix, PTL

(* The done event comes after the whole reply and the whole run            *)
(* (query.py:177-208).                                                     *)
THEOREM DoneAfterAll == Spec => []DoneIsComplete
BY StreamInvariant, DoneComplete, PTL

(* The error event leaves a partial trace and nothing remembered           *)
(* (query.py:218-219).                                                     *)
THEOREM ErrorLeavesNothing == Spec => []ErrorIsPartial
BY StreamInvariant, ErrorPartial, PTL

(* No citation without an accepted answer over retrieved evidence          *)
(* (synthesizer.py:110-111, 165-171).                                      *)
THEOREM CitationsHaveEvidence == Spec => []CitationsNeedEvidence
BY StreamInvariant, CitationsEvidenced, PTL

(* The session remembers what the client was shown, and after the done     *)
(* event (query.py:203, 211-216).                                          *)
THEOREM RecordsWhatWasShown == Spec => []RecordIsWhatWasShown
BY StreamInvariant, RecordShown, PTL

(* The trace is appended to, one record a step, by a running graph         *)
(* (state.py:100).                                                         *)
THEOREM TraceGrowsOnly == Spec => TraceOnlyGrows
<1>1. StreamInv /\ [Next]_vars =>
        [/\ IsPrefix(step_log, step_log')
         /\ Len(step_log') <= Len(step_log) + 1
         /\ (task \in Stopped => step_log' = step_log)]_vars
  BY TraceGrows
<1>. QED BY <1>1, StreamInvariant, PTL DEF Spec, TraceOnlyGrows

(* Every behaviour of the stream is one of StreamLifecycle: the safety     *)
(* part of ImplementsLifecycle.                                            *)
THEOREM StreamRefinesLifecycle == Spec => Lifecycle!Spec
<1>1. Init => Lifecycle!Init
  BY DEF Init, Lifecycle!Init
<1>2. StreamInv /\ [Next]_vars => [Lifecycle!Next]_phase
  BY StepsOfLife
<1>. QED BY <1>1, <1>2, StreamInvariant, PTL DEF Spec, Lifecycle!Spec

===============================================================================
