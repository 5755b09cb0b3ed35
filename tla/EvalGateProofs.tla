---------------------------- MODULE EvalGateProofs ----------------------------
(***************************************************************************)
(* Proofs about the evaluation gate, for any number of questions and of    *)
(* runs that overlap, fail or are killed.                                  *)
(***************************************************************************)
EXTENDS EvalGate, WellFoundedInduction, SequenceTheorems, FiniteSetTheorems, TLAPS

-------------------------------------------------------------------------------
(* Sets of natural numbers. *)

(* Every set of natural numbers has a least member. *)
LEMMA LeastNat ==
  ASSUME NEW S \in SUBSET Nat, S # {}
  PROVE  \E m \in S : \A k \in S : m <= k
<1>. DEFINE R == OpToRel(<, Nat)
<1>1. IsWellFoundedOn(R, Nat)
  BY NatLessThanWellFounded
<1>2. ASSUME NEW k \in Nat, NEW m \in Nat, k < m PROVE <<k, m>> \in R
  BY <1>2, Zenon DEF OpToRel
<1>. HIDE DEF R
<1>3. PICK m \in S : \A k \in S : ~(<<k, m>> \in R)
  BY <1>1, WFMin
<1>4. ASSUME NEW k \in S PROVE m <= k
  <2>1. k \in Nat /\ m \in Nat
    OBVIOUS
  <2>2. ~(k < m)
    BY <1>2, <1>3, <2>1
  <2>. QED BY <2>1, <2>2
<1>. QED BY <1>4

(* A set with 0 and the successor of each of its members has them all. *)
LEMMA SetInduction ==
  ASSUME NEW S, 0 \in S, \A n \in Nat : n \in S => n + 1 \in S
  PROVE  Nat \subseteq S
<1>. SUFFICES ASSUME Nat \ S # {} PROVE FALSE
  OBVIOUS
<1>1. PICK m \in Nat \ S : \A k \in Nat \ S : m <= k
  <2>1. Nat \ S \in SUBSET Nat
    OBVIOUS
  <2>. QED BY <2>1, LeastNat
<1>2. m # 0 /\ m - 1 \in Nat
  BY <1>1
<1>3. m - 1 \in S
  BY <1>1, <1>2
<1>. QED BY <1>1, <1>2, <1>3

-------------------------------------------------------------------------------
(* The inductive invariant. *)
RunState ==
  [pc : {"idle", "asking", "writing"} \cup Ended, run_id : 0..MaxClock,
   results : [Question -> EvalResult \cup {Pending}],
   over : SUBSET (Run \cup {Committed}), judged : File]

HasEnded(s) == runs[s].pc \in Ended

(* It writes when it has all results. *)
Asked(r) == runs[r].pc = "writing" => runs[r].results \in Results

(* What was over when it started is over still. *)
Preceded(r) ==
  r \notin runs[r].over /\ \A s \in runs[r].over : s # Committed => HasEnded(s)

(* The last file is then what it or one that was not over yet wrote. *)
Fresh(r) ==
  runs[r].pc = "written" => files # << >> /\ Last(files).by \notin runs[r].over

RunsTrue == \A r \in Run : Asked(r) /\ Preceded(r) /\ Fresh(r)

Inv == TypeOK /\ RunsTrue /\ VerdictIsNotStale /\ PassMeansServed

-------------------------------------------------------------------------------
(* What writing a file does to the directory. *)

LEMMA OthersAre ==
  ASSUME TypeOK, NEW r \in Run
  PROVE  Others(r) \in Seq(File)
<1>1. PICK n \in Nat : n = Len(files) /\ DOMAIN files = 1..n /\ files \in Seq(File)
  BY DEF TypeOK
<1>2. CASE ~\E i \in 1..n : files[i].run_id = runs[r].run_id
  <2>1. Others(r) = files
    BY <1>1, <1>2 DEF Others, RemoveFirstMatch
  <2>. QED BY <1>1, <2>1
<1>3. CASE \E i \in 1..n : files[i].run_id = runs[r].run_id
  <2>. DEFINE I == {i \in 1..Len(files) : files[i].run_id = runs[r].run_id}
  <2>1. I # {} /\ \A i \in I : i \in 1..n
    BY <1>1, <1>3
  <2>2. PICK p \in I : p = SelectInSeq(files, LAMBDA f : f.run_id = runs[r].run_id)
    <3>1. \E p \in I : \A i \in I : p <= i
      <4>1. I \in SUBSET Nat
        BY <1>1
      <4>. HIDE DEF I
      <4>. QED BY <2>1, <4>1, LeastNat
    <3>2. PICK p : p = CHOOSE x \in I : \A y \in I : x <= y
      OBVIOUS
    <3>3. p \in I
      BY <3>1, <3>2, Zenon
    <3>4. SelectInSeq(files, LAMBDA f : f.run_id = runs[r].run_id) = p
      BY <2>1, <3>2 DEF SelectInSeq, Min
    <3>. QED BY <3>3, <3>4
  <2>3. Others(r) = RemoveAt(files, p)
    BY <1>1, <1>3, <2>2 DEF Others, RemoveFirstMatch
  <2>4. p \in 1..n
    BY <2>1, <2>2
  <2>5. SubSeq(files, 1, p - 1) \in Seq(File) /\ SubSeq(files, p + 1, n) \in Seq(File)
    BY <1>1, <2>4
  <2>6. RemoveAt(files, p) = SubSeq(files, 1, p - 1) \o SubSeq(files, p + 1, n)
    BY <1>1 DEF RemoveAt
  <2>7. \A a, b \in Seq(File) : a \o b \in Seq(File)
    OBVIOUS
  <2>. QED BY <2>3, <2>5, <2>6, <2>7
<1>. QED BY <1>2, <1>3

LEMMA WrittenIs ==
  ASSUME TypeOK, NEW r \in Run, NEW text \in Results \cup {Partial}, Written(r, text)
  PROVE  files' \in Seq(File) /\ files' # << >> /\ Last(files').by = r
<1>1. PICK o \in Seq(File) : o = Others(r)
  BY OthersAre
<1>2. PICK f : f = [run_id |-> runs[r].run_id, by |-> r, text |-> text]
  OBVIOUS
<1>3. f \in File
  BY <1>2 DEF TypeOK, File
<1>4. files' = Append(o, f)
  BY <1>1, <1>2 DEF Written
<1>5. files' \in Seq(File) /\ files' # << >> /\ files'[Len(files')] = f
  BY <1>1, <1>3, <1>4
<1>. QED BY <1>2, <1>5 DEF Last

-------------------------------------------------------------------------------
(* What an action does to the run r it is of. *)
RestStays(r) == \A s \in Run : s # r => runs'[s] = runs[s]

Became(r, pc, run_id, results, over, judged) ==
  /\ runs' \in [Run -> RunState] /\ RestStays(r)
  /\ runs'[r].pc = pc /\ runs'[r].run_id = run_id /\ runs'[r].results = results
  /\ runs'[r].over = over /\ runs'[r].judged = judged

LEMMA RunIs ==
  ASSUME TypeOK, NEW r \in Run
  PROVE  /\ runs \in [Run -> RunState] /\ runs[r] \in RunState
         /\ runs[r].pc \in {"idle", "asking", "writing"} \cup Ended
         /\ runs[r].run_id \in 0..MaxClock /\ runs[r].run_id \in Nat
         /\ runs[r].results \in [Question -> EvalResult \cup {Pending}]
         /\ runs[r].over \in SUBSET (Run \cup {Committed}) /\ runs[r].judged \in File
         /\ clock \in Nat \ {0} /\ clock \in 0..MaxClock
<1>1. runs \in [Run -> RunState] /\ clock \in 1..MaxClock
  BY DEF TypeOK, RunState
<1>. QED BY <1>1, LimitsAssumption DEF RunState

LEMMA StartIs ==
  ASSUME TypeOK, NEW r \in Run, start(r)
  PROVE  Became(r, "asking", clock, runs[r].results,
                {Committed} \cup {s \in Run : HasEnded(s)}, runs[r].judged)
<1>1. PICK o : o = {Committed} \cup {s \in Run : HasEnded(s)}
  OBVIOUS
<1>2. o \in SUBSET (Run \cup {Committed})
  BY <1>1
<1>3. runs' = [runs EXCEPT ![r].pc = "asking", ![r].run_id = clock, ![r].over = o]
  BY <1>1 DEF start, HasEnded
<1>4. runs' \in [Run -> RunState]
  BY <1>2, <1>3, RunIs DEF RunState
<1>. QED BY <1>1, <1>3, <1>4, RunIs DEF Became, RestStays, RunState

LEMMA AskIs ==
  ASSUME TypeOK, NEW r \in Run, NEW q \in Question, run_question(r, q)
  PROVE  \E results \in [Question -> EvalResult \cup {Pending}] :
           Became(r, runs[r].pc, runs[r].run_id, results, runs[r].over, runs[r].judged)
<1>1. PICK x \in EvalResult : runs' = [runs EXCEPT ![r].results[q] = x]
  BY DEF run_question
<1>2. PICK results : results = [runs[r].results EXCEPT ![q] = x]
  OBVIOUS
<1>3. results \in [Question -> EvalResult \cup {Pending}]
  BY <1>2, RunIs
<1>4. runs' = [runs EXCEPT ![r].results = results]
  BY <1>1, <1>2, RunIs DEF RunState
<1>5. runs' \in [Run -> RunState]
  BY <1>3, <1>4, RunIs DEF RunState
<1>. QED BY <1>3, <1>4, <1>5, RunIs DEF Became, RestStays, RunState

(* The other actions set a position, and the results or the judged file. *)
LEMMA MoveIs ==
  ASSUME TypeOK, NEW r \in Run, NEW pc \in {"idle", "asking", "writing"} \cup Ended,
         NEW results \in [Question -> EvalResult \cup {Pending}], NEW judged \in File,
         runs' = [runs EXCEPT ![r].pc = pc, ![r].results = results, ![r].judged = judged]
  PROVE  Became(r, pc, runs[r].run_id, results, runs[r].over, judged)
<1>1. PICK s : s = [runs[r] EXCEPT !.pc = pc, !.results = results, !.judged = judged]
  OBVIOUS
<1>2. s \in RunState
  BY <1>1, RunIs DEF RunState
<1>3. runs' = [runs EXCEPT ![r] = s]
  BY <1>1, RunIs
<1>4. runs' \in [Run -> RunState] /\ runs'[r] = s /\ RestStays(r)
  BY <1>2, <1>3, RunIs DEF RestStays
<1>5. /\ s.pc = pc /\ s.run_id = runs[r].run_id /\ s.results = results
      /\ s.over = runs[r].over /\ s.judged = judged
  BY <1>1, RunIs DEF RunState
<1>. QED BY <1>4, <1>5 DEF Became

LEMMA OpenIs ==
  ASSUME TypeOK, NEW r \in Run, open_file(r)
  PROVE  /\ Became(r, "writing", runs[r].run_id, runs[r].results, runs[r].over, runs[r].judged)
         /\ runs[r].results \in Results
<1>1. runs' = [runs EXCEPT ![r].pc = "writing", ![r].results = runs[r].results,
                           ![r].judged = runs[r].judged]
  BY RunIs DEF open_file, RunState
<1>2. runs[r].results \in Results
  BY RunIs DEF open_file, Results
<1>. QED BY <1>1, <1>2, RunIs, MoveIs

LEMMA UnaskedIs == Unasked \in [Question -> EvalResult \cup {Pending}]
BY DEF Unasked

LEMMA DumpIs ==
  ASSUME TypeOK, NEW r \in Run, dump(r)
  PROVE  Became(r, "written", runs[r].run_id, Unasked, runs[r].over, runs[r].judged)
<1>1. runs' = [runs EXCEPT ![r].pc = "written", ![r].results = Unasked,
                           ![r].judged = runs[r].judged]
  BY RunIs DEF dump, RunState
<1>2. "written" \in {"idle", "asking", "writing"} \cup Ended
  BY DEF Ended
<1>. QED BY <1>1, <1>2, RunIs, UnaskedIs, MoveIs

LEMMA KillIs ==
  ASSUME TypeOK, NEW r \in Run, killed(r)
  PROVE  Became(r, "dead", runs[r].run_id, Unasked, runs[r].over, runs[r].judged)
<1>1. runs' = [runs EXCEPT ![r].pc = "dead", ![r].results = Unasked,
                           ![r].judged = runs[r].judged]
  BY RunIs DEF killed, RunState
<1>2. "dead" \in {"idle", "asking", "writing"} \cup Ended
  BY DEF Ended
<1>. QED BY <1>1, <1>2, RunIs, UnaskedIs, MoveIs

LEMMA CheckIs ==
  ASSUME TypeOK, files # << >>, NEW r \in Run, check(r)
  PROVE  /\ Last(files) \in File
         /\ Became(r, IF Passes(Last(files).text) THEN "passed" ELSE "failed",
                   runs[r].run_id, runs[r].results, runs[r].over, Last(files))
<1>1. Last(files) \in File
  BY DEF TypeOK, Last
<1>2. PICK pc : pc = IF Passes(Last(files).text) THEN "passed" ELSE "failed"
  OBVIOUS
<1>3. pc \in {"idle", "asking", "writing"} \cup Ended
  BY <1>2 DEF Ended
<1>4. runs' = [runs EXCEPT ![r].pc = pc, ![r].judged = Last(files)]
  BY <1>2 DEF check, latest_results_file
<1>5. runs' = [runs EXCEPT ![r].pc = pc, ![r].results = runs[r].results, ![r].judged = Last(files)]
  BY <1>4, RunIs DEF RunState
<1>. QED BY <1>1, <1>2, <1>3, <1>5, RunIs, MoveIs

-------------------------------------------------------------------------------
(* A run that has started moves on. *)
Advances(r, pc) == HasEnded(r) => pc \in Ended

Advanced(r, pc) ==
  /\ Advances(r, pc) /\ clock' = clock
  /\ \E results, judged : Became(r, pc, runs[r].run_id, results, runs[r].over, judged)

LEMMA AdvanceKeeps ==
  ASSUME TypeOK, NEW r \in Run, NEW pc, Advanced(r, pc), RunsTrue
  PROVE  \A s \in Run : Preceded(s)' /\ runs'[s].over = runs[s].over
<1>1. PICK results, judged : Became(r, pc, runs[r].run_id, results, runs[r].over, judged)
  BY DEF Advanced
<1>2. \A s \in Run : runs'[s].over = runs[s].over
  BY <1>1 DEF Became, RestStays
<1>3. \A s \in Run : HasEnded(s) => HasEnded(s)'
  BY <1>1 DEF Advanced, Advances, Became, RestStays, HasEnded
<1>4. ASSUME NEW s \in Run PROVE Preceded(s)'
  <2>1. Preceded(s) /\ runs[s].over \in SUBSET (Run \cup {Committed})
    BY RunIs DEF RunsTrue
  <2>. QED BY <1>2, <1>3, <2>1 DEF Preceded
<1>. QED BY <1>2, <1>4

-------------------------------------------------------------------------------
(* What the figures of a file say of its questions. *)
Unserved(text) == {q \in Question \ RefusalExpected : text[q].outcome # "answered"}
Slow(text) == {q \in Question : text[q].latency_ms > MAX_P95}

Served(text) ==
  /\ text # Partial
  /\ 2000 * Cardinality(Unserved(text)) <= (2 * MAX_INCORRECT + 1) * N
  /\ 20 * Cardinality(Slow(text)) <= N /\ (N <= 20 => Slow(text) = {})

LEMMA QuestionsCounted ==
  /\ N \in Nat \ {0}
  /\ \A S \in SUBSET Question : IsFiniteSet(S) /\ Cardinality(S) \in Nat
<1>1. IsFiniteSet(Question) /\ Question # {}
  BY QuestionsAssumption
<1>2. N \in Nat /\ N # 0
  BY <1>1, FS_CardinalityType, FS_EmptySet DEF N
<1>3. ASSUME NEW S \in SUBSET Question PROVE IsFiniteSet(S) /\ Cardinality(S) \in Nat
  BY <1>1, FS_Subset, FS_CardinalityType
<1>. QED BY <1>2, <1>3

(* A quotient of at most M bounds what was divided. *)
LEMMA QuotientBound ==
  ASSUME NEW a \in Nat, NEW b \in Nat \ {0}, NEW M \in Nat, a \div b <= M
  PROVE  a < b * (M + 1)
<1>1. PICK d : d = a \div b
  OBVIOUS
<1>2. d \in Int /\ a < b * (d + 1)
  <2>1. d \in Int /\ a = b * d + (a % b) /\ a % b < b /\ a % b \in Nat
    BY <1>1
  <2>2. b * (d + 1) = b * d + b
    BY <2>1
  <2>3. b * d \in Int
    BY <2>1
  <2>. QED BY <2>1, <2>2, <2>3
<1>3. d + 1 <= M + 1
  BY <1>1, <1>2
<1>4. b * (d + 1) <= b * (M + 1)
  BY <1>2, <1>3
<1>5. b * (d + 1) \in Int /\ b * (M + 1) \in Int
  BY <1>2
<1>. QED BY <1>2, <1>4, <1>5

(* The rounded rate of n questions is within half a thousandth. *)
LEMMA RateBound ==
  ASSUME NEW n \in Nat, NEW M \in Nat, Rate(n) <= M
  PROVE  2000 * n <= (2 * M + 1) * N
<1>1. N \in Nat \ {0}
  BY QuestionsCounted
<1>2. 2000 * n + N < (2 * N) * (M + 1)
  BY <1>1, QuotientBound DEF Rate
<1>3. PICK p \in Nat : p = M * N
  BY <1>1
<1>4. (2 * N) * (M + 1) = 2 * p + 2 * N /\ (2 * M + 1) * N = 2 * p + N
  BY <1>1, <1>3
<1>. QED BY <1>1, <1>2, <1>4

(* Some latency bounds those of all questions. *)
LEMMA LatencyBound ==
  ASSUME NEW text \in Results
  PROVE  \E l \in Latency : \A q \in Question : text[q].latency_ms <= l
<1>1. \A q \in Question : text[q].latency_ms \in Latency
  BY DEF Results, EvalResult
<1>2. Latency \in SUBSET Nat /\ MAX_P95 \in Latency
  BY LimitsAssumption
<1>3. PICK f : f \in Bijection(1..N, Question)
  BY QuestionsAssumption, FS_CardinalityType DEF N, ExistsBijection
<1>4. /\ \A i \in 1..N : f[i] \in Question
      /\ \A q \in Question : \E i \in 1..N : f[i] = q
  BY <1>3 DEF Bijection, Injection, Surjection
<1>. DEFINE S == {k \in Nat : \E l \in Latency : \A i \in 1..N : i <= k => text[f[i]].latency_ms <= l}
<1>5. 0 \in S
  BY <1>2
<1>6. ASSUME NEW k \in Nat, k \in S PROVE k + 1 \in S
  <2>1. PICK l \in Latency : \A i \in 1..N : i <= k => text[f[i]].latency_ms <= l
    BY <1>6
  <2>2. ASSUME NEW m \in Latency, l <= m, k + 1 \in 1..N => text[f[k + 1]].latency_ms <= m
        PROVE  k + 1 \in S
    <3>1. ASSUME NEW i \in 1..N, i <= k + 1 PROVE text[f[i]].latency_ms <= m
      <4>1. CASE i = k + 1
        BY <2>2, <4>1
      <4>2. CASE i # k + 1
        <5>1. i <= k
          BY <3>1, <4>2
        <5>2. text[f[i]].latency_ms <= l /\ text[f[i]].latency_ms \in Nat /\ l \in Nat /\ m \in Nat
          BY <1>1, <1>2, <1>4, <2>1, <5>1
        <5>. QED BY <2>2, <5>2
      <4>. QED BY <4>1, <4>2
    <3>. QED BY <3>1
  <2>3. CASE k + 1 \notin 1..N
    BY <1>2, <2>2, <2>3
  <2>4. CASE k + 1 \in 1..N
    <3>1. PICK x \in Latency : x = text[f[k + 1]].latency_ms
      BY <1>1, <1>4, <2>4
    <3>2. x \in Nat /\ l \in Nat
      BY <1>2
    <3>3. CASE x <= l
      BY <2>2, <3>1, <3>2, <3>3
    <3>4. CASE l <= x
      BY <2>2, <3>1, <3>2, <3>4
    <3>. QED BY <3>2, <3>3, <3>4
  <2>. QED BY <2>3, <2>4
<1>7. Nat \subseteq S
  <2>. HIDE DEF S
  <2>. QED BY <1>5, <1>6, SetInduction
<1>8. N \in S
  BY <1>7, QuestionsCounted
<1>9. PICK l \in Latency : \A i \in 1..N : text[f[i]].latency_ms <= l
  BY <1>8, QuestionsCounted
<1>. QED BY <1>4, <1>9

AtMost(text, l) == {q \in Question : text[q].latency_ms <= l}

(* More than 95 of 100 questions took no longer than the p95. *)
LEMMA P95Is ==
  ASSUME NEW text \in Results
  PROVE  /\ p95_latency_ms(text) \in Latency
         /\ Cardinality(AtMost(text, p95_latency_ms(text))) > (95 * N) \div 100
<1>. DEFINE High == {l \in Latency : Cardinality(AtMost(text, l)) > (95 * N) \div 100}
<1>1. High # {}
  <2>1. PICK l \in Latency : \A q \in Question : text[q].latency_ms <= l
    BY LatencyBound
  <2>2. AtMost(text, l) = Question
    BY <2>1 DEF AtMost
  <2>3. N > (95 * N) \div 100
    BY QuestionsCounted
  <2>. QED BY <2>2, <2>3 DEF N
<1>2. \E l \in High : \A k \in High : l <= k
  <2>1. High \in SUBSET Nat
    BY LimitsAssumption
  <2>. HIDE DEF High
  <2>. QED BY <1>1, <2>1, LeastNat
<1>3. p95_latency_ms(text) = CHOOSE l \in High : \A k \in High : l <= k
  BY DEF p95_latency_ms, AtMost
<1>4. p95_latency_ms(text) \in High
  <2>. HIDE DEF High
  <2>. QED BY <1>2, <1>3
<1>. QED BY <1>4

(* A gate that passes has seen a run that served its questions. *)
LEMMA PassesServed ==
  ASSUME NEW text \in Results \cup {Partial}, Passes(text)
  PROVE  Served(text)
<1>1. text # Partial /\ text \in Results
  BY DEF Passes
<1>2. 2000 * Cardinality(Unserved(text)) <= (2 * MAX_INCORRECT + 1) * N
  <2>1. PICK n \in Nat : n = Cardinality(Unserved(text))
    BY QuestionsCounted DEF Unserved
  <2>2. Rate(n) <= MAX_INCORRECT
    BY <2>1 DEF Passes, incorrect_refusal_rate, is_refusal, Unserved
  <2>. QED BY <2>1, <2>2, RateBound, LimitsAssumption
<1>3. 20 * Cardinality(Slow(text)) <= N /\ (N <= 20 => Slow(text) = {})
  <2>1. PICK p \in Latency : p = p95_latency_ms(text) /\ p <= MAX_P95
                             /\ Cardinality(AtMost(text, p)) > (95 * N) \div 100
    BY <1>1, P95Is DEF Passes
  <2>2. p \in Nat /\ MAX_P95 \in Nat /\ \A q \in Question : text[q].latency_ms \in Nat
    BY <1>1, LimitsAssumption DEF Results, EvalResult
  <2>3. AtMost(text, p) \subseteq Question \ Slow(text)
    BY <2>1, <2>2 DEF AtMost, Slow
  <2>4. Slow(text) \in SUBSET Question /\ Question \ Slow(text) \in SUBSET Question
    BY DEF Slow
  <2>5. Cardinality(AtMost(text, p)) <= Cardinality(Question \ Slow(text))
    BY <2>3, <2>4, QuestionsCounted, FS_Subset
  <2>6. Cardinality(Question \ Slow(text)) = N - Cardinality(Slow(text))
    <3>1. Question \cap Slow(text) = Slow(text)
      BY <2>4
    <3>. QED BY <3>1, QuestionsAssumption, FS_Difference DEF N
  <2>7. PICK n \in Nat, k \in Nat, a \in Nat : n = N /\ k = Cardinality(Slow(text))
                                               /\ a = Cardinality(AtMost(text, p))
    <3>1. AtMost(text, p) \in SUBSET Question
      BY DEF AtMost
    <3>. QED BY <2>4, <3>1, QuestionsCounted
  <2>8. a > (95 * n) \div 100 /\ a <= n - k
    BY <2>1, <2>5, <2>6, <2>7
  <2>9. 20 * k < n
    BY <2>8
  <2>10. n <= 20 => k = 0
    BY <2>9
  <2>11. k = 0 => Slow(text) = {}
    BY <2>4, <2>7, QuestionsCounted, FS_EmptySet
  <2>. QED BY <2>7, <2>9, <2>10, <2>11
<1>. QED BY <1>1, <1>2, <1>3 DEF Served

-------------------------------------------------------------------------------
(* The verdicts: a passing gate has seen a run that served its questions,  *)
(* and none judges what was over before its own run.                       *)
Verdict(r) ==
  /\ runs[r].pc = "passed" => Served(runs[r].judged.text)
  /\ runs[r].pc \in {"passed", "failed"} => runs[r].judged.by \notin runs[r].over
Verdicts == \A r \in Run : Verdict(r)

LEMMA VerdictsAre == (VerdictIsNotStale /\ PassMeansServed) <=> Verdicts
<1>1. PassMeansServed <=> \A r \in Run : runs[r].pc = "passed" => Served(runs[r].judged.text)
  BY Zenon DEF PassMeansServed, Served, Unserved, Slow
<1>2. VerdictIsNotStale <=> \A r \in Run : runs[r].pc \in {"passed", "failed"}
                                            => runs[r].judged.by \notin runs[r].over
  BY DEF VerdictIsNotStale
<1>. QED BY <1>1, <1>2 DEF Verdicts, Verdict

LEMMA InvIs == Inv <=> (TypeOK /\ RunsTrue /\ Verdicts)
BY VerdictsAre DEF Inv

LEMMA InvIsNext == TypeOK' /\ RunsTrue' /\ Verdicts' => Inv'
BY InvIs, PTL

LEMMA InitInv == Init => Inv
<1>. SUFFICES ASSUME Init PROVE Inv
  OBVIOUS
<1>1. ASSUME NEW second \in 1..NCommitted PROVE CommittedFile(second) \in File
  <2>1. PICK t : t = [q \in Question |-> [outcome |-> "refused", latency_ms |-> MAX_P95]]
    OBVIOUS
  <2>2. t \in Results
    BY <2>1, LimitsAssumption DEF Results, EvalResult, Outcome
  <2>3. second \in 0..MaxClock
    BY LimitsAssumption
  <2>4. CommittedFile(second) = [run_id |-> second, by |-> Committed, text |-> t]
    BY <2>1 DEF CommittedFile
  <2>. QED BY <2>2, <2>3, <2>4 DEF File
<1>2. PICK order \in Bijection(1..NCommitted, 1..NCommitted) :
        files = [i \in 1..NCommitted |-> CommittedFile(order[i])]
  BY DEF Init
<1>3. \A i \in 1..NCommitted : order[i] \in 1..NCommitted
  <2>1. order \in [1..NCommitted -> 1..NCommitted]
    BY DEF Bijection, Injection
  <2>. QED BY <2>1
<1>4. \A i \in 1..NCommitted : CommittedFile(order[i]) \in File
  BY <1>1, <1>3
<1>5. files \in Seq(File)
  BY <1>2, <1>4, LimitsAssumption
<1>6. NotJudged \in File
  BY LimitsAssumption DEF NotJudged, File
<1>7. PICK s : s = [pc |-> "idle", run_id |-> 0, results |-> Unasked, over |-> {}, judged |-> NotJudged]
  OBVIOUS
<1>8. s \in RunState
  BY <1>6, <1>7, UnaskedIs, LimitsAssumption DEF RunState
<1>9. runs \in [Run -> RunState] /\ \A r \in Run : runs[r] = s
  BY <1>7, <1>8 DEF Init
<1>10. clock \in 1..MaxClock
  BY LimitsAssumption DEF Init
<1>11. TypeOK
  BY <1>5, <1>9, <1>10 DEF TypeOK, RunState
<1>12. RunsTrue /\ Verdicts
  BY <1>7, <1>9 DEF RunsTrue, Asked, Preceded, Fresh, Verdicts, Verdict
<1>. QED BY <1>11, <1>12, InvIs

(* Steps of a started run that leave the files. *)
LEMMA QuietKeepsInv ==
  ASSUME Inv, NEW r \in Run, NEW pc, NEW results, NEW judged, judged \in File,
         Became(r, pc, runs[r].run_id, results, runs[r].over, judged),
         Advances(r, pc), UNCHANGED <<clock, files>>,
         pc \notin {"writing", "written"},
         pc = "passed" => Served(judged.text),
         pc \in {"passed", "failed"} => judged.by \notin runs[r].over
  PROVE  Inv'
<1>1. TypeOK /\ RunsTrue /\ Verdicts
  BY InvIs
<1>2. Advanced(r, pc)
  BY DEF Advanced
<1>3. \A s \in Run : Preceded(s)' /\ runs'[s].over = runs[s].over
  BY <1>1, <1>2, AdvanceKeeps
<1>4. /\ runs' \in [Run -> RunState] /\ runs'[r].pc = pc /\ runs'[r].judged = judged
      /\ \A s \in Run : s # r => runs'[s] = runs[s]
  BY DEF Became, RestStays
<1>5. TypeOK'
  BY <1>1, <1>4 DEF TypeOK, RunState
<1>7. ASSUME NEW s \in Run PROVE Asked(s)' /\ Fresh(s)'
  BY <1>1, <1>4 DEF Asked, Fresh, RunsTrue
<1>8. RunsTrue'
  BY <1>3, <1>7 DEF RunsTrue
<1>9. Verdicts'
  <2>. SUFFICES ASSUME NEW s \in Run PROVE Verdict(s)'
    BY DEF Verdicts
  <2>1. CASE s = r
    BY <1>3, <1>4, <2>1 DEF Verdict
  <2>2. CASE s # r
    <3>1. Verdict(s) /\ runs'[s] = runs[s]
      BY <1>1, <1>4, <2>2 DEF Verdicts
    <3>. QED BY <3>1 DEF Verdict
  <2>. QED BY <2>1, <2>2
<1>. QED BY <1>5, <1>8, <1>9, InvIsNext

(* Steps that write a file. *)
LEMMA WriteKeepsInv ==
  ASSUME Inv, NEW r \in Run, NEW pc \in {"writing", "written"}, NEW results,
         Became(r, pc, runs[r].run_id, results, runs[r].over, runs[r].judged),
         runs[r].pc \in {"asking", "writing"}, UNCHANGED clock,
         pc = "writing" => results \in Results,
         NEW text \in Results \cup {Partial}, Written(r, text)
  PROVE  Inv'
<1>1. TypeOK /\ RunsTrue /\ Verdicts
  BY InvIs
<1>2. Advanced(r, pc) /\ ~HasEnded(r)
  BY DEF Advanced, Advances, HasEnded, Ended
<1>3. \A s \in Run : Preceded(s)' /\ runs'[s].over = runs[s].over
  BY <1>1, <1>2, AdvanceKeeps
<1>4. /\ runs' \in [Run -> RunState] /\ runs'[r].pc = pc /\ runs'[r].results = results
      /\ \A s \in Run : s # r => runs'[s] = runs[s]
  BY DEF Became, RestStays
<1>5. files' \in Seq(File) /\ files' # << >> /\ Last(files').by = r
  BY <1>1, WrittenIs
<1>6. TypeOK'
  BY <1>1, <1>4, <1>5 DEF TypeOK, RunState
<1>7. ASSUME NEW s \in Run PROVE r \notin runs[s].over
  BY <1>1, <1>2, CommittedAssumption DEF RunsTrue, Preceded
<1>8. ASSUME NEW s \in Run PROVE Asked(s)' /\ Fresh(s)'
  <2>1. Fresh(s)'
    BY <1>3, <1>5, <1>7 DEF Fresh
  <2>2. Asked(s)'
    BY <1>1, <1>4 DEF Asked, RunsTrue, Results
  <2>. QED BY <2>1, <2>2
<1>9. RunsTrue'
  BY <1>3, <1>8 DEF RunsTrue
<1>10. Verdicts'
  <2>. SUFFICES ASSUME NEW s \in Run PROVE Verdict(s)'
    BY DEF Verdicts
  <2>1. CASE s = r
    BY <1>4, <2>1 DEF Verdict
  <2>2. CASE s # r
    <3>1. Verdict(s) /\ runs'[s] = runs[s]
      BY <1>1, <1>4, <2>2 DEF Verdicts
    <3>. QED BY <3>1 DEF Verdict
  <2>. QED BY <2>1, <2>2
<1>. QED BY <1>6, <1>9, <1>10, InvIsNext

LEMMA StartKeepsInv ==
  ASSUME Inv, NEW r \in Run, start(r)
  PROVE  Inv'
<1>1. TypeOK /\ RunsTrue /\ Verdicts
  BY InvIs
<1>2. PICK o : o = {Committed} \cup {s \in Run : HasEnded(s)}
  OBVIOUS
<1>3. /\ runs' \in [Run -> RunState] /\ runs'[r].pc = "asking" /\ runs'[r].run_id = clock
      /\ runs'[r].over = o /\ \A s \in Run : s # r => runs'[s] = runs[s]
  BY <1>1, <1>2, StartIs DEF Became, RestStays
<1>4. runs[r].pc = "idle" /\ clock' = clock /\ files' = files /\ ~HasEnded(r) /\ clock \in Nat \ {0}
  BY <1>1, RunIs DEF start, HasEnded, Ended
<1>5. TypeOK'
  BY <1>1, <1>3, <1>4 DEF TypeOK, RunState
<1>7. \A s \in Run : HasEnded(s) => s # r /\ HasEnded(s)' /\ runs'[s] = runs[s]
  BY <1>3, <1>4 DEF HasEnded
<1>8. ASSUME NEW s \in Run PROVE Preceded(s)'
  <2>1. CASE s # r
    <3>1. Preceded(s) /\ runs[s].over \in SUBSET (Run \cup {Committed}) /\ runs'[s] = runs[s]
      BY <1>1, <1>3, <2>1, RunIs DEF RunsTrue
    <3>. QED BY <1>7, <3>1 DEF Preceded
  <2>2. CASE s = r
    <3>1. r \notin o
      BY <1>2, <1>4, CommittedAssumption
    <3>2. ASSUME NEW x \in o, x # Committed PROVE HasEnded(x)'
      BY <1>2, <1>7, <3>2
    <3>. QED BY <1>3, <2>2, <3>1, <3>2 DEF Preceded
  <2>. QED BY <2>1, <2>2
<1>9. ASSUME NEW s \in Run PROVE Asked(s)' /\ Fresh(s)'
  <2>1. CASE s = r
    BY <1>3, <1>4, <2>1 DEF Asked, Fresh
  <2>2. CASE s # r
    BY <1>1, <1>3, <1>4, <2>2 DEF Asked, Fresh, RunsTrue
  <2>. QED BY <2>1, <2>2
<1>10. RunsTrue'
  BY <1>8, <1>9 DEF RunsTrue
<1>11. Verdicts'
  <2>. SUFFICES ASSUME NEW s \in Run PROVE Verdict(s)'
    BY DEF Verdicts
  <2>1. CASE s = r
    BY <1>3, <2>1 DEF Verdict
  <2>2. CASE s # r
    <3>1. Verdict(s) /\ runs'[s] = runs[s]
      BY <1>1, <1>3, <2>2 DEF Verdicts
    <3>. QED BY <3>1 DEF Verdict
  <2>. QED BY <2>1, <2>2
<1>. QED BY <1>5, <1>10, <1>11, InvIsNext

LEMMA CheckKeepsInv ==
  ASSUME Inv, NEW r \in Run, check(r)
  PROVE  Inv'
<1>1. TypeOK /\ RunsTrue /\ files # << >>
  BY InvIs DEF RunsTrue, Fresh, check
<1>2. PICK pc : pc = IF Passes(Last(files).text) THEN "passed" ELSE "failed"
  OBVIOUS
<1>3. /\ Last(files) \in File
      /\ Became(r, pc, runs[r].run_id, runs[r].results, runs[r].over, Last(files))
  BY <1>1, <1>2, CheckIs
<1>4. runs[r].pc = "written" /\ UNCHANGED <<clock, files>>
  BY DEF check
<1>5. Advances(r, pc) /\ pc \notin {"writing", "written"}
  BY <1>2, <1>4 DEF Advances, Ended
<1>6. Last(files).by \notin runs[r].over
  BY <1>1, <1>4 DEF RunsTrue, Fresh
<1>7. ASSUME pc = "passed" PROVE Served(Last(files).text)
  <2>1. Passes(Last(files).text)
    BY <1>2, <1>7
  <2>2. Last(files).text \in Results \cup {Partial}
    BY <1>3 DEF File
  <2>. QED BY <2>1, <2>2, PassesServed
<1>8. PICK f \in File : f = Last(files)
  BY <1>3
<1>. QED BY <1>3, <1>4, <1>5, <1>6, <1>7, <1>8, QuietKeepsInv

LEMMA NextKeepsInv == Inv /\ [Next]_vars => Inv'
<1>. SUFFICES ASSUME Inv, [Next]_vars PROVE Inv'
  OBVIOUS
<1>1. TypeOK /\ RunsTrue /\ Verdicts
  BY InvIs
<1>2. ASSUME NEW r \in Run, start(r) PROVE Inv'
  BY <1>2, StartKeepsInv
<1>3. ASSUME NEW r \in Run, NEW q \in Question, run_question(r, q) PROVE Inv'
  <2>1. PICK results : Became(r, runs[r].pc, runs[r].run_id, results, runs[r].over, runs[r].judged)
    BY <1>1, <1>3, AskIs
  <2>2. runs[r].pc = "asking" /\ UNCHANGED <<clock, files>> /\ runs[r].judged \in File
    BY <1>1, <1>3, RunIs DEF run_question
  <2>3. Advances(r, runs[r].pc)
    BY <2>2 DEF Advances, HasEnded, Ended
  <2>. QED BY <2>1, <2>2, <2>3, QuietKeepsInv
<1>4. ASSUME NEW r \in Run, killed(r) PROVE Inv'
  <2>1. Became(r, "dead", runs[r].run_id, Unasked, runs[r].over, runs[r].judged)
    BY <1>1, <1>4, KillIs
  <2>2. runs[r].pc \in {"asking", "writing"} /\ UNCHANGED <<clock, files>> /\ runs[r].judged \in File
    BY <1>1, <1>4, RunIs DEF killed
  <2>3. Advances(r, "dead")
    BY <2>2 DEF Advances, HasEnded, Ended
  <2>. QED BY <2>1, <2>2, <2>3, QuietKeepsInv
<1>5. ASSUME NEW r \in Run, open_file(r) PROVE Inv'
  <2>1. Became(r, "writing", runs[r].run_id, runs[r].results, runs[r].over, runs[r].judged)
        /\ runs[r].results \in Results
    BY <1>1, <1>5, OpenIs
  <2>2. runs[r].pc \in {"asking", "writing"} /\ UNCHANGED clock /\ Written(r, Partial)
    BY <1>5 DEF open_file
  <2>. QED BY <2>1, <2>2, WriteKeepsInv
<1>6. ASSUME NEW r \in Run, dump(r) PROVE Inv'
  <2>1. Became(r, "written", runs[r].run_id, Unasked, runs[r].over, runs[r].judged)
    BY <1>1, <1>6, DumpIs
  <2>2. runs[r].pc \in {"asking", "writing"} /\ UNCHANGED clock /\ runs[r].results \in Results
    BY <1>1, <1>6 DEF dump, RunsTrue, Asked
  <2>3. PICK text \in Results \cup {Partial} : Written(r, text)
    BY <1>6, <2>2 DEF dump
  <2>. QED BY <2>1, <2>2, <2>3, WriteKeepsInv
<1>7. ASSUME NEW r \in Run, check(r) PROVE Inv'
  BY <1>7, CheckKeepsInv
<1>8. ASSUME clock' \in clock..MaxClock, UNCHANGED <<runs, files>> PROVE Inv'
  <2>1. TypeOK'
    BY <1>1, <1>8, LimitsAssumption DEF TypeOK
  <2>3. ASSUME NEW r \in Run PROVE Asked(r)' /\ Preceded(r)' /\ Fresh(r)'
    <3>1. Asked(r) /\ Preceded(r) /\ Fresh(r)
      BY <1>1 DEF RunsTrue
    <3>. QED BY <1>8, <3>1 DEF Asked, Preceded, Fresh, HasEnded, Results
  <2>5. Verdicts'
    BY <1>1, <1>8 DEF Verdicts, Verdict
  <2>. QED BY <2>1, <2>3, <2>5, InvIsNext DEF RunsTrue
<1>9. ASSUME Tick \/ UNCHANGED vars PROVE clock' \in clock..MaxClock /\ UNCHANGED <<runs, files>>
  <2>1. clock \in 1..MaxClock /\ MaxClock \in Nat
    BY <1>1, LimitsAssumption DEF TypeOK
  <2>. QED BY <1>9, <2>1 DEF Tick, vars
<1>. QED BY <1>2, <1>3, <1>4, <1>5, <1>6, <1>7, <1>8, <1>9 DEF Next

(* The inductive invariant holds. *)
THEOREM GateInvariant == Spec => []Inv
BY InitInv, NextKeepsInv, PTL DEF Spec

(* Every variable keeps its type: a file holds the results of all          *)
(* questions or no JSON (run_eval.py:125-157).                             *)
THEOREM TypeCorrect == Spec => []TypeOK
<1>1. Inv => TypeOK
  BY DEF Inv
<1>. QED BY GateInvariant, <1>1, PTL

(* A gate that passes has seen the figures of a whole run that served its  *)
(* questions, to within the rounding, and quickly                          *)
(* (run_eval.py:68-87, 125-148, check_eval_thresholds.py:37-51).           *)
THEOREM PassedMeansServed == Spec => []PassMeansServed
<1>1. Inv => PassMeansServed
  BY DEF Inv
<1>. QED BY GateInvariant, <1>1, PTL

(* No gate judges results from before its run started                      *)
(* (check_eval_thresholds.py:21-23, ci.yml:71-75).                         *)
THEOREM NoStaleVerdict == Spec => []VerdictIsNotStale
<1>1. Inv => VerdictIsNotStale
  BY DEF Inv
<1>. QED BY GateInvariant, <1>1, PTL

===============================================================================
