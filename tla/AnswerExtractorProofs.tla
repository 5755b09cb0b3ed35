------------------------- MODULE AnswerExtractorProofs -------------------------
(***************************************************************************)
(* The proof that however a text is cut into chunks, the extractor streams *)
(* the decoded value as far as it has arrived, for texts and chunks of any *)
(* length.                                                                 *)
(***************************************************************************)
EXTENDS AnswerExtractor, WellFoundedInduction, SequenceTheorems, FiniteSetTheorems, TLAPS

-------------------------------------------------------------------------------
(* Sets of natural numbers. *)

(* Every set of natural numbers has a least member. *)
LEMMA LeastNat ==
  ASSUME NEW S \in SUBSET Nat, S # {}
  PROVE  \E m \in S : \A k \in S : m <= k
<1>. DEFINE R == OpToRel(<, Nat)
<1>1. IsWellFoundedOn(R, Nat)
  BY NatLessThanWellFounded
<1>2. ASSUME NEW k \in Nat, NEW m \in Nat, k < m PROVE <<k, m>> \in R
  BY <1>2, Zenon DEF OpToRel
<1>. HIDE DEF R
<1>3. PICK m \in S : \A k \in S : ~(<<k, m>> \in R)
  BY <1>1, WFMin
<1>4. ASSUME NEW k \in S PROVE m <= k
  <2>1. k \in Nat /\ m \in Nat
    OBVIOUS
  <2>2. ~(k < m)
    BY <1>2, <1>3, <2>1
  <2>. QED BY <2>1, <2>2
<1>. QED BY <1>4

(* A set with 0 and the successor of each of its members has them all. *)
LEMMA SetInduction ==
  ASSUME NEW S, 0 \in S, \A n \in Nat : n \in S => n + 1 \in S
  PROVE  Nat \subseteq S
<1>. SUFFICES ASSUME Nat \ S # {} PROVE FALSE
  OBVIOUS
<1>1. PICK m \in Nat \ S : \A k \in Nat \ S : m <= k
  <2>1. Nat \ S \in SUBSET Nat
    OBVIOUS
  <2>. QED BY <2>1, LeastNat
<1>2. m # 0 /\ m - 1 \in Nat
  BY <1>1
<1>3. m - 1 \in S
  BY <1>1, <1>2
<1>. QED BY <1>1, <1>2, <1>3

-------------------------------------------------------------------------------
(* The text shown is that of the positions shown, in their order. *)
Follows(shown, v) ==
  /\ Len(shown) = Cardinality(Shown(v))
  /\ \A i \in Shown(v) : shown[Cardinality({j \in Shown(v) : j <= i})] = Decoded(v, i)

Value == [state : {"IN_VALUE", "DONE"}, escape : BOOLEAN, out : Seq(Char \cup {Newline})]

(* What the loop over the characters has made of the value v so far. *)
IsValueOf(value, v) ==
  /\ value \in Value
  /\ Follows(value.out, v)
  /\ value.state = "DONE" <=> ClosingQuotes(v) # {}
  /\ value.state = "IN_VALUE" => (value.escape <=> Len(v) \in Escapes(v))

-------------------------------------------------------------------------------
(* Runs of backslashes. *)

(* A run of backslashes in v that begins behind k and reaches i. *)
RunTo(v, k, i) ==
  /\ k \in 0..(i - 1)
  /\ \A j \in (k + 1)..i : v[j] = Backslash
  /\ k > 0 => v[k] # Backslash

LEMMA RunExists ==
  ASSUME NEW v, NEW i \in Nat \ {0}, v[i] = Backslash
  PROVE  \E k : RunTo(v, k, i)
<1>. DEFINE S == {n \in Nat : v[n + 1] = Backslash => \E k : RunTo(v, k, n + 1)}
<1>1. 0 \in S
  <2>1. v[0 + 1] = Backslash => RunTo(v, 0, 0 + 1)
    BY DEF RunTo
  <2>. QED BY <2>1
<1>2. ASSUME NEW n \in Nat, n \in S PROVE n + 1 \in S
  <2>1. SUFFICES ASSUME v[n + 2] = Backslash PROVE \E k : RunTo(v, k, n + 2)
    OBVIOUS
  <2>2. CASE v[n + 1] = Backslash
    <3>1. PICK k : RunTo(v, k, n + 1)
      BY <1>2, <2>2
    <3>2. RunTo(v, k, n + 2)
      BY <2>1, <3>1 DEF RunTo
    <3>. QED BY <3>2
  <2>3. CASE v[n + 1] # Backslash
    <3>1. RunTo(v, n + 1, n + 2)
      BY <2>1, <2>3 DEF RunTo
    <3>. QED BY <3>1
  <2>. QED BY <2>2, <2>3
<1>. HIDE DEF S
<1>3. Nat \subseteq S
  BY <1>1, <1>2, SetInduction
<1>4. i - 1 \in S
  BY <1>3
<1>. QED BY <1>4 DEF S

LEMMA EscapesAre ==
  ASSUME NEW v, Len(v) \in Nat, NEW i \in 1..Len(v)
  PROVE  i \in Escapes(v) <=> v[i] = Backslash /\ i - 1 \notin Escapes(v)
<1>1. \A m \in 1..Len(v) : m \in Escapes(v) <=> \E k : RunTo(v, k, m) /\ (m - k) % 2 = 1
  BY DEF Escapes, RunTo
<1>2. 0 \notin Escapes(v)
  BY DEF Escapes
<1>3. ASSUME NEW m \in Nat, NEW j, NEW k, RunTo(v, j, m), RunTo(v, k, m) PROVE j = k
  <2>1. j \in Nat /\ k \in Nat /\ j < m /\ k < m
    BY <1>3 DEF RunTo
  <2>2. ~(j < k) /\ ~(k < j)
    BY <1>3, <2>1 DEF RunTo
  <2>. QED BY <2>1, <2>2
<1>4. ASSUME i \in Escapes(v) PROVE v[i] = Backslash /\ i - 1 \notin Escapes(v)
  <2>1. PICK k : RunTo(v, k, i) /\ (i - k) % 2 = 1
    BY <1>1, <1>4
  <2>2. k \in Nat /\ k < i /\ v[i] = Backslash
    BY <2>1 DEF RunTo
  <2>3. ASSUME i - 1 \in Escapes(v) PROVE FALSE
    <3>1. i - 1 \in 1..Len(v)
      BY <1>2, <2>3
    <3>2. PICK j : RunTo(v, j, i - 1) /\ (i - 1 - j) % 2 = 1
      BY <1>1, <2>3, <3>1
    <3>3. j \in Nat /\ j < i - 1 /\ v[i - 1] = Backslash
      BY <3>1, <3>2 DEF RunTo
    <3>4. RunTo(v, j, i)
      BY <2>2, <3>1, <3>2 DEF RunTo
    <3>5. j = k
      BY <1>3, <2>1, <3>4
    <3>. QED BY <2>1, <2>2, <3>1, <3>2, <3>3, <3>5
  <2>. QED BY <2>2, <2>3
<1>5. ASSUME v[i] = Backslash, i - 1 \notin Escapes(v) PROVE i \in Escapes(v)
  <2>1. PICK k : RunTo(v, k, i)
    BY <1>5, RunExists
  <2>2. k \in Nat /\ k < i
    BY <2>1 DEF RunTo
  <2>3. CASE k = i - 1
    BY <1>1, <2>1, <2>2, <2>3
  <2>4. CASE k < i - 1
    <3>1. i - 1 \in 1..Len(v) /\ RunTo(v, k, i - 1)
      BY <2>1, <2>2, <2>4 DEF RunTo
    <3>2. (i - 1 - k) % 2 # 1
      BY <1>1, <1>5, <3>1
    <3>3. (i - k) % 2 = 1
      BY <2>2, <3>2
    <3>. QED BY <1>1, <2>1, <3>3
  <2>. QED BY <2>2, <2>3, <2>4
<1>. QED BY <1>4, <1>5

-------------------------------------------------------------------------------
(* One more character of the value. *)

LEMMA EscapesGrow ==
  ASSUME NEW v \in Seq(Char), NEW char \in Char
  PROVE  /\ \A i \in 0..Len(v) : i \in Escapes(Append(v, char)) <=> i \in Escapes(v)
         /\ Len(v) + 1 \in Escapes(Append(v, char)) <=> char = Backslash /\ Len(v) \notin Escapes(v)
<1>. DEFINE w == Append(v, char)
<1>1. /\ Len(v) \in Nat /\ Len(w) = Len(v) + 1 /\ w[Len(v) + 1] = char
      /\ \A i \in 1..Len(v) : w[i] = v[i]
  OBVIOUS
<1>. HIDE DEF w
<1>2. \A i \in 0..Len(v) : i \in Escapes(w) <=> i \in Escapes(v)
  BY <1>1 DEF Escapes
<1>3. Len(v) + 1 \in Escapes(w) <=> w[Len(v) + 1] = Backslash /\ Len(v) + 1 - 1 \notin Escapes(w)
  BY <1>1, EscapesAre
<1>4. Len(v) + 1 - 1 = Len(v) /\ Len(v) \in 0..Len(v)
  BY <1>1
<1>. QED BY <1>1, <1>2, <1>3, <1>4 DEF w

LEMMA ClosingQuotesGrow ==
  ASSUME NEW v \in Seq(Char), NEW char \in Char
  PROVE  ClosingQuotes(Append(v, char)) =
           IF char = Quote /\ Len(v) \notin Escapes(v)
           THEN ClosingQuotes(v) \cup {Len(v) + 1} ELSE ClosingQuotes(v)
<1>. DEFINE w == Append(v, char)
<1>1. /\ Len(v) \in Nat /\ Len(w) = Len(v) + 1 /\ w[Len(v) + 1] = char
      /\ \A i \in 1..Len(v) : w[i] = v[i]
  OBVIOUS
<1>2. \A i \in 0..Len(v) : i \in Escapes(w) <=> i \in Escapes(v)
  BY EscapesGrow
<1>. HIDE DEF w
<1>3. \A i \in 1..Len(v) : i \in ClosingQuotes(w) <=> i \in ClosingQuotes(v)
  BY <1>1, <1>2 DEF ClosingQuotes
<1>4. Len(v) + 1 \in ClosingQuotes(w) <=> char = Quote /\ Len(v) \notin Escapes(v)
  BY <1>1, <1>2 DEF ClosingQuotes
<1>5. ClosingQuotes(w) \subseteq 1..(Len(v) + 1) /\ ClosingQuotes(v) \subseteq 1..Len(v)
  BY <1>1 DEF ClosingQuotes
<1>6. \A i : i \in 1..(Len(v) + 1) <=> i \in 1..Len(v) \/ i = Len(v) + 1
  BY <1>1
<1>7. CASE char = Quote /\ Len(v) \notin Escapes(v)
  <2>1. ClosingQuotes(w) = ClosingQuotes(v) \cup {Len(v) + 1}
    BY <1>3, <1>4, <1>5, <1>6, <1>7
  <2>. QED BY <1>7, <2>1 DEF w
<1>8. CASE ~(char = Quote /\ Len(v) \notin Escapes(v))
  <2>1. ClosingQuotes(w) = ClosingQuotes(v)
    BY <1>3, <1>4, <1>5, <1>6, <1>8
  <2>. QED BY <1>8, <2>1 DEF w
<1>. QED BY <1>7, <1>8

(* Shown is the last position if it is neither closing nor behind that, and *)
(* no escaping backslash.                                                  *)
LEMMA ShownGrows ==
  ASSUME NEW v \in Seq(Char), NEW char \in Char
  PROVE  /\ Shown(Append(v, char)) =
              IF ClosingQuotes(Append(v, char)) = {} /\ ~(char = Backslash /\ Len(v) \notin Escapes(v))
              THEN Shown(v) \cup {Len(v) + 1} ELSE Shown(v)
         /\ \A i \in Shown(v) : Decoded(Append(v, char), i) = Decoded(v, i)
         /\ Decoded(Append(v, char), Len(v) + 1) =
              IF Len(v) \in Escapes(v) THEN Unescaped(char) ELSE char
<1>. DEFINE w == Append(v, char)
<1>1. /\ Len(v) \in Nat /\ Len(w) = Len(v) + 1 /\ w[Len(v) + 1] = char
      /\ \A i \in 1..Len(v) : w[i] = v[i]
  OBVIOUS
<1>2. /\ \A i \in 0..Len(v) : i \in Escapes(w) <=> i \in Escapes(v)
      /\ Len(v) + 1 \in Escapes(w) <=> char = Backslash /\ Len(v) \notin Escapes(v)
  BY EscapesGrow
<1>3. /\ ClosingQuotes(v) \subseteq ClosingQuotes(w)
      /\ \A c \in ClosingQuotes(w) : c \in ClosingQuotes(v) \/ c = Len(v) + 1
  BY ClosingQuotesGrow
<1>. HIDE DEF w
<1>4. ClosingQuotes(w) \subseteq 1..(Len(v) + 1)
  BY <1>1 DEF ClosingQuotes
<1>5. ASSUME NEW i \in 1..Len(v) PROVE i \in Shown(w) <=> i \in Shown(v)
  BY <1>1, <1>2, <1>3 DEF Shown
<1>6. Len(v) + 1 \in Shown(w) <=>
        ClosingQuotes(w) = {} /\ ~(char = Backslash /\ Len(v) \notin Escapes(v))
  BY <1>1, <1>2, <1>4 DEF Shown
<1>7. Shown(w) \subseteq 1..(Len(v) + 1) /\ Shown(v) \subseteq 1..Len(v)
  BY <1>1 DEF Shown
<1>8. \A i : i \in 1..(Len(v) + 1) <=> i \in 1..Len(v) \/ i = Len(v) + 1
  BY <1>1
<1>9. Shown(w) = IF ClosingQuotes(w) = {} /\ ~(char = Backslash /\ Len(v) \notin Escapes(v))
                 THEN Shown(v) \cup {Len(v) + 1} ELSE Shown(v)
  <2>1. CASE Len(v) + 1 \in Shown(w)
    <3>1. Shown(w) = Shown(v) \cup {Len(v) + 1}
      BY <1>5, <1>7, <1>8, <2>1
    <3>. QED BY <1>6, <2>1, <3>1
  <2>2. CASE Len(v) + 1 \notin Shown(w)
    <3>1. Shown(w) = Shown(v)
      BY <1>5, <1>7, <1>8, <2>2
    <3>. QED BY <1>6, <2>2, <3>1
  <2>. QED BY <2>1, <2>2
<1>10. \A i \in Shown(v) : Decoded(w, i) = Decoded(v, i)
  BY <1>1, <1>2, <1>7 DEF Decoded
<1>11. Decoded(w, Len(v) + 1) = IF Len(v) \in Escapes(v) THEN Unescaped(char) ELSE char
  BY <1>1, <1>2 DEF Decoded
<1>. QED BY <1>9, <1>10, <1>11 DEF w

-------------------------------------------------------------------------------
(* The text shown. *)

(* How many positions are shown up to i. *)
RankOf(v, i) == Cardinality({j \in Shown(v) : j <= i})

LEMMA ShownIsFinite ==
  ASSUME NEW v, Len(v) \in Nat
  PROVE  IsFiniteSet(Shown(v)) /\ Cardinality(Shown(v)) \in Nat
<1>1. IsFiniteSet(1..Len(v))
  BY FS_Interval
<1>2. Shown(v) \in SUBSET (1..Len(v))
  BY DEF Shown
<1>3. IsFiniteSet(Shown(v))
  BY <1>1, <1>2, FS_Subset
<1>. QED BY <1>3, FS_CardinalityType

LEMMA RankInRange ==
  ASSUME NEW v, Len(v) \in Nat, NEW i \in Shown(v)
  PROVE  RankOf(v, i) \in 1..Cardinality(Shown(v))
<1>. DEFINE R == {j \in Shown(v) : j <= i}
<1>1. IsFiniteSet(Shown(v)) /\ Cardinality(Shown(v)) \in Nat
  BY ShownIsFinite
<1>2. R \in SUBSET Shown(v) /\ i \in R
  BY DEF Shown
<1>. HIDE DEF R
<1>3. IsFiniteSet(R) /\ Cardinality(R) <= Cardinality(Shown(v))
  BY <1>1, <1>2, FS_Subset
<1>4. Cardinality(R) \in Nat /\ Cardinality(R) # 0
  BY <1>2, <1>3, FS_CardinalityType, FS_EmptySet
<1>. QED BY <1>1, <1>3, <1>4 DEF RankOf, R

(* Showing nothing for the next character, or one more. *)
LEMMA FollowsMore ==
  ASSUME NEW v \in Seq(Char), NEW char \in Char,
         NEW shown \in Seq(Char \cup {Newline}), Follows(shown, v),
         NEW more \in Char \cup {Newline}
  PROVE  /\ Shown(Append(v, char)) = Shown(v) => Follows(shown, Append(v, char))
         /\ /\ Shown(Append(v, char)) = Shown(v) \cup {Len(v) + 1}
            /\ more = Decoded(Append(v, char), Len(v) + 1)
            => Follows(Append(shown, more), Append(v, char))
<1>1. PICK w : w = Append(v, char)
  OBVIOUS
<1>2. \A i \in Shown(v) : Decoded(w, i) = Decoded(v, i) /\ i \in 1..Len(v)
  BY <1>1, ShownGrows DEF Shown
<1>3. Len(v) \in Nat
  OBVIOUS
<1>4. /\ Len(shown) = Cardinality(Shown(v))
      /\ \A i \in Shown(v) : shown[RankOf(v, i)] = Decoded(v, i)
  BY DEF Follows, RankOf
<1>5. CASE Shown(w) = Shown(v)
  <2>1. \A i : RankOf(w, i) = RankOf(v, i)
    BY <1>5 DEF RankOf
  <2>2. Follows(shown, w)
    BY <1>2, <1>4, <1>5, <2>1 DEF Follows, RankOf
  <2>3. Shown(w) # Shown(v) \cup {Len(v) + 1}
    BY <1>2, <1>3, <1>5
  <2>. QED BY <1>1, <2>2, <2>3
<1>6. CASE Shown(w) = Shown(v) \cup {Len(v) + 1} /\ more = Decoded(w, Len(v) + 1)
  <2>0. Len(v) + 1 \notin Shown(v)
    BY <1>2, <1>3
  <2>1. Cardinality(Shown(w)) = Cardinality(Shown(v)) + 1 /\ Cardinality(Shown(v)) \in Nat
    BY <1>3, <1>6, <2>0, ShownIsFinite, FS_AddElement
  <2>2. ASSUME NEW i \in Shown(v)
        PROVE  Append(shown, more)[RankOf(w, i)] = Decoded(w, i)
    <3>1. {j \in Shown(w) : j <= i} = {j \in Shown(v) : j <= i}
      BY <1>2, <1>3, <1>6
    <3>2. RankOf(w, i) = RankOf(v, i)
      BY <3>1 DEF RankOf
    <3>3. RankOf(v, i) \in 1..Len(shown)
      BY <1>3, <1>4, RankInRange
    <3>. QED BY <1>2, <1>4, <3>2, <3>3
  <2>3. Append(shown, more)[RankOf(w, Len(v) + 1)] = Decoded(w, Len(v) + 1)
    <3>1. {j \in Shown(w) : j <= Len(v) + 1} = Shown(w)
      BY <1>2, <1>3, <1>6
    <3>2. RankOf(w, Len(v) + 1) = Len(shown) + 1
      BY <1>4, <2>1, <3>1 DEF RankOf
    <3>. QED BY <1>6, <3>2
  <2>4. Follows(Append(shown, more), w)
    <3>1. Len(Append(shown, more)) = Cardinality(Shown(w))
      BY <1>4, <2>1
    <3>2. \A i \in Shown(w) : Append(shown, more)[RankOf(w, i)] = Decoded(w, i)
      BY <1>6, <2>2, <2>3
    <3>. QED BY <3>1, <3>2 DEF Follows, RankOf
  <2>5. Shown(w) # Shown(v)
    BY <1>6, <2>0
  <2>. QED BY <1>1, <2>4, <2>5
<1>. QED BY <1>1, <1>5, <1>6

-------------------------------------------------------------------------------
(* The loop over the characters of the value. *)

LEMMA EmptyValue ==
  IsValueOf([state |-> "IN_VALUE", escape |-> FALSE, out |-> << >>], << >>)
<1>1. Shown(<< >>) = {} /\ ClosingQuotes(<< >>) = {} /\ Escapes(<< >>) = {}
  BY DEF Shown, ClosingQuotes, Escapes
<1>2. Follows(<< >>, << >>)
  BY <1>1, FS_EmptySet DEF Follows
<1>. QED BY <1>1, <1>2 DEF IsValueOf, Value

(* The value does not change any more when it is closed. *)
LEMMA EmitDone ==
  ASSUME NEW v \in Seq(Char), NEW char \in Char, NEW value,
         IsValueOf(value, v), value.state = "DONE"
  PROVE  Emit(value, char) = value /\ IsValueOf(value, Append(v, char))
<1>1. Emit(value, char) = value
  BY DEF Emit
<1>2. ClosingQuotes(Append(v, char)) # {}
  BY ClosingQuotesGrow DEF IsValueOf
<1>3. Shown(Append(v, char)) = Shown(v)
  BY <1>2, ShownGrows
<1>4. Follows(value.out, Append(v, char))
  BY <1>3, FollowsMore DEF IsValueOf, Value
<1>. QED BY <1>1, <1>2, <1>4 DEF IsValueOf

LEMMA EmitInValue ==
  ASSUME NEW v \in Seq(Char), NEW char \in Char, NEW value,
         IsValueOf(value, v), value.state = "IN_VALUE"
  PROVE  IsValueOf(Emit(value, char), Append(v, char))
<1>0. Len(Append(v, char)) = Len(v) + 1 /\ Len(v) \in Nat
  OBVIOUS
<1>1. PICK w : w = Append(v, char) /\ Len(w) = Len(v) + 1 /\ Len(v) \in Nat
  BY <1>0
<1>2. /\ value \in Value /\ Follows(value.out, v) /\ ClosingQuotes(v) = {}
      /\ value.escape <=> Len(v) \in Escapes(v)
      /\ value.out \in Seq(Char \cup {Newline})
  BY DEF IsValueOf, Value
<1>3. /\ Len(w) \in Escapes(w) <=> char = Backslash /\ Len(v) \notin Escapes(v)
      /\ ClosingQuotes(w) = IF char = Quote /\ Len(v) \notin Escapes(v)
                            THEN {Len(v) + 1} ELSE {}
  BY <1>1, <1>2, EscapesGrow, ClosingQuotesGrow
<1>4. /\ Shown(w) = IF ClosingQuotes(w) = {} /\ ~(char = Backslash /\ Len(v) \notin Escapes(v))
                    THEN Shown(v) \cup {Len(v) + 1} ELSE Shown(v)
      /\ Decoded(w, Len(v) + 1) = IF Len(v) \in Escapes(v) THEN Unescaped(char) ELSE char
  BY <1>1, ShownGrows
<1>5. Unescaped(char) \in Char \cup {Newline} /\ char \in Char \cup {Newline}
  BY DEF Unescaped
<1>6. ASSUME NEW shown \in Seq(Char \cup {Newline}), NEW more \in Char \cup {Newline}
       PROVE  Append(shown, more) \in Seq(Char \cup {Newline})
  OBVIOUS
<1>7. CASE value.escape
  <2>1. Emit(value, char) = [value EXCEPT !.out = Append(value.out, Unescaped(char)), !.escape = FALSE]
    BY <1>7 DEF Emit
  <2>2. /\ Emit(value, char) \in Value /\ Emit(value, char).state = "IN_VALUE"
        /\ Emit(value, char).escape = FALSE
        /\ Emit(value, char).out = Append(value.out, Unescaped(char))
    <3>1. Append(value.out, Unescaped(char)) \in Seq(Char \cup {Newline})
      BY <1>2, <1>5, <1>6
    <3>. QED BY <1>2, <2>1, <3>1 DEF Value
  <2>3. /\ ClosingQuotes(w) = {} /\ Len(w) \notin Escapes(w)
        /\ Shown(w) = Shown(v) \cup {Len(v) + 1} /\ Decoded(w, Len(v) + 1) = Unescaped(char)
    BY <1>2, <1>3, <1>4, <1>7
  <2>4. Follows(Append(value.out, Unescaped(char)), w)
    BY <1>1, <1>2, <1>5, <2>3, FollowsMore
  <2>. QED BY <1>1, <2>2, <2>3, <2>4 DEF IsValueOf
<1>8. CASE ~value.escape /\ char = Backslash
  <2>1. Emit(value, char) = [value EXCEPT !.escape = TRUE]
    BY <1>8 DEF Emit, Backslash, Quote
  <2>2. /\ Emit(value, char) \in Value /\ Emit(value, char).state = "IN_VALUE"
        /\ Emit(value, char).escape = TRUE /\ Emit(value, char).out = value.out
    BY <1>2, <2>1 DEF Value
  <2>3. ClosingQuotes(w) = {} /\ Len(w) \in Escapes(w) /\ Shown(w) = Shown(v)
    BY <1>2, <1>3, <1>4, <1>8 DEF Backslash, Quote
  <2>4. Follows(value.out, w)
    BY <1>1, <1>2, <1>5, <2>3, FollowsMore
  <2>. QED BY <1>1, <2>2, <2>3, <2>4 DEF IsValueOf
<1>9. CASE ~value.escape /\ char = Quote
  <2>1. Emit(value, char) = [value EXCEPT !.state = "DONE"]
    BY <1>9 DEF Emit, Backslash, Quote
  <2>2. /\ Emit(value, char) \in Value /\ Emit(value, char).state = "DONE"
        /\ Emit(value, char).out = value.out
    BY <1>2, <2>1 DEF Value
  <2>3. ClosingQuotes(w) # {} /\ Shown(w) = Shown(v)
    BY <1>2, <1>3, <1>4, <1>9
  <2>4. Follows(value.out, w)
    BY <1>1, <1>2, <1>5, <2>3, FollowsMore
  <2>. QED BY <1>1, <2>2, <2>3, <2>4 DEF IsValueOf
<1>10. CASE ~value.escape /\ char # Backslash /\ char # Quote
  <2>1. Emit(value, char) = [value EXCEPT !.out = Append(value.out, char)]
    BY <1>10 DEF Emit
  <2>2. /\ Emit(value, char) \in Value /\ Emit(value, char).state = "IN_VALUE"
        /\ Emit(value, char).escape = value.escape
        /\ Emit(value, char).out = Append(value.out, char)
    <3>1. Append(value.out, char) \in Seq(Char \cup {Newline})
      BY <1>2, <1>5, <1>6
    <3>. QED BY <1>2, <2>1, <3>1 DEF Value
  <2>3. /\ ClosingQuotes(w) = {} /\ Len(w) \notin Escapes(w)
        /\ Shown(w) = Shown(v) \cup {Len(v) + 1} /\ Decoded(w, Len(v) + 1) = char
    BY <1>2, <1>3, <1>4, <1>10
  <2>4. Follows(Append(value.out, char), w)
    BY <1>1, <1>2, <1>5, <2>3, FollowsMore
  <2>. QED BY <1>1, <1>10, <2>2, <2>3, <2>4 DEF IsValueOf
<1>. QED BY <1>7, <1>8, <1>9, <1>10

LEMMA EmitGoesOn ==
  ASSUME NEW v \in Seq(Char), NEW char \in Char, NEW value, IsValueOf(value, v)
  PROVE  IsValueOf(Emit(value, char), Append(v, char))
<1>1. value.state = "DONE" \/ value.state = "IN_VALUE"
  BY DEF IsValueOf, Value
<1>. QED BY <1>1, EmitDone, EmitInValue

(* A loop over b that begins with value passes through after. *)
Passes(after, value, b) ==
  after = [n \in 0..Len(b) |-> IF n = 0 THEN value ELSE Emit(after[n - 1], b[n])]

LEMMA LoopExists ==
  ASSUME NEW value, NEW b \in Seq(Char)
  PROVE  \E after : Passes(after, value, b)
<1>. DEFINE Loop(f, m) == f = [n \in 0..m |-> IF n = 0 THEN value ELSE Emit(f[n - 1], b[n])]
            S == {m \in Nat : \E f : Loop(f, m)}
<1>1. 0 \in S
  <2>1. Loop([n \in 0..0 |-> value], 0)
    OBVIOUS
  <2>. QED BY <2>1
<1>2. ASSUME NEW m \in Nat, m \in S PROVE m + 1 \in S
  <2>1. PICK f : Loop(f, m)
    BY <1>2
  <2>. DEFINE g == [n \in 0..(m + 1) |-> IF n = m + 1 THEN Emit(f[m], b[m + 1]) ELSE f[n]]
  <2>2. ASSUME NEW n \in 0..(m + 1)
        PROVE  g[n] = IF n = 0 THEN value ELSE Emit(g[n - 1], b[n])
    <3>1. CASE n = m + 1
      <4>1. g[n] = Emit(f[m], b[n]) /\ g[n - 1] = f[m] /\ n # 0
        BY <3>1
      <4>. HIDE DEF g
      <4>. QED BY <4>1
    <3>2. CASE n # m + 1
      <4>1. g[n] = f[n] /\ n \in 0..m /\ (n # 0 => g[n - 1] = f[n - 1])
        BY <3>2
      <4>2. f[n] = IF n = 0 THEN value ELSE Emit(f[n - 1], b[n])
        BY <2>1, <4>1
      <4>. HIDE DEF g
      <4>. QED BY <4>1, <4>2
    <3>. QED BY <3>1, <3>2
  <2>3. Loop(g, m + 1)
    BY <2>2
  <2>. HIDE DEF g, Loop
  <2>4. \E h : Loop(h, m + 1)
    BY <2>3
  <2>. QED BY <2>4
<1>. HIDE DEF S
<1>3. Len(b) \in S
  BY <1>1, <1>2, SetInduction
<1>. QED BY <1>3 DEF S, Passes

LEMMA AfterCharsIs ==
  ASSUME NEW value, NEW b \in Seq(Char)
  PROVE  \E after : /\ after[0] = value /\ after[Len(b)] = AfterChars(value, b)
                    /\ \A n \in 1..Len(b) : after[n] = Emit(after[n - 1], b[n])
<1>. DEFINE after == CHOOSE f : Passes(f, value, b)
<1>1. Passes(after, value, b)
  BY LoopExists, Zenon
<1>2. AfterChars(value, b) = after[Len(b)]
  BY Zenon DEF AfterChars, Passes
<1>. HIDE DEF after
<1>3. Len(b) \in Nat
  OBVIOUS
<1>4. ASSUME NEW n \in 0..Len(b) PROVE after[n] = IF n = 0 THEN value ELSE Emit(after[n - 1], b[n])
  BY <1>1 DEF Passes
<1>5. after[0] = value /\ \A n \in 1..Len(b) : after[n] = Emit(after[n - 1], b[n])
  BY <1>3, <1>4
<1>. QED BY <1>2, <1>5

LEMMA LoopGoesOn ==
  ASSUME NEW v \in Seq(Char), NEW b \in Seq(Char), NEW value, IsValueOf(value, v)
  PROVE  /\ IsValueOf(AfterChars(value, b), v \o b)
         /\ value.state = "DONE" => AfterChars(value, b) = value
<1>1. PICK after : /\ after[0] = value /\ after[Len(b)] = AfterChars(value, b)
                  /\ \A n \in 1..Len(b) : after[n] = Emit(after[n - 1], b[n])
  BY AfterCharsIs
<1>. DEFINE Good(n) == /\ IsValueOf(after[n], v \o SubSeq(b, 1, n))
                       /\ value.state = "DONE" => after[n] = value
            S == {n \in Nat : n <= Len(b) => Good(n)}
<1>2. 0 \in S
  <2>1. v \o SubSeq(b, 1, 0) = v
    OBVIOUS
  <2>. QED BY <1>1, <2>1
<1>3. ASSUME NEW n \in Nat, n \in S PROVE n + 1 \in S
  <2>1. SUFFICES ASSUME n + 1 <= Len(b)
                 PROVE  Good(n + 1)
    OBVIOUS
  <2>2. n \in Nat /\ n <= Len(b) /\ n + 1 \in 1..Len(b) /\ b[n + 1] \in Char
    BY <2>1
  <2>3. v \o SubSeq(b, 1, n) \in Seq(Char)
    BY <2>2
  <2>4. v \o SubSeq(b, 1, n + 1) = Append(v \o SubSeq(b, 1, n), b[n + 1])
    BY <2>2
  <2>5. Good(n)
    <3>. HIDE DEF Good
    <3>. QED BY <1>3, <2>2
  <2>6. after[n + 1] = Emit(after[n], b[n + 1])
    BY <1>1, <2>2
  <2>7. IsValueOf(after[n + 1], v \o SubSeq(b, 1, n + 1))
    BY <2>2, <2>3, <2>4, <2>5, <2>6, EmitGoesOn
  <2>8. value.state = "DONE" => after[n + 1] = value
    BY <2>2, <2>3, <2>5, <2>6, EmitDone
  <2>. QED BY <2>7, <2>8
<1>. HIDE DEF S
<1>4. Len(b) \in S
  BY <1>2, <1>3, SetInduction
<1>5. SubSeq(b, 1, Len(b)) = b /\ Len(b) <= Len(b)
  OBVIOUS
<1>6. Good(Len(b))
  <2>. HIDE DEF Good
  <2>. QED BY <1>4, <1>5 DEF S
<1>. QED BY <1>1, <1>5, <1>6

-------------------------------------------------------------------------------
(* Searching. *)

MarkerAt(s, i) ==
  /\ i \in 1..(Len(s) - 3)
  /\ s[i] = Quote /\ s[i + 1] = Key /\ s[i + 2] = Quote /\ s[i + 3] = Colon

LEMMA FindIs ==
  ASSUME NEW s \in Seq(Char), NEW t \in Seq(Char)
  PROVE  LET Starts == {i \in 1..(Len(s) - Len(t) + 1) : SubSeq(s, i, i + Len(t) - 1) = t}
         IN  \/ Starts = {} /\ Find(s, t) = 0
             \/ Find(s, t) \in Starts /\ \A i \in Starts : Find(s, t) <= i
<1>. DEFINE Starts == {i \in 1..(Len(s) - Len(t) + 1) : SubSeq(s, i, i + Len(t) - 1) = t}
<1>1. Starts \in SUBSET Nat
  OBVIOUS
<1>2. Find(s, t) = IF Starts = {} THEN 0 ELSE Min(Starts)
  BY Zenon DEF Find
<1>. HIDE DEF Starts
<1>3. CASE Starts # {}
  <2>1. PICK m \in Starts : \A i \in Starts : m <= i
    BY <1>1, <1>3, LeastNat
  <2>2. Min(Starts) \in Starts /\ \A i \in Starts : Min(Starts) <= i
    BY <2>1, Zenon DEF Min
  <2>. QED BY <1>2, <1>3, <2>2 DEF Starts
<1>. QED BY <1>2, <1>3 DEF Starts

LEMMA FindMarker ==
  ASSUME NEW s \in Seq(Char)
  PROVE  /\ Find(s, Marker) \in Nat
         /\ Find(s, Marker) = 0 => \A i : ~MarkerAt(s, i)
         /\ Find(s, Marker) # 0 => /\ MarkerAt(s, Find(s, Marker))
                                  /\ \A i : MarkerAt(s, i) => Find(s, Marker) <= i
<1>. DEFINE Starts == {i \in 1..(Len(s) - Len(Marker) + 1) : SubSeq(s, i, i + Len(Marker) - 1) = Marker}
<1>1. Marker \in Seq(Char) /\ Len(Marker) = 4
  BY DEF Marker, Char
<1>2. ASSUME NEW i PROVE i \in Starts <=> MarkerAt(s, i)
  <2>1. SUFFICES ASSUME i \in 1..(Len(s) - 3)
                 PROVE  SubSeq(s, i, i + 3) = Marker <=> MarkerAt(s, i)
    BY <1>1 DEF MarkerAt
  <2>2. PICK u : /\ u = SubSeq(s, i, i + 3) /\ u \in Seq(Char) /\ Len(u) = 4
                 /\ u[1] = s[i] /\ u[2] = s[i + 1] /\ u[3] = s[i + 2] /\ u[4] = s[i + 3]
    <3>1. i \in 1..(Len(s) + 1) /\ i + 3 \in (i - 1)..Len(s) /\ Len(s) \in Nat /\ i \in Int
      BY <2>1
    <3>0. /\ SubSeq(s, i, i + 3) \in Seq(Char) /\ Len(SubSeq(s, i, i + 3)) = i + 3 - i + 1
          /\ \A j \in 1..(i + 3 - i + 1) : SubSeq(s, i, i + 3)[j] = s[i + j - 1]
      BY <3>1, SubSeqProperties
    <3>2. PICK u : /\ u = SubSeq(s, i, i + 3) /\ u \in Seq(Char) /\ Len(u) = i + 3 - i + 1
                   /\ \A j \in 1..(i + 3 - i + 1) : u[j] = s[i + j - 1]
      BY <3>0
    <3>3. i + 3 - i + 1 = 4
      BY <3>1
    <3>4. \A j \in 1..4 : u[j] = s[i + j - 1]
      BY <3>2, <3>3
    <3>5. /\ 1 \in 1..4 /\ 2 \in 1..4 /\ 3 \in 1..4 /\ 4 \in 1..4
          /\ i + 1 - 1 = i /\ i + 2 - 1 = i + 1 /\ i + 3 - 1 = i + 2 /\ i + 4 - 1 = i + 3
      BY <3>1
    <3>6. u[1] = s[i] /\ u[2] = s[i + 1]
      BY <3>4, <3>5
    <3>7. u[3] = s[i + 2] /\ u[4] = s[i + 3]
      BY <3>4, <3>5
    <3>. QED BY <3>2, <3>3, <3>6, <3>7
  <2>3. Marker[1] = Quote /\ Marker[2] = Key /\ Marker[3] = Quote /\ Marker[4] = Colon
    BY DEF Marker
  <2>4. u = Marker <=> \A j \in 1..4 : u[j] = Marker[j]
    BY <1>1, <2>2, SeqEqual
  <2>5. \A j : j \in 1..4 <=> j = 1 \/ j = 2 \/ j = 3 \/ j = 4
    OBVIOUS
  <2>. QED BY <2>1, <2>2, <2>3, <2>4, <2>5 DEF MarkerAt
<1>3. \/ Starts = {} /\ Find(s, Marker) = 0
      \/ Find(s, Marker) \in Starts /\ \A i \in Starts : Find(s, Marker) <= i
  BY <1>1, FindIs
<1>4. Starts \subseteq Nat \ {0}
  BY <1>1
<1>. HIDE DEF Starts
<1>5. CASE Starts = {} /\ Find(s, Marker) = 0
  BY <1>2, <1>5
<1>6. CASE Find(s, Marker) \in Starts /\ \A i \in Starts : Find(s, Marker) <= i
  <2>1. PICK m : m = Find(s, Marker)
    OBVIOUS
  <2>2. m \in Nat /\ m # 0 /\ MarkerAt(s, m) /\ \A i : MarkerAt(s, i) => m <= i
    BY <1>2, <1>4, <1>6, <2>1
  <2>. QED BY <2>1, <2>2
<1>. QED BY <1>3, <1>5, <1>6

LEMMA FindQuote ==
  ASSUME NEW s \in Seq(Char)
  PROVE  /\ Find(s, <<Quote>>) \in Nat
         /\ Find(s, <<Quote>>) = 0 => \A i \in 1..Len(s) : s[i] # Quote
         /\ Find(s, <<Quote>>) # 0 =>
              /\ Find(s, <<Quote>>) \in 1..Len(s) /\ s[Find(s, <<Quote>>)] = Quote
              /\ \A i \in 1..Len(s) : s[i] = Quote => Find(s, <<Quote>>) <= i
<1>. DEFINE t == <<Quote>>
            Starts == {i \in 1..(Len(s) - Len(t) + 1) : SubSeq(s, i, i + Len(t) - 1) = t}
<1>1. t \in Seq(Char) /\ Len(t) = 1
  BY DEF Char
<1>2. ASSUME NEW i PROVE i \in Starts <=> i \in 1..Len(s) /\ s[i] = Quote
  <2>1. SUFFICES ASSUME i \in 1..Len(s)
                 PROVE  SubSeq(s, i, i) = t <=> s[i] = Quote
    BY <1>1
  <2>2. Len(SubSeq(s, i, i)) = 1 /\ SubSeq(s, i, i) \in Seq(Char) /\ SubSeq(s, i, i)[1] = s[i]
    <3>1. i \in 1..(Len(s) + 1) /\ i \in (i - 1)..Len(s) /\ i - i + 1 = 1 /\ i + 1 - 1 = i
      BY <2>1
    <3>2. /\ SubSeq(s, i, i) \in Seq(Char) /\ Len(SubSeq(s, i, i)) = i - i + 1
          /\ \A j \in 1..(i - i + 1) : SubSeq(s, i, i)[j] = s[i + j - 1]
      BY <3>1, SubSeqProperties
    <3>3. SubSeq(s, i, i)[1] = s[i + 1 - 1]
      BY <3>1, <3>2
    <3>. QED BY <3>1, <3>2, <3>3
  <2>3. s[i] = Quote => SubSeq(s, i, i) = t
    <3>. DEFINE u == SubSeq(s, i, i)
    <3>. HIDE DEF u
    <3>1. u \in Seq(Char) /\ Len(u) = 1 /\ u[1] = s[i]
      BY <2>2 DEF u
    <3>2. s[i] = Quote => \A j \in 1..Len(u) : u[j] = t[j]
      BY <3>1
    <3>3. s[i] = Quote => u = t
      <4>. HIDE DEF t
      <4>. QED BY <1>1, <3>1, <3>2, SeqEqual
    <3>. QED BY <3>3 DEF u
  <2>4. t[1] = Quote
    OBVIOUS
  <2>. QED BY <2>2, <2>3, <2>4
<1>3. \/ Starts = {} /\ Find(s, t) = 0
      \/ Find(s, t) \in Starts /\ \A i \in Starts : Find(s, t) <= i
  BY <1>1, FindIs
<1>4. Starts \subseteq Nat \ {0}
  BY <1>1
<1>. HIDE DEF Starts
<1>. QED BY <1>2, <1>3, <1>4

(* The same four characters at i and at k are a marker at both or neither. *)
LEMMA MarkerMoves ==
  ASSUME NEW s, NEW w, Len(s) \in Nat, Len(w) \in Nat,
         NEW i \in Nat \ {0}, NEW k \in Nat \ {0}, i + 3 <= Len(s), k + 3 <= Len(w),
         \A j \in 0..3 : w[k + j] = s[i + j]
  PROVE  MarkerAt(s, i) <=> MarkerAt(w, k)
<1>1. /\ w[k + 0] = s[i + 0] /\ w[k + 1] = s[i + 1] /\ w[k + 2] = s[i + 2] /\ w[k + 3] = s[i + 3]
      /\ k + 0 = k /\ i + 0 = i
  OBVIOUS
<1>2. i \in 1..(Len(s) - 3) /\ k \in 1..(Len(w) - 3)
  OBVIOUS
<1>. QED BY <1>1, <1>2 DEF MarkerAt

(* What was found stays found. *)
LEMMA FoundStays ==
  ASSUME NEW s \in Seq(Char), NEW c \in Seq(Char)
  PROVE  /\ Find(s, Marker) # 0 => Find(s \o c, Marker) = Find(s, Marker)
         /\ Find(s, <<Quote>>) # 0 => Find(s \o c, <<Quote>>) = Find(s, <<Quote>>)
<1>1. PICK w : /\ w = s \o c
               /\ w \in Seq(Char) /\ Len(s) \in Nat /\ Len(w) \in Nat /\ Len(s) <= Len(w)
               /\ \A i \in 1..Len(s) : w[i] = s[i]
  <2>1. /\ s \o c \in Seq(Char) /\ Len(s \o c) = Len(s) + Len(c)
        /\ Len(s) \in Nat /\ Len(c) \in Nat
        /\ \A i \in 1..Len(s) : (s \o c)[i] = s[i]
    OBVIOUS
  <2>2. PICK w : w = s \o c
    OBVIOUS
  <2>3. /\ w \in Seq(Char) /\ Len(s) \in Nat /\ Len(w) \in Nat /\ Len(s) <= Len(w)
        /\ \A i \in 1..Len(s) : w[i] = s[i]
    BY <2>1, <2>2
  <2>. QED BY <2>2, <2>3
<1>2. ASSUME NEW i \in 1..(Len(s) - 3) PROVE MarkerAt(s, i) <=> MarkerAt(w, i)
  <2>1. /\ i \in Nat \ {0} /\ i + 3 <= Len(s) /\ i + 3 <= Len(w)
        /\ \A j \in 0..3 : i + j \in 1..Len(s)
    BY <1>1
  <2>2. \A j \in 0..3 : w[i + j] = s[i + j]
    BY <1>1, <2>1
  <2>. QED BY <1>1, <2>1, <2>2, MarkerMoves
<1>3. \A i : MarkerAt(s, i) => i \in 1..(Len(s) - 3)
  BY DEF MarkerAt
<1>4. ASSUME Find(s, Marker) # 0 PROVE Find(w, Marker) = Find(s, Marker)
  <2>1. /\ MarkerAt(s, Find(s, Marker)) /\ Find(s, Marker) \in Nat
        /\ \A i : MarkerAt(s, i) => Find(s, Marker) <= i
    BY <1>4, FindMarker
  <2>2. /\ MarkerAt(w, Find(w, Marker)) /\ Find(w, Marker) \in Nat
        /\ Find(w, Marker) <= Find(s, Marker)
    BY <1>1, <1>2, <1>3, <2>1, FindMarker
  <2>3. Find(s, Marker) <= Find(w, Marker)
    <3>1. Find(w, Marker) \in 1..(Len(s) - 3)
      BY <1>1, <1>3, <2>1, <2>2 DEF MarkerAt
    <3>. QED BY <1>2, <2>1, <2>2, <3>1
  <2>. QED BY <2>1, <2>2, <2>3
<1>5. ASSUME Find(s, <<Quote>>) # 0 PROVE Find(w, <<Quote>>) = Find(s, <<Quote>>)
  <2>1. PICK q : q = Find(s, <<Quote>>) /\ q \in 1..Len(s) /\ s[q] = Quote
                 /\ \A i \in 1..Len(s) : s[i] = Quote => q <= i
    BY <1>5, FindQuote
  <2>2. q \in 1..Len(w) /\ w[q] = Quote
    BY <1>1, <2>1
  <2>3. PICK r : r = Find(w, <<Quote>>) /\ r \in 1..Len(w) /\ w[r] = Quote /\ r <= q
    BY <1>1, <2>2, FindQuote
  <2>4. q <= r
    BY <1>1, <2>1, <2>3
  <2>. QED BY <2>1, <2>3, <2>4
<1>. QED BY <1>1, <1>4, <1>5

-------------------------------------------------------------------------------
(* Tails of a text. *)

LEMMA FromIs ==
  ASSUME NEW s \in Seq(Char), NEW i \in 1..(Len(s) + 1)
  PROVE  /\ From(s, i) \in Seq(Char) /\ Len(From(s, i)) = Len(s) - i + 1
         /\ \A j \in 1..(Len(s) - i + 1) : From(s, i)[j] = s[i + j - 1]
BY DEF From

LEMMA FromGrows ==
  ASSUME NEW s \in Seq(Char), NEW c \in Seq(Char), NEW i \in 1..(Len(s) + 1)
  PROVE  From(s \o c, i) = From(s, i) \o c
<1>1. PICK a \in Nat, d \in Nat : a = Len(s) /\ d = Len(c)
  OBVIOUS
<1>2. PICK w \in Seq(Char) : /\ w = s \o c /\ Len(w) = a + d
                             /\ \A j \in 1..a : w[j] = s[j]
                             /\ \A j \in 1..d : w[a + j] = c[j]
  <2>1. /\ s \o c \in Seq(Char) /\ Len(s \o c) = Len(s) + Len(c)
        /\ \A j \in 1..(Len(s) + Len(c)) :
             (s \o c)[j] = IF j <= Len(s) THEN s[j] ELSE c[j - Len(s)]
    BY ConcatProperties
  <2>2. \A j \in 1..a : (s \o c)[j] = s[j]
    BY <1>1, <2>1
  <2>3. \A j \in 1..d : (s \o c)[a + j] = c[j]
    <3>1. ASSUME NEW j \in 1..d PROVE (s \o c)[a + j] = c[j]
      <4>1. a + j \in 1..(a + d) /\ ~(a + j <= a) /\ a + j - a = j
        OBVIOUS
      <4>. QED BY <1>1, <2>1, <4>1
    <3>. QED BY <3>1
  <2>. QED BY <1>1, <2>1, <2>2, <2>3
<1>3. i \in 1..(a + 1) /\ i \in 1..(Len(w) + 1)
  BY <1>1, <1>2
<1>4. PICK u \in Seq(Char) : /\ u = From(s, i) /\ Len(u) = a - i + 1
                             /\ \A j \in 1..(a - i + 1) : u[j] = s[i + j - 1]
  BY <1>1, FromIs
<1>5. PICK x \in Seq(Char) : /\ x = From(w, i) /\ Len(x) = a + d - i + 1
                             /\ \A j \in 1..(a + d - i + 1) : x[j] = w[i + j - 1]
  <2>1. /\ From(w, i) \in Seq(Char) /\ Len(From(w, i)) = Len(w) - i + 1
        /\ \A j \in 1..(Len(w) - i + 1) : From(w, i)[j] = w[i + j - 1]
    BY <1>3, FromIs
  <2>2. Len(w) = a + d
    BY <1>2
  <2>. QED BY <2>1, <2>2
<1>6. /\ u \o c \in Seq(Char) /\ Len(u \o c) = a + d - i + 1
      /\ \A j \in 1..(a - i + 1) : (u \o c)[j] = u[j]
      /\ \A j \in (a - i + 2)..(a + d - i + 1) : (u \o c)[j] = c[j - (a - i + 1)]
  <2>1. /\ u \o c \in Seq(Char) /\ Len(u \o c) = Len(u) + Len(c)
        /\ \A j \in 1..(Len(u) + Len(c)) :
             (u \o c)[j] = IF j <= Len(u) THEN u[j] ELSE c[j - Len(u)]
    BY ConcatProperties
  <2>2. PICK y : y = u \o c
    OBVIOUS
  <2>3. PICK n \in Nat : n = Len(u) /\ n = a - i + 1
    BY <1>3, <1>4
  <2>4. /\ y \in Seq(Char) /\ Len(y) = n + d
        /\ \A j \in 1..(n + d) : y[j] = IF j <= n THEN u[j] ELSE c[j - n]
    BY <1>1, <2>1, <2>2, <2>3
  <2>5. ASSUME NEW j \in 1..n PROVE y[j] = u[j]
    <3>1. j \in 1..(n + d) /\ j <= n
      OBVIOUS
    <3>. QED BY <2>4, <3>1
  <2>6. ASSUME NEW j \in (n + 1)..(n + d) PROVE y[j] = c[j - n]
    <3>1. j \in 1..(n + d) /\ ~(j <= n)
      OBVIOUS
    <3>. QED BY <2>4, <3>1
  <2>7. n + d = a + d - i + 1 /\ n + 1 = a - i + 2
    BY <1>3, <2>3
  <2>. QED BY <2>2, <2>3, <2>4, <2>5, <2>6, <2>7
<1>7. ASSUME NEW j \in 1..(a + d - i + 1) PROVE x[j] = (u \o c)[j]
  <2>1. CASE j <= a - i + 1
    <3>1. j \in 1..(a - i + 1) /\ i + j - 1 \in 1..a
      BY <1>3, <2>1
    <3>. QED BY <1>2, <1>4, <1>5, <1>6, <3>1
  <2>2. CASE j > a - i + 1
    <3>1. /\ j \in (a - i + 2)..(a + d - i + 1) /\ j - (a - i + 1) \in 1..d
          /\ i + j - 1 = a + (j - (a - i + 1))
      BY <1>3, <2>2
    <3>2. w[a + (j - (a - i + 1))] = c[j - (a - i + 1)]
      BY <1>2, <3>1
    <3>. QED BY <1>5, <1>6, <3>1, <3>2
  <2>3. j <= a - i + 1 \/ j > a - i + 1
    <3>1. j \in Int /\ a - i + 1 \in Int
      BY <1>3
    <3>. QED BY <3>1
  <2>. QED BY <2>1, <2>2, <2>3
<1>8. x = u \o c
  BY <1>5, <1>6, <1>7, SeqEqual
<1>. QED BY <1>2, <1>4, <1>5, <1>8

LEMMA FromFrom ==
  ASSUME NEW s \in Seq(Char), NEW i \in 1..(Len(s) + 1), NEW j \in 1..(Len(s) - i + 2)
  PROVE  From(From(s, i), j) = From(s, i + j - 1)
<1>1. PICK a \in Nat : a = Len(s)
  OBVIOUS
<1>2. PICK u \in Seq(Char) : /\ u = From(s, i) /\ Len(u) = a - i + 1
                             /\ \A k \in 1..(a - i + 1) : u[k] = s[i + k - 1]
  BY <1>1, FromIs
<1>3. PICK l : l = i + j - 1
  OBVIOUS
<1>4. j \in 1..(Len(u) + 1) /\ l \in 1..(a + 1) /\ i \in Int /\ j \in Int /\ Len(u) \in Int
  BY <1>1, <1>2, <1>3
<1>5. PICK x \in Seq(Char) : /\ x = From(s, l) /\ Len(x) = a - l + 1
                             /\ \A k \in 1..(a - l + 1) : x[k] = s[l + k - 1]
  BY <1>1, <1>4, FromIs
<1>6. PICK y \in Seq(Char) : /\ y = From(u, j) /\ Len(y) = Len(u) - j + 1
                             /\ \A k \in 1..(Len(u) - j + 1) : y[k] = u[j + k - 1]
  BY <1>4, FromIs
<1>7. Len(u) - j + 1 = a - l + 1
  BY <1>2, <1>3, <1>4
<1>8. ASSUME NEW k \in 1..(a - l + 1) PROVE y[k] = x[k]
  <2>1. j + k - 1 \in 1..(a - i + 1) /\ i + (j + k - 1) - 1 = l + k - 1
    BY <1>3, <1>4
  <2>2. y[k] = u[j + k - 1]
    BY <1>6, <1>7
  <2>3. u[j + k - 1] = s[i + (j + k - 1) - 1]
    BY <1>2, <2>1
  <2>. QED BY <1>5, <2>1, <2>2, <2>3
<1>9. y = x
  BY <1>5, <1>6, <1>7, <1>8, SeqEqual
<1>. QED BY <1>2, <1>3, <1>5, <1>6, <1>9

(* The last characters of a text are where it ends. *)
LEMMA LastOfIs ==
  ASSUME NEW s \in Seq(Char), NEW n \in Nat
  PROVE  /\ n < Len(s) => LastOf(s, n) = From(s, Len(s) - n + 1)
         /\ n >= Len(s) => LastOf(s, n) = s
         /\ LastOf(s, n) \in Seq(Char) /\ Len(LastOf(s, n)) <= n
BY DEF LastOf, From

LEMMA FromFirst ==
  ASSUME NEW s \in Seq(Char)
  PROVE  From(s, 1) = s
BY DEF From

(* The end of a text without the marker is enough to find it in what       *)
(* follows, and to go on without it.                                       *)
LEMMA TailSuffices ==
  ASSUME NEW t \in Seq(Char), NEW c \in Seq(Char), Find(t, Marker) = 0
  PROVE  LET b == LastOf(t, 3) \o c
             w == t \o c
         IN /\ b \in Seq(Char)
            /\ Find(b, Marker) = 0 => Find(w, Marker) = 0 /\ LastOf(b, 3) = LastOf(w, 3)
            /\ Find(b, Marker) # 0 =>
                 /\ Find(w, Marker) # 0
                 /\ From(b, Find(b, Marker) + 4) = From(w, Find(w, Marker) + 4)
<1>1. PICK a \in Nat : a = Len(t)
  OBVIOUS
<1>2. PICK d \in Nat : /\ d = IF a <= 3 THEN 0 ELSE a - 3
                       /\ d <= a /\ (d = 0 \/ d + 3 = a)
  <2>1. CASE a <= 3
    BY <2>1
  <2>2. CASE a > 3
    BY <2>2
  <2>. QED BY <2>1, <2>2
<1>3. LastOf(t, 3) = From(t, d + 1)
  <2>1. CASE a <= 3
    BY <1>1, <1>2, <2>1, LastOfIs, FromFirst
  <2>2. CASE a > 3
    <3>1. LastOf(t, 3) = From(t, a - 3 + 1)
      BY <1>1, <2>2, LastOfIs
    <3>. QED BY <1>2, <2>2, <3>1
  <2>. QED BY <2>1, <2>2
<1>4. PICK w \in Seq(Char), n \in Nat : /\ w = t \o c /\ n = Len(w) /\ a <= n
                                        /\ \A i \in 1..a : w[i] = t[i]
  <2>1. /\ t \o c \in Seq(Char) /\ Len(t \o c) = Len(t) + Len(c) /\ Len(c) \in Nat
        /\ \A i \in 1..Len(t) : (t \o c)[i] = t[i]
    OBVIOUS
  <2>2. Len(t \o c) \in Nat /\ a <= Len(t \o c)
    BY <1>1, <2>1
  <2>. QED BY <1>1, <2>1, <2>2
<1>5. d + 1 \in 1..(Len(t) + 1) /\ d + 1 \in 1..(Len(w) + 1)
  BY <1>1, <1>2, <1>4
<1>6. PICK b : b = LastOf(t, 3) \o c
  OBVIOUS
<1>7. b = From(w, d + 1)
  <2>1. From(t \o c, d + 1) = From(t, d + 1) \o c
    BY <1>5, FromGrows
  <2>. QED BY <1>3, <1>4, <1>6, <2>1
<1>8. /\ b \in Seq(Char) /\ Len(b) = n - d
      /\ \A j \in 1..(n - d) : b[j] = w[d + j]
  <2>1. /\ b \in Seq(Char) /\ Len(b) = n - (d + 1) + 1
        /\ \A j \in 1..(n - (d + 1) + 1) : b[j] = w[d + 1 + j - 1]
    BY <1>4, <1>5, <1>7, FromIs
  <2>2. n - (d + 1) + 1 = n - d /\ \A j \in 1..(n - d) : d + 1 + j - 1 = d + j
    OBVIOUS
  <2>. QED BY <2>1, <2>2
<1>9. ASSUME NEW k \in 1..(n - d - 3) PROVE MarkerAt(b, k) <=> MarkerAt(w, d + k)
  <2>1. /\ k \in Nat \ {0} /\ d + k \in Nat \ {0} /\ k + 3 <= n - d /\ d + k + 3 <= n
        /\ n - d \in Nat /\ \A j \in 0..3 : k + j \in 1..(n - d) /\ d + (k + j) = d + k + j
    BY <1>2, <1>4
  <2>2. \A j \in 0..3 : w[d + k + j] = b[k + j]
    BY <1>8, <2>1
  <2>3. Len(b) \in Nat /\ Len(w) \in Nat /\ k + 3 <= Len(b) /\ d + k + 3 <= Len(w)
    BY <1>4, <1>8, <2>1
  <2>4. PICK l \in Nat \ {0} : l = d + k
    BY <2>1
  <2>5. l + 3 <= Len(w) /\ \A j \in 0..3 : w[l + j] = b[k + j]
    BY <2>2, <2>3, <2>4
  <2>. QED BY <2>1, <2>3, <2>4, <2>5, MarkerMoves
<1>10. ASSUME NEW i, MarkerAt(w, i) PROVE i > d /\ i - d \in 1..(n - d - 3)
  <2>1. i \in Nat \ {0} /\ i + 3 <= n
    BY <1>4, <1>10 DEF MarkerAt
  <2>2. ASSUME i <= d PROVE FALSE
    <3>1. d + 3 = a /\ i + 3 <= a /\ \A j \in 0..3 : i + j \in 1..a
      BY <1>2, <2>1, <2>2
    <3>2. \A j \in 0..3 : t[i + j] = w[i + j]
      BY <1>4, <3>1
    <3>3. Len(t) \in Nat /\ Len(w) \in Nat /\ i + 3 <= Len(t) /\ i + 3 <= Len(w)
      BY <1>1, <1>4, <2>1, <3>1
    <3>4. MarkerAt(w, i) <=> MarkerAt(t, i)
      BY <2>1, <3>2, <3>3, MarkerMoves
    <3>. QED BY <1>10, <3>4, FindMarker
  <2>. QED BY <2>1, <2>2
<1>11. \A k : MarkerAt(b, k) => k \in 1..(n - d - 3)
  BY <1>8 DEF MarkerAt
<1>12. ASSUME Find(b, Marker) = 0
       PROVE  Find(w, Marker) = 0 /\ LastOf(b, 3) = LastOf(w, 3)
  <2>1. ASSUME Find(w, Marker) # 0 PROVE FALSE
    <3>1. PICK i \in Nat : MarkerAt(w, i)
      BY <2>1, FindMarker
    <3>2. i - d \in 1..(n - d - 3) /\ d + (i - d) = i
      BY <1>10, <3>1
    <3>3. MarkerAt(b, i - d)
      BY <1>9, <3>1, <3>2
    <3>. QED BY <1>8, <1>12, <3>3, FindMarker
  <2>2. ASSUME n - d > 3 PROVE LastOf(b, 3) = LastOf(w, 3)
    <3>1. 3 < Len(w) /\ 3 < Len(b)
      BY <1>4, <1>8, <2>2
    <3>2. LastOf(w, 3) = From(w, Len(w) - 3 + 1) /\ LastOf(b, 3) = From(b, Len(b) - 3 + 1)
      BY <1>8, <3>1, LastOfIs
    <3>3. n - d - 3 + 1 \in 1..(n - (d + 1) + 2) /\ d + 1 + (n - d - 3 + 1) - 1 = n - 3 + 1
      BY <2>2
    <3>4. From(b, n - d - 3 + 1) = From(w, d + 1 + (n - d - 3 + 1) - 1)
      BY <1>4, <1>5, <1>7, <3>3, FromFrom
    <3>. QED BY <1>4, <1>8, <3>2, <3>3, <3>4
  <2>3. ASSUME n - d <= 3 PROVE LastOf(b, 3) = LastOf(w, 3)
    <3>1. LastOf(b, 3) = b
      <4>1. 3 >= Len(b)
        BY <1>8, <2>3
      <4>. QED BY <1>8, <4>1, LastOfIs
    <3>2. CASE d = 0
      <4>1. b = w
        BY <1>7, <3>2, FromFirst
      <4>. QED BY <3>1, <4>1
    <3>3. CASE d # 0
      <4>1. n - 3 + 1 = d + 1 /\ 3 < n
        BY <1>2, <1>4, <2>3, <3>3
      <4>2. LastOf(w, 3) = From(w, Len(w) - 3 + 1)
        <5>1. 3 < Len(w)
          BY <1>4, <4>1
        <5>. QED BY <5>1, LastOfIs
      <4>. QED BY <1>4, <1>7, <3>1, <4>1, <4>2
    <3>. QED BY <3>2, <3>3
  <2>4. n - d > 3 \/ n - d <= 3
    OBVIOUS
  <2>. QED BY <2>1, <2>2, <2>3, <2>4
<1>13. ASSUME Find(b, Marker) # 0
       PROVE  /\ Find(w, Marker) # 0
              /\ From(b, Find(b, Marker) + 4) = From(w, Find(w, Marker) + 4)
  <2>1. PICK k : /\ k = Find(b, Marker) /\ MarkerAt(b, k)
                 /\ \A j : MarkerAt(b, j) => k <= j
    BY <1>8, <1>13, FindMarker
  <2>2. k \in 1..(n - d - 3) /\ MarkerAt(w, d + k)
    BY <1>9, <1>11, <2>1
  <2>3. PICK m \in Nat : m = Find(w, Marker) /\ m # 0 /\ MarkerAt(w, m) /\ m <= d + k
    BY <2>2, FindMarker
  <2>4. m - d \in 1..(n - d - 3) /\ d + (m - d) = m
    BY <1>10, <2>3
  <2>5. MarkerAt(b, m - d)
    BY <1>9, <2>3, <2>4
  <2>6. k <= m - d
    BY <2>1, <2>5
  <2>7. m = d + k
    BY <2>2, <2>3, <2>6
  <2>8. k + 4 \in 1..(n - (d + 1) + 2) /\ d + 1 + (k + 4) - 1 = m + 4
    BY <2>2, <2>7
  <2>9. From(b, k + 4) = From(w, d + 1 + (k + 4) - 1)
    BY <1>4, <1>5, <1>7, <2>8, FromFrom
  <2>. QED BY <2>1, <2>3, <2>8, <2>9
<1>. QED BY <1>4, <1>6, <1>8, <1>12, <1>13

-------------------------------------------------------------------------------
(* Where the value starts. *)

LEMMA ValueStartIs ==
  ASSUME NEW t \in Seq(Char), Find(t, Marker) # 0
  PROVE  LET mark == Find(t, Marker)
             b == From(t, mark + 4)
             quote == Find(b, <<Quote>>)
         IN /\ mark + 4 \in 1..(Len(t) + 1) /\ b \in Seq(Char)
            /\ quote = 0 => ValueStart(t) = 0
            /\ quote # 0 => /\ ValueStart(t) = mark + 4 + quote
                            /\ ValueStart(t) \in 1..(Len(t) + 1)
                            /\ From(b, quote + 1) = From(t, ValueStart(t))
<1>1. PICK m \in Nat : m = Find(t, Marker) /\ m # 0 /\ MarkerAt(t, m)
  BY FindMarker
<1>2. PICK n \in Nat : n = Len(t)
  OBVIOUS
<1>3. m + 4 \in 1..(n + 1)
  BY <1>1, <1>2 DEF MarkerAt
<1>4. PICK b : b = From(t, m + 4)
  OBVIOUS
<1>5. b \in Seq(Char) /\ Len(b) = n - (m + 4) + 1
  BY <1>2, <1>3, <1>4, FromIs
<1>6. PICK q \in Nat : q = Find(b, <<Quote>>) /\ (q # 0 => q \in 1..Len(b))
  BY <1>5, FindQuote
<1>7. Len(Marker) = 4
  BY DEF Marker
<1>8. ValueStart(t) = IF q = 0 THEN 0 ELSE m + 4 + q
  BY <1>1, <1>4, <1>6, <1>7 DEF ValueStart
<1>9. CASE q = 0
  BY <1>1, <1>2, <1>3, <1>4, <1>5, <1>6, <1>8, <1>9
<1>10. CASE q # 0
  <2>1. /\ q + 1 \in 1..(n - (m + 4) + 2) /\ m + 4 + (q + 1) - 1 = m + 4 + q
        /\ m + 4 + q \in 1..(n + 1)
    BY <1>3, <1>5, <1>6, <1>10
  <2>2. From(b, q + 1) = From(t, m + 4 + (q + 1) - 1)
    BY <1>2, <1>3, <1>4, <2>1, FromFrom
  <2>3. ValueStart(t) = m + 4 + q
    BY <1>8, <1>10
  <2>. QED BY <1>1, <1>2, <1>3, <1>4, <1>5, <1>6, <1>10, <2>1, <2>2, <2>3
<1>. QED BY <1>9, <1>10

(* The value starts where it did when more of the text has arrived. *)
LEMMA ValueStartStays ==
  ASSUME NEW t \in Seq(Char), NEW c \in Seq(Char), ValueStart(t) # 0
  PROVE  /\ ValueStart(t \o c) = ValueStart(t)
         /\ From(t \o c, ValueStart(t)) = From(t, ValueStart(t)) \o c
<1>1. Find(t, Marker) # 0
  BY DEF ValueStart
<1>2. PICK m : m = Find(t, Marker)
  OBVIOUS
<1>3. PICK b : b = From(t, m + 4)
  OBVIOUS
<1>4. PICK q : q = Find(b, <<Quote>>)
  OBVIOUS
<1>5. /\ m + 4 \in 1..(Len(t) + 1) /\ b \in Seq(Char) /\ q # 0
      /\ ValueStart(t) = m + 4 + q /\ ValueStart(t) \in 1..(Len(t) + 1)
  BY <1>1, <1>2, <1>3, <1>4, ValueStartIs
<1>6. PICK w \in Seq(Char) : w = t \o c
  <2>1. t \o c \in Seq(Char)
    OBVIOUS
  <2>. QED BY <2>1
<1>7. Find(w, Marker) = m
  BY <1>1, <1>2, <1>6, FoundStays
<1>8. From(w, m + 4) = b \o c
  BY <1>3, <1>5, <1>6, FromGrows
<1>9. Find(b \o c, <<Quote>>) = q
  BY <1>4, <1>5, FoundStays
<1>10. ValueStart(w) = m + 4 + q
  <2>1. Find(w, Marker) # 0 /\ Find(From(w, Find(w, Marker) + 4), <<Quote>>) # 0
    BY <1>1, <1>2, <1>5, <1>7, <1>8, <1>9
  <2>2. ValueStart(w) = Find(w, Marker) + 4 + Find(From(w, Find(w, Marker) + 4), <<Quote>>)
    BY <2>1, ValueStartIs
  <2>. QED BY <1>7, <1>8, <1>9, <2>2
<1>11. From(t \o c, ValueStart(t)) = From(t, ValueStart(t)) \o c
  BY <1>5, FromGrows
<1>. QED BY <1>5, <1>6, <1>10, <1>11

-------------------------------------------------------------------------------
(* The inductive invariant. *)

(* Before the marker, the buffer is enough to find a marker that has begun. *)
BeforeMarker ==
  state = "SEEKING" => Find(text, Marker) = 0 /\ buf = LastOf(text, 3)

(* Behind the marker, the buffer is what follows it, without a quote so far. *)
BehindMarker ==
  state = "AWAITING_QUOTE" =>
    /\ Find(text, Marker) # 0
    /\ buf = From(text, Find(text, Marker) + 4)
    /\ Find(buf, <<Quote>>) = 0

NothingYet == state \in {"SEEKING", "AWAITING_QUOTE"} => ~escape /\ out = << >>

(* In the value, what has arrived of it has gone through the loop. *)
ValueSoFar ==
  state \in {"IN_VALUE", "DONE"} =>
    /\ ValueStart(text) # 0
    /\ buf = << >>
    /\ IsValueOf([state |-> state, escape |-> escape, out |-> out], From(text, ValueStart(text)))

Inv == TypeOK /\ BeforeMarker /\ BehindMarker /\ NothingYet /\ ValueSoFar

LEMMA InitInv == Init => Inv
<1>. SUFFICES ASSUME Init PROVE Inv
  OBVIOUS
<1>1. text = << >> /\ buf = << >> /\ out = << >> /\ escape = FALSE /\ state = "SEEKING"
  BY DEF Init
<1>2. << >> \in Seq(Char) /\ << >> \in Seq(Char \cup {Newline}) /\ Len(<< >>) = 0
  OBVIOUS
<1>3. Len(Marker) = 4
  BY DEF Marker
<1>4. TypeOK
  <2>1. text \in Seq(Char) /\ buf \in Seq(Char) /\ out \in Seq(Char \cup {Newline})
    BY <1>1, <1>2
  <2>2. Len(buf) < Len(Marker)
    BY <1>1, <1>2, <1>3
  <2>. QED BY <1>1, <2>1, <2>2 DEF TypeOK
<1>5. BeforeMarker
  <2>1. \A i : ~MarkerAt(<< >>, i)
    BY DEF MarkerAt
  <2>2. Find(<< >>, Marker) = 0
    BY <1>2, <2>1, FindMarker
  <2>3. LastOf(<< >>, 3) = << >>
    BY <1>2 DEF LastOf
  <2>. QED BY <1>1, <2>2, <2>3 DEF BeforeMarker
<1>6. BehindMarker /\ NothingYet /\ ValueSoFar
  BY <1>1 DEF BehindMarker, NothingYet, ValueSoFar
<1>. QED BY <1>4, <1>5, <1>6 DEF Inv

(* The loop over b, behind v of the value. *)
LEMMA InValueKeepsInv ==
  ASSUME NEW t \in Seq(Char), text' = t, ValueStart(t) # 0,
         NEW v \in Seq(Char), NEW b \in Seq(Char), From(t, ValueStart(t)) = v \o b,
         IsValueOf([state |-> "IN_VALUE", escape |-> escape, out |-> out], v), InValue(b)
  PROVE  Inv'
<1>1. PICK value : value = AfterChars([state |-> "IN_VALUE", escape |-> escape, out |-> out], b)
  OBVIOUS
<1>2. IsValueOf(value, v \o b)
  BY <1>1, LoopGoesOn
<1>3. state' = value.state /\ escape' = value.escape /\ out' = value.out /\ buf' = << >>
  BY <1>1 DEF InValue
<1>4. value \in Value
  BY <1>2 DEF IsValueOf
<1>5. /\ state' \in {"IN_VALUE", "DONE"} /\ escape' \in BOOLEAN
      /\ out' \in Seq(Char \cup {Newline})
      /\ value = [state |-> state', escape |-> escape', out |-> out']
  BY <1>3, <1>4 DEF Value
<1>6. << >> \in Seq(Char)
  OBVIOUS
<1>7. TypeOK'
  BY <1>3, <1>5, <1>6 DEF TypeOK
<1>8. ValueSoFar'
  BY <1>2, <1>3, <1>5 DEF ValueSoFar
<1>9. BeforeMarker' /\ BehindMarker' /\ NothingYet'
  BY <1>5 DEF BeforeMarker, BehindMarker, NothingYet
<1>. QED BY <1>7, <1>8, <1>9 DEF Inv

(* The search for the quote in what follows the marker. *)
LEMMA AwaitingQuoteKeepsInv ==
  ASSUME NEW t \in Seq(Char), text' = t, Find(t, Marker) # 0,
         ~escape, escape \in BOOLEAN, out = << >>,
         NEW b, b = From(t, Find(t, Marker) + 4), AwaitingQuote(b)
  PROVE  Inv'
<1>1. b \in Seq(Char)
  BY ValueStartIs
<1>2. CASE Find(b, <<Quote>>) = 0
  <2>1. state' = "AWAITING_QUOTE" /\ buf' = b /\ escape' = escape /\ out' = out
    BY <1>2 DEF AwaitingQuote
  <2>2. << >> \in Seq(Char \cup {Newline})
    OBVIOUS
  <2>3. TypeOK'
    BY <1>1, <2>1, <2>2 DEF TypeOK
  <2>4. BeforeMarker' /\ NothingYet' /\ ValueSoFar'
    BY <2>1 DEF BeforeMarker, NothingYet, ValueSoFar
  <2>5. BehindMarker'
    BY <1>2, <2>1 DEF BehindMarker
  <2>. QED BY <2>3, <2>4, <2>5 DEF Inv
<1>3. CASE Find(b, <<Quote>>) # 0
  <2>1. PICK q : q = Find(b, <<Quote>>)
    OBVIOUS
  <2>2. InValue(From(b, q + 1))
    BY <1>3, <2>1 DEF AwaitingQuote
  <2>3. /\ ValueStart(t) \in 1..(Len(t) + 1)
        /\ From(b, q + 1) = From(t, ValueStart(t))
    BY <1>3, <2>1, ValueStartIs
  <2>4. PICK c \in Seq(Char) : c = From(b, q + 1)
    BY <2>3, FromIs
  <2>5. << >> \in Seq(Char) /\ << >> \o c = c
    OBVIOUS
  <2>6. IsValueOf([state |-> "IN_VALUE", escape |-> escape, out |-> out], << >>)
    <3>1. escape = FALSE
      OBVIOUS
    <3>. QED BY <3>1, EmptyValue
  <2>7. ValueStart(t) # 0
    BY <2>3
  <2>. QED BY <2>2, <2>3, <2>4, <2>5, <2>6, <2>7, InValueKeepsInv
<1>. QED BY <1>2, <1>3

LEMMA FeedKeepsInv ==
  ASSUME Inv, NEW chunk \in Seq(Char), feed(chunk)
  PROVE  Inv'
<1>1. /\ text \in Seq(Char) /\ buf \in Seq(Char) /\ out \in Seq(Char \cup {Newline})
      /\ state \in {"SEEKING", "AWAITING_QUOTE", "IN_VALUE", "DONE"} /\ escape \in BOOLEAN
  BY DEF Inv, TypeOK
<1>2. PICK t \in Seq(Char) : t = text \o chunk
  <2>1. text \o chunk \in Seq(Char)
    BY <1>1
  <2>. QED BY <2>1
<1>3. text' = t
  BY <1>2 DEF feed
<1>4. Len(Marker) = 4
  BY DEF Marker
<1>5. CASE state = "SEEKING"
  <2>1. /\ Find(text, Marker) = 0 /\ buf = LastOf(text, 3) /\ escape = FALSE /\ out = << >>
        /\ Seeking(buf \o chunk)
    BY <1>1, <1>5 DEF Inv, BeforeMarker, NothingYet, feed
  <2>2. PICK b : b = LastOf(text, 3) \o chunk
    OBVIOUS
  <2>3. /\ b \in Seq(Char)
        /\ Find(b, Marker) = 0 => Find(t, Marker) = 0 /\ LastOf(b, 3) = LastOf(t, 3)
        /\ Find(b, Marker) # 0 =>
             /\ Find(t, Marker) # 0
             /\ From(b, Find(b, Marker) + 4) = From(t, Find(t, Marker) + 4)
    BY <1>1, <1>2, <2>1, <2>2, TailSuffices
  <2>4. CASE Find(b, Marker) = 0
    <3>1. buf' = LastOf(b, 3) /\ state' = state /\ escape' = escape /\ out' = out
      BY <1>4, <2>1, <2>2, <2>4 DEF Seeking
    <3>2. LastOf(b, 3) \in Seq(Char) /\ Len(LastOf(b, 3)) <= 3 /\ Len(LastOf(b, 3)) \in Nat
      BY <2>3, LastOfIs
    <3>3. TypeOK'
      BY <1>1, <1>3, <1>4, <3>1, <3>2 DEF TypeOK
    <3>4. BeforeMarker'
      BY <1>3, <2>3, <2>4, <3>1 DEF BeforeMarker
    <3>5. BehindMarker' /\ NothingYet' /\ ValueSoFar'
      BY <1>5, <2>1, <3>1 DEF BehindMarker, NothingYet, ValueSoFar
    <3>. QED BY <3>3, <3>4, <3>5 DEF Inv
  <2>5. CASE Find(b, Marker) # 0
    <3>1. AwaitingQuote(From(b, Find(b, Marker) + 4))
      BY <1>4, <2>1, <2>2, <2>5 DEF Seeking
    <3>. QED BY <1>3, <2>1, <2>3, <2>5, <3>1, AwaitingQuoteKeepsInv
  <2>. QED BY <2>4, <2>5
<1>6. CASE state = "AWAITING_QUOTE"
  <2>1. /\ Find(text, Marker) # 0 /\ buf = From(text, Find(text, Marker) + 4)
        /\ escape = FALSE /\ out = << >> /\ AwaitingQuote(buf \o chunk)
    BY <1>1, <1>6 DEF Inv, BehindMarker, NothingYet, feed
  <2>2. Find(t, Marker) = Find(text, Marker)
    BY <1>1, <1>2, <2>1, FoundStays
  <2>3. Find(text, Marker) + 4 \in 1..(Len(text) + 1)
    BY <1>1, <2>1, ValueStartIs
  <2>4. From(t, Find(text, Marker) + 4) = buf \o chunk
    BY <1>1, <1>2, <2>1, <2>3, FromGrows
  <2>. QED BY <1>3, <2>1, <2>2, <2>4, AwaitingQuoteKeepsInv
<1>7. ASSUME state \in {"IN_VALUE", "DONE"}
      PROVE  /\ ValueStart(t) # 0 /\ buf = << >>
             /\ From(text, ValueStart(text)) \in Seq(Char)
             /\ From(t, ValueStart(t)) = From(text, ValueStart(text)) \o chunk
             /\ IsValueOf([state |-> state, escape |-> escape, out |-> out],
                          From(text, ValueStart(text)))
  <2>1. /\ ValueStart(text) # 0 /\ buf = << >>
        /\ IsValueOf([state |-> state, escape |-> escape, out |-> out],
                     From(text, ValueStart(text)))
    BY <1>7 DEF Inv, ValueSoFar
  <2>2. Find(text, Marker) # 0
    BY <2>1 DEF ValueStart
  <2>3. ValueStart(text) \in 1..(Len(text) + 1)
    BY <1>1, <2>1, <2>2, ValueStartIs
  <2>4. From(text, ValueStart(text)) \in Seq(Char)
    BY <1>1, <2>3, FromIs
  <2>5. /\ ValueStart(t) = ValueStart(text)
        /\ From(t, ValueStart(text)) = From(text, ValueStart(text)) \o chunk
    BY <1>1, <1>2, <2>1, ValueStartStays
  <2>. QED BY <2>1, <2>4, <2>5
<1>8. CASE state = "IN_VALUE"
  <2>1. InValue(buf \o chunk)
    BY <1>8 DEF feed
  <2>2. buf \o chunk = chunk
    BY <1>7, <1>8
  <2>3. IsValueOf([state |-> "IN_VALUE", escape |-> escape, out |-> out],
                  From(text, ValueStart(text)))
    BY <1>7, <1>8
  <2>. QED BY <1>3, <1>7, <1>8, <2>1, <2>2, <2>3, InValueKeepsInv
<1>9. CASE state = "DONE"
  <2>1. state' = state /\ buf' = buf /\ escape' = escape /\ out' = out
    BY <1>9 DEF feed
  <2>2. PICK value : value = [state |-> state, escape |-> escape, out |-> out]
    OBVIOUS
  <2>3. PICK v \in Seq(Char) : v = From(text, ValueStart(text)) /\ IsValueOf(value, v)
    BY <1>7, <1>9, <2>2
  <2>4. IsValueOf(value, v \o chunk)
    <3>1. IsValueOf(AfterChars(value, chunk), v \o chunk) /\ AfterChars(value, chunk) = value
      BY <1>9, <2>2, <2>3, LoopGoesOn
    <3>. QED BY <3>1
  <2>5. ValueSoFar'
    BY <1>3, <1>7, <1>9, <2>1, <2>2, <2>3, <2>4 DEF ValueSoFar
  <2>6. TypeOK'
    BY <1>1, <1>3, <1>9, <2>1 DEF TypeOK
  <2>7. BeforeMarker' /\ BehindMarker' /\ NothingYet'
    BY <1>9, <2>1 DEF BeforeMarker, BehindMarker, NothingYet
  <2>. QED BY <2>5, <2>6, <2>7 DEF Inv
<1>. QED BY <1>1, <1>5, <1>6, <1>8, <1>9

LEMMA NextKeepsInv == Inv /\ [Next]_vars => Inv'
<1>. SUFFICES ASSUME Inv, [Next]_vars PROVE Inv'
  OBVIOUS
<1>1. ASSUME NEW n \in 1..MaxChunk, NEW chunk \in [1..n -> Char], feed(chunk) PROVE Inv'
  <2>1. n \in Nat
    OBVIOUS
  <2>2. chunk \in Seq(Char)
    BY <2>1
  <2>. QED BY <1>1, <2>2, FeedKeepsInv
<1>2. CASE UNCHANGED vars
  BY <1>2 DEF vars, Inv, TypeOK, BeforeMarker, BehindMarker, NothingYet, ValueSoFar
<1>. QED BY <1>1, <1>2 DEF Next

LEMMA SpecInv == Spec => []Inv
BY InitInv, NextKeepsInv, PTL DEF Spec

-------------------------------------------------------------------------------
(* The variables keep their types, and the buffer of an extractor that has *)
(* not found the marker stays shorter than the marker (query.py:58-79).    *)
THEOREM TypeCorrect == Spec => []TypeOK
<1>1. Inv => TypeOK
  BY DEF Inv
<1>. QED BY <1>1, SpecInv, PTL

LEMMA InvShows == Inv => ChunkingIsInvisible
<1>. SUFFICES ASSUME Inv PROVE ChunkingIsInvisible
  OBVIOUS
<1>1. PICK v : v = ValueText(text)
  OBVIOUS
<1>2. Follows(out, v) /\ (state = "DONE" <=> ClosingQuotes(v) # {})
  <2>1. CASE state \in {"SEEKING", "AWAITING_QUOTE"}
    <3>1. ValueStart(text) = 0
      <4>1. CASE state = "SEEKING"
        BY <4>1 DEF Inv, BeforeMarker, ValueStart
      <4>2. CASE state = "AWAITING_QUOTE"
        BY <4>2, ValueStartIs DEF Inv, TypeOK, BehindMarker
      <4>. QED BY <2>1, <4>1, <4>2
    <3>2. v = << >> /\ out = << >>
      BY <1>1, <2>1, <3>1 DEF ValueText, Inv, NothingYet
    <3>3. Follows(<< >>, << >>) /\ ClosingQuotes(<< >>) = {}
      BY EmptyValue DEF IsValueOf
    <3>. QED BY <2>1, <3>2, <3>3
  <2>2. CASE state \in {"IN_VALUE", "DONE"}
    <3>1. v = From(text, ValueStart(text))
      BY <1>1, <2>2 DEF ValueText, Inv, ValueSoFar
    <3>2. IsValueOf([state |-> state, escape |-> escape, out |-> out], v)
      BY <2>2, <3>1 DEF Inv, ValueSoFar
    <3>. QED BY <3>2 DEF IsValueOf
  <2>. QED BY <2>1, <2>2 DEF Inv, TypeOK
<1>. QED BY <1>1, <1>2 DEF ChunkingIsInvisible, Follows

(* However the text is cut into chunks, what has been streamed is the      *)
(* decoded value as far as it has arrived (query.py:58-110).               *)
THEOREM ChunksDoNotMatter == Spec => []ChunkingIsInvisible
BY SpecInv, InvShows, PTL

===============================================================================
