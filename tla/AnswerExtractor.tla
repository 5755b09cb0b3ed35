--------------------------- MODULE AnswerExtractor ----------------------------
(***************************************************************************)
(* _JsonAnswerExtractor (api/routers/query.py): pulls the text of the      *)
(* "answer" value out of a JSON object that arrives in chunks of any size, *)
(* character by character, compared with what one look at the whole text   *)
(* would extract.                                                          *)
(*                                                                         *)
(* Characters are a small alphabet: quote, colon, backslash, the letter n  *)
(* (a newline when escaped, as t and r are their controls), and key, which *)
(* stands for the six letters of the marker and for any other letter.      *)
(***************************************************************************)
EXTENDS Integers, Sequences, SequencesExt

CONSTANTS MaxLength,   \* bound on the text fed
          MaxChunk     \* bound on one chunk

ASSUME LengthAssumption == MaxLength \in Nat /\ MaxChunk \in Nat \ {0}

Quote == "quote"
Colon == "colon"
Backslash == "backslash"
Letter == "n"
Key == "key"
Newline == "newline"

Char == {Quote, Colon, Backslash, Letter, Key}

Marker == <<Quote, Key, Quote, Colon>>

Unescaped(char) == IF char = Letter THEN Newline ELSE char

VARIABLES text,      \* everything fed so far
          state,     \* _state
          buf,       \* _buf
          escape,    \* _escape_next
          out        \* everything feed has returned, joined

vars == <<text, state, buf, escape, out>>

Init ==
  /\ text = << >>
  /\ state = "SEEKING"
  /\ buf = << >>
  /\ escape = FALSE
  /\ out = << >>

(* str.find: where a non-empty t first starts in s, or 0. *)
Find(s, t) ==
  LET starts == {i \in 1..(Len(s) - Len(t) + 1) : SubSeq(s, i, i + Len(t) - 1) = t}
  IN IF starts = {} THEN 0 ELSE Min(starts)

(* Mutants: the buffer is kept whole; its tail is one short. *)
LastAll(s, n) == s
LastButOne(s, n) == IF Len(s) < n THEN s ELSE SubSeq(s, Len(s) - n + 2, Len(s))

(* s[-n:] *)
LastOf(s, n) == IF Len(s) <= n THEN s ELSE SubSeq(s, Len(s) - n + 1, Len(s))

From(s, i) == SubSeq(s, i, Len(s))

(* One turn of the loop over the characters of the value (l. 86-106). *)
Emit(value, char) ==
  CASE value.state = "DONE" -> value
    [] value.state # "DONE" /\ value.escape ->
         [value EXCEPT !.out = Append(@, Unescaped(char)), !.escape = FALSE]
    [] value.state # "DONE" /\ ~value.escape /\ char = Backslash ->
         [value EXCEPT !.escape = TRUE]
    [] value.state # "DONE" /\ ~value.escape /\ char = Quote ->
         [value EXCEPT !.state = "DONE"]
    [] OTHER -> [value EXCEPT !.out = Append(@, char)]

(* The value after the loop over the characters of b. *)
AfterChars(value, b) ==
  LET after[n \in 0..Len(b)] == IF n = 0 THEN value ELSE Emit(after[n - 1], b[n])
  IN after[Len(b)]

(* The three stages of feed, each of which falls through to the next with  *)
(* what is left of the buffer.                                             *)
InValue(b) ==
  LET value == AfterChars([state |-> "IN_VALUE", escape |-> escape, out |-> out], b)
  IN /\ state' = value.state
     /\ escape' = value.escape
     /\ out' = value.out
     /\ buf' = << >>

AwaitingQuote(b) ==
  LET quote == Find(b, <<Quote>>) IN
  IF quote = 0
  THEN /\ state' = "AWAITING_QUOTE"
       /\ buf' = b
       /\ UNCHANGED <<escape, out>>
  ELSE InValue(From(b, quote + 1))

Seeking(b) ==
  LET mark == Find(b, Marker) IN
  IF mark = 0
  THEN /\ buf' = LastOf(b, Len(Marker) - 1)   \* the marker may span chunks
       /\ UNCHANGED <<state, escape, out>>
  ELSE AwaitingQuote(From(b, mark + Len(Marker)))

feed(chunk) ==
  /\ text' = text \o chunk
  /\ CASE state = "DONE"           -> UNCHANGED <<state, buf, escape, out>>
       [] state = "SEEKING"        -> Seeking(buf \o chunk)
       [] state = "AWAITING_QUOTE" -> AwaitingQuote(buf \o chunk)
       [] state = "IN_VALUE"       -> InValue(buf \o chunk)

Next ==
  \E n \in 1..MaxChunk :
    /\ Len(text) + n <= MaxLength
    /\ \E chunk \in [1..n -> Char] : feed(chunk)

Spec == Init /\ [][Next]_vars

TypeOK ==
  /\ text \in Seq(Char) /\ buf \in Seq(Char)
  /\ out \in Seq(Char \cup {Newline})
  /\ state \in {"SEEKING", "AWAITING_QUOTE", "IN_VALUE", "DONE"}
  /\ escape \in BOOLEAN
  /\ state = "SEEKING" => Len(buf) < Len(Marker)

-------------------------------------------------------------------------------
(* The reference: the value of a text seen whole. *)

(* Where the value starts: after the first quote after the first marker. *)
ValueStart(t) ==
  LET mark == Find(t, Marker)
      quote == IF mark = 0 THEN 0 ELSE Find(From(t, mark + Len(Marker)), <<Quote>>)
  IN IF quote = 0 THEN 0 ELSE mark + Len(Marker) + quote

(* What has arrived of the value, and of what follows it. *)
ValueText(t) == IF ValueStart(t) = 0 THEN << >> ELSE From(t, ValueStart(t))

(* The positions of the backslashes that escape the next position: those   *)
(* at the odd places of a run of backslashes.                              *)
Escapes(v) ==
  {i \in 1..Len(v) : \E k \in 0..(i - 1) :
     /\ \A j \in (k + 1)..i : v[j] = Backslash
     /\ k > 0 => v[k] # Backslash
     /\ (i - k) % 2 = 1}

ClosingQuotes(v) == {i \in 1..Len(v) : v[i] = Quote /\ i - 1 \notin Escapes(v)}

(* The positions that stand for a character of the answer. *)
Shown(v) == {i \in 1..Len(v) : i \notin Escapes(v) /\ \A c \in ClosingQuotes(v) : i < c}

Decoded(v, i) == IF i - 1 \in Escapes(v) THEN Unescaped(v[i]) ELSE v[i]

(* However the text is cut into chunks, what has been streamed is the      *)
(* decoded value as far as it has arrived: a marker, an escape or the      *)
(* value itself may span chunks, and nothing before or after it leaks      *)
(* (query.py:58-110).                                                      *)
ChunkingIsInvisible ==
  LET v == ValueText(text)
  IN /\ Len(out) = Cardinality(Shown(v))
     /\ \A i \in Shown(v) : out[Cardinality({j \in Shown(v) : j <= i})] = Decoded(v, i)
     /\ state = "DONE" <=> ClosingQuotes(v) # {}

===============================================================================
