------------------------------- MODULE Chunker --------------------------------
(***************************************************************************)
(* OverlappingWindowChunker.chunk_document (pipeline/chunking/strategy.py),*)
(* one action per turn of its loop.  A document is a sequence of blanks,   *)
(* full stops and other characters: all the code distinguishes.  Positions *)
(* are 0-based and half-open, as in Python slices, so content[lo:hi] is    *)
(* SubSeq(content, lo + 1, hi).                                            *)
(*                                                                         *)
(* A chunk keeps the spans of the document its text was copied from, in    *)
(* the order they were joined, its index and its length in characters; the *)
(* document's metadata are copied unchanged.                               *)
(***************************************************************************)
EXTENDS Integers, Sequences

CONSTANTS Documents,   \* the contents that may be submitted
          TARGET,      \* target_chars
          OVERLAP,     \* overlap_chars
          MIN          \* min_chars

Char == {"letter", "stop", "blank"}

ASSUME DocumentsAssumption == Documents \subseteq Seq(Char)
(* 512 * 4 = 2048, int(2048 * 0.10) = 204, 100 * 4 = 400.                   *)
ASSUME SizesAssumption ==
  /\ TARGET \in Nat /\ OVERLAP \in Nat /\ MIN \in Nat
  /\ OVERLAP < MIN /\ MIN < TARGET

VARIABLES content, start, chunks, index, returned

vars == <<content, start, chunks, index, returned>>

N == Len(content)

(* Positions of content[lo:hi] that strip keeps away from the ends. *)
Solid(lo, hi) == {i \in lo..(hi - 1) : content[i + 1] # "blank"}

Init ==
  /\ content \in Documents
  /\ start = 0
  /\ chunks = << >>
  /\ index = 0
  /\ returned = (Solid(0, N) = {})   \* not content.strip(): return []

(* Mutant: a sentence end is taken however near the start it is. *)
AllBoundaries(lo, hi) ==
  {b \in lo..(hi - 2) : content[b + 1] = "stop" /\ content[b + 2] = "blank"}

(* Sentence ends ". " within the window that rfind may choose: the last of *)
(* them is taken if it lies far enough from the window's start.            *)
Boundaries(lo, hi) ==
  {b \in lo..(hi - 2) : /\ content[b + 1] = "stop" /\ content[b + 2] = "blank"
                        /\ b > lo + MIN}

WindowLimit == IF start + TARGET < N THEN start + TARGET ELSE N

(* Mutant: rfind's -1 is not told apart from a position. *)
WindowEndUnchecked ==
  IF WindowLimit < N
  THEN IF Boundaries(start, WindowLimit) = {} THEN 0
       ELSE 1 + CHOOSE b \in Boundaries(start, WindowLimit) :
                  \A c \in Boundaries(start, WindowLimit) : c <= b
  ELSE WindowLimit

WindowEnd ==
  IF WindowLimit < N /\ Boundaries(start, WindowLimit) # {}
  THEN 1 + CHOOSE b \in Boundaries(start, WindowLimit) :
             \A c \in Boundaries(start, WindowLimit) : c <= b
  ELSE WindowLimit

(* strip(): the span from the first to the last solid position. *)
Strip(lo, hi) ==
  IF Solid(lo, hi) = {} THEN [lo |-> lo, hi |-> lo]
  ELSE [lo |-> CHOOSE i \in Solid(lo, hi) : \A j \in Solid(lo, hi) : i <= j,
        hi |-> 1 + CHOOSE i \in Solid(lo, hi) : \A j \in Solid(lo, hi) : j <= i]

Length(span) == span.hi - span.lo

(* Mutant: only blank texts are merged. *)
ShortIfBlank(span) == Length(span) = 0

Short(span) == Length(span) < MIN

(* Mutant: a short text is dropped. *)
MergeNothing(span) == UNCHANGED <<chunks, index>>

(* Too short a text is joined to the previous chunk with a space between;  *)
(* a blank one without a previous chunk is dropped.                        *)
Merge(span) ==
  /\ chunks' = [chunks EXCEPT ![Len(chunks)] =
                  [spans |-> Append(@.spans, span), chunk_index |-> @.chunk_index,
                   char_count |-> @.char_count + 1 + Length(span)]]
  /\ UNCHANGED index

Add(span) ==
  /\ chunks' = Append(chunks, [spans |-> <<span>>, chunk_index |-> index,
                               char_count |-> Length(span)])
  /\ index' = index + 1

Emit(span) ==
  \/ Short(span) /\ chunks # << >> /\ Merge(span)
  \/ ~(Short(span) /\ chunks # << >>) /\ Length(span) > 0 /\ Add(span)
  \/ Length(span) = 0 /\ chunks = << >> /\ UNCHANGED <<chunks, index>>

(* Mutant: the windows overlap by the minimum length. *)
NextStartByMin == WindowEnd - MIN

NextStart == WindowEnd - OVERLAP

(* Mutant: a blank text is skipped by a continue, before the loop advances. *)
window_continues ==
  /\ ~returned
  /\ Emit(Strip(start, WindowEnd))
  /\ returned' = (WindowEnd >= N)
  /\ start' = IF WindowEnd >= N \/ (chunks = << >> /\ Length(Strip(start, WindowEnd)) = 0)
              THEN start ELSE NextStart
  /\ UNCHANGED content

(* One turn of the loop. *)
window ==
  /\ ~returned
  /\ Emit(Strip(start, WindowEnd))
  /\ IF WindowEnd >= N
     THEN returned' = TRUE /\ UNCHANGED start             \* break
     ELSE start' = NextStart /\ returned' = (start' >= N)  \* while start < len(content)
  /\ UNCHANGED content

Next == window

Spec == Init /\ [][Next]_vars

FairSpec == Spec /\ WF_vars(window)

-------------------------------------------------------------------------------
TypeOK ==
  /\ content \in Seq(Char)
  /\ start \in 0..N
  /\ index = Len(chunks) /\ \A c \in DOMAIN chunks : chunks[c].chunk_index = c - 1
  /\ returned \in BOOLEAN
  /\ chunks \in Seq([spans : Seq([lo : Nat, hi : Nat]), chunk_index : Nat, char_count : Nat])

In(i, chunk) == \E k \in DOMAIN chunk.spans : chunk.spans[k].lo <= i /\ i < chunk.spans[k].hi

(* Nothing of the document is lost: every solid character is in a chunk    *)
(* when the chunker returns, however windows were cut, stripped and merged *)
(* (strategy.py:76-121).                                                   *)
NothingIsLost ==
  returned => \A i \in Solid(0, N) : \E c \in DOMAIN chunks : In(i, chunks[c])

(* Taken in their order, the texts of the chunks go forward through the   *)
(* document, and no more than OVERLAP characters of it are repeated from   *)
(* one to the next, nor inside a merged chunk (strategy.py:85-101, 121).   *)
OnlyOverlapIsRepeated ==
  LET Followed(a, b) == a.lo <= b.lo /\ a.hi - OVERLAP <= b.lo
      Spans(c) == chunks[c].spans
  IN \A c \in DOMAIN chunks :
       /\ \A k \in 2..Len(Spans(c)) : Followed(Spans(c)[k - 1], Spans(c)[k])
       /\ c > 1 => Followed(Spans(c - 1)[Len(Spans(c - 1))], Head(Spans(c)))

(* Only the first chunk may be shorter than MIN, and a chunk is longer     *)
(* than TARGET only by the windows merged into it, of less than MIN and a  *)
(* space each.  That is all: the maximum of strategy.py:37 is no bound     *)
(* (strategy.py:38, 87-101).                                               *)
LengthsAreBounded ==
  \A c \in DOMAIN chunks :
    /\ c > 1 => chunks[c].char_count >= MIN
    /\ chunks[c].char_count <= TARGET + MIN * (Len(chunks[c].spans) - 1)

(* Each window starts after the one before and no further than its end, so *)
(* windows neither repeat for ever nor leave a gap (strategy.py:79-83,     *)
(* 119-121).                                                               *)
WindowsAdvanceAndOverlap ==
  [][~returned' => start < start' /\ start' <= WindowEnd]_vars

(* chunk_document returns for every document. *)
Returns == <>returned

===============================================================================
