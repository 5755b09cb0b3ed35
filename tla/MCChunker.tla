------------------------------ MODULE MCChunker -------------------------------
EXTENDS Chunker

(* Every document of up to eight characters, and every one of up to seven  *)
(* pairs that are a word, a sentence end, space or a word's start, against *)
(* windows of five: up to four windows, two merges in a row among them.    *)
Pair == {<<"letter", "letter">>, <<"stop", "blank">>, <<"blank", "blank">>,
         <<"blank", "letter">>}

Joined(pairs) == [i \in 1..2 * Len(pairs) |-> pairs[(i + 1) \div 2][2 - (i % 2)]]

MCDocuments ==
  UNION {[1..n -> Char] : n \in 0..8} \cup {Joined(p) : p \in UNION {[1..n -> Pair] : n \in 0..7}}

===============================================================================
