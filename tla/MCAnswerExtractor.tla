-------------------------- MODULE MCAnswerExtractor ---------------------------
(* Every text up to MaxLength in every division into chunks: long enough   *)
(* for the marker, the quote, an escape across a chunk boundary and the    *)
(* closing quote.                                                          *)
EXTENDS AnswerExtractor
===============================================================================
