---------------------------- MODULE SessionMemory -----------------------------
(***************************************************************************)
(* What the session store promises, without a dict, a clock or a purge:    *)
(* each session remembers one exchange, the last one given to it, until it *)
(* has been left alone for more than TTL ticks or is cleared.  Reading it  *)
(* counts as use.  InMemorySessionStore expires lazily; nobody who only    *)
(* calls its methods can tell (SessionStore!Refinement).                   *)
(***************************************************************************)
EXTENDS Integers

CONSTANTS SessionId, Context, NoContext, TTL

VARIABLES memory,   \* session -> the exchange it remembers, or NoContext
          idle,     \* session -> ticks since it was last used
          reply     \* the result of the last read

vars == <<memory, idle, reply>>

Init ==
  /\ memory = [s \in SessionId |-> NoContext]
  /\ idle = [s \in SessionId |-> 0]
  /\ reply = NoContext

Remember(s, c) ==
  /\ memory' = [memory EXCEPT ![s] = c]
  /\ idle' = [idle EXCEPT ![s] = 0]
  /\ UNCHANGED reply

Recall(s) ==
  /\ reply' = memory[s]
  /\ idle' = [idle EXCEPT ![s] = 0]
  /\ UNCHANGED memory

Forget(s) ==
  /\ memory' = [memory EXCEPT ![s] = NoContext]
  /\ idle' = [idle EXCEPT ![s] = 0]
  /\ UNCHANGED reply

(* A tick ages every remembered session and drops those that are too old. *)
Age ==
  LET Kept == {s \in SessionId : memory[s] # NoContext /\ idle[s] < TTL}
  IN /\ memory' = [s \in SessionId |-> IF s \in Kept THEN memory[s] ELSE NoContext]
     /\ idle' = [s \in SessionId |-> IF s \in Kept THEN idle[s] + 1 ELSE 0]
     /\ UNCHANGED reply

Next ==
  \/ \E s \in SessionId : Recall(s) \/ Forget(s) \/ \E c \in Context : Remember(s, c)
  \/ Age

Spec == Init /\ [][Next]_vars

===============================================================================
