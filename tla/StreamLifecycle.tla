--------------------------- MODULE StreamLifecycle ----------------------------
(***************************************************************************)
(* The life of one POST /query, seen from outside: opened, then answered   *)
(* or failed, an answered request goes on to be saved, and the client or   *)
(* the process may cut it off at any time before that.  QueryStream shows  *)
(* how the graph and the generator produce this life, QueryService runs    *)
(* many of them against the session store.                                 *)
(***************************************************************************)

VARIABLE phase

Phases == {"idle", "streaming", "answered", "saved", "failed", "cut"}

Init == phase = "idle"

Open == phase = "idle" /\ phase' = "streaming"

(* The done event or the error event is sent. *)
End == phase = "streaming" /\ phase' \in {"answered", "failed"}

Save == phase = "answered" /\ phase' = "saved"

Cut == phase \in {"streaming", "answered"} /\ phase' = "cut"

Next == Open \/ End \/ Save \/ Cut

Spec == Init /\ [][Next]_phase

Fairness == WF_phase(End) /\ WF_phase(Save)

FairSpec == Spec /\ Fairness

===============================================================================
