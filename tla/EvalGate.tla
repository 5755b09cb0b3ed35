------------------------------- MODULE EvalGate -------------------------------
(***************************************************************************)
(* The offline evaluation (eval/run_eval.py) and the gate that follows it  *)
(* (scripts/check_eval_thresholds.py, ci.yml).  Each run asks all          *)
(* questions at a time and writes one file of eval/results.  CI has one    *)
(* run in its checkout; in a developer's directory runs may overlap.  A    *)
(* run may be killed.                                                      *)
(*                                                                         *)
(* The directory is the sequence of its files, oldest modification first.  *)
(* Latencies are in steps of a scale that has the gate's limit on it,      *)
(* rates in thousandths, as they are rounded in the file.                  *)
(***************************************************************************)
EXTENDS Integers, Sequences, FiniteSets, SequencesExt

CONSTANTS Question,
          RefusalExpected,   \* questions with refusal_expected
          Run,               \* invocations of run_eval.py, each followed by the gate
          Committed,         \* whoever produced the results in the repository
          NCommitted,        \* how many results files the repository has
          Latency,           \* the latencies a question may have
          MAX_INCORRECT,     \* --max-incorrect-refusal, in thousandths
          MAX_P95,           \* --max-p95-latency
          MaxClock           \* bound on the clock, in seconds

ASSUME QuestionsAssumption ==
  IsFiniteSet(Question) /\ Question # {} /\ RefusalExpected \subseteq Question
ASSUME CommittedAssumption == Committed \notin Run
ASSUME LimitsAssumption ==
  /\ Latency \subseteq Nat /\ MAX_P95 \in Latency
  /\ MAX_INCORRECT \in Nat
  /\ MaxClock \in Nat /\ NCommitted \in Nat /\ NCommitted < MaxClock

VARIABLES clock,   \* datetime.now(UTC), to the second
          runs,    \* run -> where it is, its run_id, results and the gate's verdict
          files    \* eval/results, oldest modification first

vars == <<clock, runs, files>>

Outcome == {"answered", "refused", "raised"}
EvalResult == [outcome : Outcome, latency_ms : Latency]

Pending == << >>      \* a question that is still being asked
Partial == << >>      \* a text that is no JSON: cut off, or written by two at a time

Results == [Question -> EvalResult]
Unasked == [q \in Question |-> Pending]

N == Cardinality(Question)

-------------------------------------------------------------------------------
(* compute_summary. *)

(* Mutant: an exception is not a refusal. *)
is_refusal_if_said(result) == result.outcome = "refused"

(* An exception counts as a refusal. *)
is_refusal(result) == result.outcome # "answered"

(* round(n / N, 3), in thousandths; ties need a multiple of 16 questions. *)
Rate(n) == (2000 * n + N) \div (2 * N)

incorrect_refusal_rate(results) ==
  Rate(Cardinality({q \in Question \ RefusalExpected : is_refusal(results[q])}))

(* sorted(latencies)[int(N * 0.95)] *)
p95_latency_ms(results) ==
  LET AtMost(l) == {q \in Question : results[q].latency_ms <= l}
      High == {l \in Latency : Cardinality(AtMost(l)) > (95 * N) \div 100}
  IN CHOOSE l \in High : \A k \in High : l <= k

(* check_thresholds; a text that is no JSON raises, and the gate exits 1. *)
Passes(text) ==
  /\ text # Partial
  /\ incorrect_refusal_rate(text) <= MAX_INCORRECT
  /\ p95_latency_ms(text) <= MAX_P95

(* Mutant: the order of the modification times is reversed. *)
oldest_results_file == Head(files)

(* The gate's choice, by modification time. *)
latest_results_file == Last(files)

-------------------------------------------------------------------------------
NotJudged == [run_id |-> 0, by |-> Committed, text |-> Partial]

(* What the repository holds: results of runs in which nothing was         *)
(* answered, named after seconds that are past.                            *)
CommittedFile(second) ==
  [run_id |-> second, by |-> Committed,
   text |-> [q \in Question |-> [outcome |-> "refused", latency_ms |-> MAX_P95]]]

(* A fresh checkout, whose files were written in any order. *)
Init ==
  /\ clock = NCommitted + 1
  /\ runs = [r \in Run |-> [pc |-> "idle", run_id |-> 0, results |-> Unasked,
                            over |-> {}, judged |-> NotJudged]]
  /\ \E order \in Bijection(1..NCommitted, 1..NCommitted) :
       files = [i \in 1..NCommitted |-> CommittedFile(order[i])]

Ended == {"written", "dead", "passed", "failed"}

(* main: the run_id is the second in which it starts.  `over' remembers    *)
(* what had ended by then.                                                 *)
start(r) ==
  /\ runs[r].pc = "idle"
  /\ runs' = [runs EXCEPT ![r].pc = "asking", ![r].run_id = clock,
                          ![r].over = {Committed} \cup {s \in Run : runs[s].pc \in Ended}]
  /\ UNCHANGED <<clock, files>>

(* run_question: all are under way at a time and end in any order. *)
run_question(r, q) ==
  /\ runs[r].pc = "asking" /\ runs[r].results[q] = Pending
  /\ \E result \in EvalResult : runs' = [runs EXCEPT ![r].results[q] = result]
  /\ UNCHANGED <<clock, files>>

Others(r) == RemoveFirstMatch(files, LAMBDA f : f.run_id = runs[r].run_id)

TextOf(r) == files[SelectInSeq(files, LAMBDA f : f.run_id = runs[r].run_id)].text

Written(r, text) ==
  files' = Append(Others(r), [run_id |-> runs[r].run_id, by |-> r, text |-> text])

(* Mutant: the results are written before all of them are in. *)
open_file_early(r) ==
  /\ runs[r].pc = "asking"
  /\ runs' = [runs EXCEPT ![r].pc = "writing"]
  /\ Written(r, Partial)
  /\ UNCHANGED clock

(* write_results: open(out_file, "w") creates or empties the file ... *)
open_file(r) ==
  /\ runs[r].pc = "asking" /\ \A q \in Question : runs[r].results[q] # Pending
  /\ runs' = [runs EXCEPT ![r].pc = "writing"]
  /\ Written(r, Partial)
  /\ UNCHANGED clock

(* ... and json.dump fills it.  What another run of the same second wrote  *)
(* since is overwritten from its start: in full, or up to a rest of it.    *)
dump(r) ==
  /\ runs[r].pc = "writing"
  /\ \E text \in {runs[r].results} \cup (IF TextOf(r) = Partial THEN {} ELSE {Partial}) :
       Written(r, text)
  /\ runs' = [runs EXCEPT ![r].pc = "written", ![r].results = Unasked]
  /\ UNCHANGED clock

(* Interrupted or killed, with what it has written so far left behind. *)
killed(r) ==
  /\ runs[r].pc \in {"asking", "writing"}
  /\ runs' = [runs EXCEPT ![r].pc = "dead", ![r].results = Unasked]
  /\ UNCHANGED <<clock, files>>

(* check_eval_thresholds.py, which CI starts only if the run has ended well. *)
check(r) ==
  /\ runs[r].pc = "written"
  /\ LET file == latest_results_file IN
     runs' = [runs EXCEPT ![r].pc = IF Passes(file.text) THEN "passed" ELSE "failed",
                          ![r].judged = file]
  /\ UNCHANGED <<clock, files>>

Tick ==
  /\ clock < MaxClock
  /\ clock' = clock + 1
  /\ UNCHANGED <<runs, files>>

Next ==
  \/ \E r \in Run :
       \/ start(r) \/ open_file(r) \/ dump(r) \/ killed(r) \/ check(r)
       \/ \E q \in Question : run_question(r, q)
  \/ Tick

Spec == Init /\ [][Next]_vars

-------------------------------------------------------------------------------
File == [run_id : 0..MaxClock, by : Run \cup {Committed}, text : Results \cup {Partial}]

TypeOK ==
  /\ clock \in 1..MaxClock
  /\ files \in Seq(File)
  /\ runs \in [Run -> [pc : {"idle", "asking", "writing"} \cup Ended, run_id : 0..MaxClock,
                       results : [Question -> EvalResult \cup {Pending}],
                       over : SUBSET (Run \cup {Committed}), judged : File]]

(* A gate that passes has seen a whole run in which, of all questions, no  *)
(* more than the limit (to within the rounding) were to be answered and    *)
(* were not, for whatever reason, and in which no more than a twentieth    *)
(* were slow, none of up to twenty: an outage cannot pass                  *)
(* (run_eval.py:68-87, 125-148, check_eval_thresholds.py:37-51).           *)
PassMeansServed ==
  \A r \in Run :
    runs[r].pc = "passed" =>
      LET results == runs[r].judged.text
          Unserved == {q \in Question \ RefusalExpected : results[q].outcome # "answered"}
          Slow == {q \in Question : results[q].latency_ms > MAX_P95}
      IN /\ results # Partial
         /\ 2000 * Cardinality(Unserved) <= (2 * MAX_INCORRECT + 1) * N
         /\ 20 * Cardinality(Slow) <= N /\ (N <= 20 => Slow = {})

(* The gate after a run judges that run or one that was still to end when  *)
(* it started: never the committed results, and none from before           *)
(* (check_eval_thresholds.py:21-23, ci.yml:71-75).                         *)
VerdictIsNotStale ==
  \A r \in Run : runs[r].pc \in {"passed", "failed"} => runs[r].judged.by \notin runs[r].over

===============================================================================
