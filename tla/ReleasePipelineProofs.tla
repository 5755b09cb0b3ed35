------------------------- MODULE ReleasePipelineProofs -------------------------
(***************************************************************************)
(* Proofs about the release pipeline, for any number of pushes, prompts    *)
(* and versions and any interleaving of their workflow runs.               *)
(***************************************************************************)
EXTENDS ReleasePipeline, SequenceTheorems, TLAPS

-------------------------------------------------------------------------------
(* The inductive invariant. *)

(* A record is that of the commit it follows, which pushed it. *)
Follows(k) ==
  main[k].record # NoRecord =>
    /\ k > 1
    /\ main[k] = [main[k - 1] EXCEPT !.record = Record(k - 1)]
    /\ runs[k - 1].record = "pushed"
RecordsFollow == \A k \in DOMAIN main : Follows(k)

(* What CI passed has no error in its prompts. *)
Locked(i) ==
  (runs[i].ci = "passed" /\ main[i].prompts # NoHashes /\ main[i].lock # NoLock)
    => main[i].lock = main[i].prompts
PassedAreLocked == \A i \in DOMAIN main : Locked(i)

(* Only what CI passed is deployed, or what main became meanwhile. *)
Deploys(i) ==
  runs[i].deploy # "none" => runs[i].ci = "passed" /\ runs[i].built \in i..Len(main)
DeploymentsPassed == \A i \in DOMAIN main : Deploys(i)

(* Where the record of a commit went. *)
Recorded(i) ==
  /\ runs[i].record = "rejected" => i < Len(main) /\ main[i + 1].record = NoRecord
  /\ runs[i].record = "pushed" => i < Len(main) /\ main[i + 1].record.of = i

Inv == /\ TypeOK /\ RecordsFollow /\ PassedAreLocked /\ DeploymentsPassed
       /\ OnlyOvertakenLoseTheirRecord /\ DeployedIsNotBehind

-------------------------------------------------------------------------------
(* The values. *)
LEMMA NoHashesIs == NoHashes \in Hashes
BY DEF NoHashes, Hashes

LEMMA NoRecordIs ==
  /\ NoRecord \in [of : Nat, prompt_hashes : Hashes] /\ NoRecord.of = 0
BY NoHashesIs DEF NoRecord

LEMMA NewRunsAre ==
  /\ NoRuns \in Runs /\ Queued \in Runs
  /\ \A r \in {NoRuns, Queued} :
       r.ci # "passed" /\ r.deploy = "none" /\ r.record # "pushed" /\ r.record # "rejected"
<1>1. NoRuns \in Runs /\ NoRuns.ci = "none" /\ NoRuns.deploy = "none" /\ NoRuns.record = "none"
  BY DEF NoRuns, Runs
<1>2. /\ Queued \in Runs /\ Queued.ci = "queued" /\ Queued.deploy = "none"
      /\ Queued.record = "queued"
  BY DEF NoRuns, Queued, Runs
<1>. QED BY <1>1, <1>2

LEMMA RecordIs ==
  ASSUME TypeOK, NEW i \in DOMAIN main
  PROVE  /\ Record(i) \in [of : Nat, prompt_hashes : Hashes] /\ Record(i).of = i
         /\ main[i].lock # NoLock => Record(i).prompt_hashes = main[i].lock
<1>1. main[i] \in Commit /\ i \in Nat
  BY DEF TypeOK
<1>2. main[i].lock \in Hashes \cup {NoLock}
  BY <1>1 DEF Commit
<1>. QED BY <1>1, <1>2, NoHashesIs DEF Record

(* A commit that passes the check with prompts and a lock has them equal.  *)
LEMMA NoErrorMeansLocked ==
  ASSUME NEW prompts \in Hashes, NEW lock \in Hashes, Errors(prompts, lock) = {}
  PROVE  lock = prompts
<1>1. ASSUME NEW p \in Prompt PROVE lock[p] = prompts[p]
  <2>1. p \notin New(prompts, lock) /\ p \notin Changed(prompts, lock) /\ p \notin Deleted(prompts, lock)
    BY DEF Errors
  <2>2. CASE prompts[p] = Absent
    BY <2>1, <2>2 DEF Deleted
  <2>3. CASE prompts[p] # Absent
    BY <2>1, <2>3 DEF New, Changed
  <2>. QED BY <2>2, <2>3
<1>2. lock = [p \in Prompt |-> lock[p]] /\ prompts = [p \in Prompt |-> prompts[p]]
  BY DEF Hashes
<1>. QED BY <1>1, <1>2

-------------------------------------------------------------------------------
(* The two shapes of a step: the runs of one commit move on, or a commit   *)
(* is added, with or without one.                                          *)
Moves(i) ==
  /\ main' = main
  /\ runs' \in Seq(Runs) /\ Len(runs') = Len(runs)
  /\ \A j \in DOMAIN runs : j # i => runs'[j] = runs[j]

Adds(commit, new) ==
  /\ commit \in Commit /\ new \in {NoRuns, Queued}
  /\ main' = Append(main, commit)
  /\ runs' \in Seq(Runs) /\ Len(runs') = Len(runs) + 1
  /\ runs'[Len(runs) + 1] = new

LEMMA Known ==
  ASSUME TypeOK
  PROVE  /\ main \in Seq(Commit) /\ Len(main) \in Nat /\ DOMAIN main = 1..Len(main)
         /\ runs \in Seq(Runs) /\ Len(runs) = Len(main) /\ DOMAIN runs = DOMAIN main
BY DEF TypeOK

(* One run's record replaced by another. *)
LEMMA MoveIs ==
  ASSUME TypeOK, NEW i \in DOMAIN main, NEW r \in Runs, main' = main, runs' = [runs EXCEPT ![i] = r]
  PROVE  Moves(i) /\ runs'[i] = r
<1>. QED BY Known DEF Moves

LEMMA RunIs ==
  ASSUME TypeOK, NEW i \in DOMAIN main
  PROVE  runs[i] \in Runs /\ main[i] \in Commit
BY Known

LEMMA CiMoves ==
  ASSUME TypeOK, NEW i \in DOMAIN main, ci_ends(i)
  PROVE  /\ Moves(i) /\ app' = app /\ tags' = tags /\ pushes' = pushes
         /\ runs[i].ci = "queued" /\ runs'[i].record = runs[i].record
         /\ \/ /\ PromptsPass(main[i]) /\ runs'[i].ci = "passed"
               /\ runs'[i].deploy = "queued" /\ runs'[i].built = Len(main)
            \/ runs'[i].ci = "failed" /\ runs'[i].deploy = runs[i].deploy
<1>. DEFINE r == runs[i]
            passed == [r EXCEPT !.ci = "passed", !.deploy = "queued", !.built = Len(main)]
            failed == [r EXCEPT !.ci = "failed"]
<1>1. r \in Runs /\ Len(main) \in Nat
  BY RunIs, Known
<1>2. passed \in Runs /\ failed \in Runs
  BY <1>1 DEF Runs
<1>3. /\ passed.ci = "passed" /\ passed.deploy = "queued" /\ passed.built = Len(main)
      /\ passed.record = r.record
      /\ failed.ci = "failed" /\ failed.deploy = r.deploy /\ failed.record = r.record
  BY <1>1 DEF Runs
<1>4. main' = main /\ app' = app /\ tags' = tags /\ pushes' = pushes /\ r.ci = "queued"
  BY DEF ci_ends
<1>5. \/ PromptsPass(main[i]) /\ runs' = [runs EXCEPT ![i] = passed]
      \/ runs' = [runs EXCEPT ![i] = failed]
  BY Known DEF ci_ends
<1>. HIDE DEF passed, failed
<1>6. ASSUME PromptsPass(main[i]), runs' = [runs EXCEPT ![i] = passed]
      PROVE  Moves(i) /\ runs'[i] = passed
  BY <1>2, <1>4, <1>6, MoveIs
<1>7. ASSUME runs' = [runs EXCEPT ![i] = failed]
      PROVE  Moves(i) /\ runs'[i] = failed
  BY <1>2, <1>4, <1>7, MoveIs
<1>. QED BY <1>3, <1>4, <1>5, <1>6, <1>7

LEMMA DeployMoves ==
  ASSUME TypeOK, NEW i \in DOMAIN main, deploy_updates(i) \/ deploy_fails(i)
  PROVE  /\ Moves(i) /\ tags' = tags /\ pushes' = pushes
         /\ runs[i].deploy = "queued" /\ runs'[i].ci = runs[i].ci
         /\ runs'[i].built = runs[i].built /\ runs'[i].record = runs[i].record
         /\ app' = runs[i].built \/ app' = app
<1>. DEFINE r == runs[i]
            s(d) == [r EXCEPT !.deploy = d]
<1>1. r \in Runs
  BY RunIs
<1>2. ASSUME NEW d \in {"updated", "failed"}
      PROVE  s(d) \in Runs /\ s(d).ci = r.ci /\ s(d).built = r.built /\ s(d).record = r.record
  BY <1>1 DEF Runs
<1>3. PICK d \in {"updated", "failed"} : runs' = [runs EXCEPT ![i] = s(d)]
  BY Known DEF deploy_updates, deploy_fails
<1>4. /\ main' = main /\ tags' = tags /\ pushes' = pushes /\ r.deploy = "queued"
      /\ app' = r.built \/ app' = app
  BY DEF deploy_updates, deploy_fails
<1>. HIDE DEF s
<1>5. Moves(i) /\ runs'[i] = s(d)
  BY <1>2, <1>3, <1>4, MoveIs
<1>. QED BY <1>2, <1>4, <1>5

LEMMA RecordMoves ==
  ASSUME TypeOK, NEW i \in DOMAIN main, record_is_rejected(i) \/ record_fails(i)
  PROVE  /\ Moves(i) /\ app' = app /\ tags' = tags /\ pushes' = pushes
         /\ runs[i].record = "queued" /\ runs'[i].ci = runs[i].ci
         /\ runs'[i].built = runs[i].built /\ runs'[i].deploy = runs[i].deploy
         /\ \/ runs'[i].record = "rejected" /\ Len(main) # i
            \/ runs'[i].record = "failed"
<1>. DEFINE r == runs[i]
            s(d) == [r EXCEPT !.record = d]
<1>1. r \in Runs
  BY RunIs
<1>2. ASSUME NEW d \in {"rejected", "failed"}
      PROVE  /\ s(d) \in Runs /\ s(d).ci = r.ci /\ s(d).built = r.built /\ s(d).deploy = r.deploy
             /\ s(d).record = d
  BY <1>1 DEF Runs
<1>3. PICK d \in {"rejected", "failed"} : runs' = [runs EXCEPT ![i] = s(d)] /\ (d = "rejected" => Len(main) # i)
  BY Known DEF record_is_rejected, record_fails
<1>4. main' = main /\ app' = app /\ tags' = tags /\ pushes' = pushes /\ r.record = "queued"
  BY DEF record_is_rejected, record_fails
<1>. HIDE DEF s
<1>5. Moves(i) /\ runs'[i] = s(d)
  BY <1>2, <1>3, <1>4, MoveIs
<1>. QED BY <1>2, <1>3, <1>4, <1>5

LEMMA TagMoves ==
  ASSUME TypeOK, NEW i \in DOMAIN main, release_checks(i) \/ release_creates(i)
  PROVE  /\ Moves(i) /\ app' = app /\ pushes' = pushes
         /\ runs'[i].ci = runs[i].ci /\ runs'[i].built = runs[i].built
         /\ runs'[i].deploy = runs[i].deploy /\ runs'[i].record = runs[i].record
         /\ \/ tags' = tags
            \/ tags[main[i].version] = 0 /\ tags' = [tags EXCEPT ![main[i].version] = i]
<1>. DEFINE r == runs[i]
            s(d) == [r EXCEPT !.tag = d]
            T == {"missing", "exists", "created", "rejected"}
<1>1. r \in Runs
  BY RunIs
<1>2. ASSUME NEW d \in T
      PROVE  /\ s(d) \in Runs /\ s(d).ci = r.ci /\ s(d).built = r.built /\ s(d).deploy = r.deploy
             /\ s(d).record = r.record
  BY <1>1 DEF Runs
<1>3. PICK d \in T : runs' = [runs EXCEPT ![i] = s(d)]
  BY Known DEF release_checks, release_creates
<1>4. /\ main' = main /\ app' = app /\ pushes' = pushes
      /\ \/ tags' = tags
         \/ tags[main[i].version] = 0 /\ tags' = [tags EXCEPT ![main[i].version] = i]
  BY DEF release_checks, release_creates
<1>. HIDE DEF s, T
<1>5. Moves(i) /\ runs'[i] = s(d)
  BY <1>2, <1>3, <1>4, MoveIs
<1>. QED BY <1>2, <1>4, <1>5

LEMMA LastIs ==
  ASSUME TypeOK
  PROVE  Last(main) \in Commit
BY Known DEF TypeOK, Last

(* One prompt edited, added or removed. *)
LEMMA EditIs ==
  ASSUME NEW prompts \in Hashes, NEW p \in Prompt, NEW hash \in Hash \cup {Absent}
  PROVE  [prompts EXCEPT ![p] = hash] \in Hashes
BY DEF Hashes

LEMMA AddIs ==
  ASSUME TypeOK, NEW s \in Seq(Runs), Len(s) = Len(runs), NEW c \in Commit, NEW new \in {NoRuns, Queued},
         main' = Append(main, c), runs' = Append(s, new)
  PROVE  Adds(c, new) /\ \A j \in DOMAIN main : runs'[j] = s[j]
BY Known, NewRunsAre DEF Adds

LEMMA PushAdds ==
  ASSUME TypeOK, push
  PROVE  /\ app' = app /\ tags' = tags /\ pushes' \in 0..MaxPushes
         /\ \E c \in Commit : Adds(c, Queued) /\ c.record = NoRecord
         /\ \A j \in DOMAIN main : runs'[j] = runs[j]
<1>. DEFINE old == Last(main)
<1>1. old \in Commit
  BY LastIs
<1>2. PICK p \in Prompt, hash \in Hash \cup {Absent} :
        LET prompts == [old.prompts EXCEPT ![p] = hash] IN
        \E lock \in {old.lock, UpdatedLock(prompts, old.lock), NoLock},
           version \in {old.version, old.version + 1} \cap Version :
          main' = Append(main, [prompts |-> prompts, lock |-> lock, version |-> version,
                                record |-> NoRecord])
  BY DEF push
<1>. DEFINE prompts == [old.prompts EXCEPT ![p] = hash]
<1>3. PICK lock \in {old.lock, UpdatedLock(prompts, old.lock), NoLock},
           version \in {old.version, old.version + 1} \cap Version :
        main' = Append(main, [prompts |-> prompts, lock |-> lock, version |-> version,
                              record |-> NoRecord])
  BY <1>2
<1>4. old.prompts \in Hashes /\ old.lock \in Hashes \cup {NoLock}
  BY <1>1 DEF Commit
<1>5. prompts \in Hashes
  BY <1>4, EditIs
<1>. HIDE DEF prompts, old
<1>6. lock \in Hashes \cup {NoLock}
  BY <1>3, <1>4, <1>5 DEF UpdatedLock
<1>. DEFINE c == [prompts |-> prompts, lock |-> lock, version |-> version, record |-> NoRecord]
<1>7. c \in Commit /\ c.record = NoRecord
  BY <1>3, <1>5, <1>6, NoRecordIs DEF Commit
<1>8. main' = Append(main, c)
  BY <1>3
<1>. HIDE DEF c
<1>9. app' = app /\ tags' = tags /\ pushes' = pushes + 1 /\ pushes < MaxPushes /\ runs' = Append(runs, Queued)
  BY DEF push
<1>10. pushes' \in 0..MaxPushes
  BY <1>9, BoundsAssumption DEF TypeOK
<1>11. Adds(c, Queued) /\ \A j \in DOMAIN main : runs'[j] = runs[j]
  BY <1>7, <1>8, <1>9, AddIs, Known
<1>. QED BY <1>7, <1>9, <1>10, <1>11

LEMMA RecordAdds ==
  ASSUME TypeOK, NEW i \in DOMAIN main, record_is_pushed(i)
  PROVE  /\ app' = app /\ tags' = tags /\ pushes' = pushes
         /\ i = Len(main) /\ runs[i].record = "queued"
         /\ Adds([main[i] EXCEPT !.record = Record(i)], NoRuns)
         /\ \A j \in DOMAIN main : j # i => runs'[j] = runs[j]
         /\ runs'[i].ci = runs[i].ci /\ runs'[i].deploy = runs[i].deploy
         /\ runs'[i].built = runs[i].built /\ runs'[i].record = "pushed"
<1>. DEFINE r == [runs[i] EXCEPT !.record = "pushed"]
            s == [runs EXCEPT ![i] = r]
            c == [main[i] EXCEPT !.record = Record(i)]
<1>1. /\ r \in Runs /\ r.ci = runs[i].ci /\ r.deploy = runs[i].deploy
      /\ r.built = runs[i].built /\ r.record = "pushed"
  BY RunIs DEF Runs
<1>2. c \in Commit
  BY RunIs, RecordIs DEF Commit
<1>3. s = [runs EXCEPT ![i].record = "pushed"]
  BY Known
<1>4. /\ app' = app /\ tags' = tags /\ pushes' = pushes /\ i = Len(main) /\ runs[i].record = "queued"
      /\ main' = Append(main, c) /\ runs' = Append(s, NoRuns)
  BY <1>3 DEF record_is_pushed
<1>. HIDE DEF r, c
<1>5. s \in Seq(Runs) /\ Len(s) = Len(runs) /\ s[i] = r /\ \A j \in DOMAIN main : j # i => s[j] = runs[j]
  BY <1>1, Known
<1>. HIDE DEF s
<1>6. Adds(c, NoRuns) /\ \A j \in DOMAIN main : runs'[j] = s[j]
  BY <1>2, <1>4, <1>5, AddIs
<1>. QED BY <1>1, <1>4, <1>5, <1>6 DEF c

-------------------------------------------------------------------------------
(* What a step does to the commits there are, and to the new one. *)
LEMMA MovesKeep ==
  ASSUME TypeOK, NEW i \in DOMAIN main, Moves(i)
  PROVE  /\ DOMAIN main' = DOMAIN main /\ Len(main') = Len(main) /\ runs'[i] \in Runs
         /\ \A j \in DOMAIN main : Record(j)' = Record(j)
BY Known DEF Moves, Record

LEMMA AddsKeep ==
  ASSUME TypeOK, NEW c, NEW new, Adds(c, new)
  PROVE  /\ main' \in Seq(Commit) /\ Len(main') = Len(main) + 1 /\ DOMAIN main' = 1..(Len(main) + 1)
         /\ \A j \in DOMAIN main : main'[j] = main[j] /\ Record(j)' = Record(j)
         /\ main'[Len(main) + 1] = c /\ runs'[Len(main) + 1] = new
<1>1. main' \in Seq(Commit) /\ Len(main') = Len(main) + 1 /\ DOMAIN main' = 1..(Len(main) + 1)
  BY Known DEF Adds
<1>2. \A j \in DOMAIN main : main'[j] = main[j]
  BY Known DEF Adds
<1>3. main'[Len(main) + 1] = c /\ runs'[Len(main) + 1] = new
  BY Known DEF Adds
<1>. QED BY <1>1, <1>2, <1>3 DEF Record

-------------------------------------------------------------------------------
(* The parts of the invariant, when the runs of one commit move on. *)
LEMMA FollowsKeptByMoves ==
  ASSUME Inv, NEW i \in DOMAIN main, Moves(i), runs[i].record = "pushed" => runs'[i].record = "pushed"
  PROVE  RecordsFollow'
<1>. SUFFICES ASSUME NEW k \in DOMAIN main PROVE Follows(k)'
  BY MovesKeep DEF RecordsFollow, Inv
<1>1. Follows(k) /\ TypeOK
  BY DEF RecordsFollow, Inv
<1>2. CASE main[k].record = NoRecord
  BY <1>2 DEF Moves, Follows
<1>3. CASE main[k].record # NoRecord
  <2>1. k > 1 /\ main[k] = [main[k - 1] EXCEPT !.record = Record(k - 1)] /\ runs[k - 1].record = "pushed"
    BY <1>1, <1>3 DEF Follows
  <2>2. k - 1 \in DOMAIN main
    BY <1>1, <2>1, Known
  <2>3. Record(k - 1)' = Record(k - 1)
    BY <1>1, <2>2, MovesKeep
  <2>4. runs'[k - 1].record = "pushed"
    BY <1>1, <2>1, <2>2, Known DEF Moves
  <2>5. main' = main
    BY DEF Moves
  <2>. QED BY <2>1, <2>3, <2>4, <2>5 DEF Follows
<1>. QED BY <1>2, <1>3

LEMMA LockedKeptByMoves ==
  ASSUME Inv, NEW i \in DOMAIN main, Moves(i),
         runs'[i].ci = "passed" => runs[i].ci = "passed" \/ PromptsPass(main[i])
  PROVE  PassedAreLocked'
<1>. SUFFICES ASSUME NEW k \in DOMAIN main PROVE Locked(k)'
  BY MovesKeep DEF PassedAreLocked, Inv
<1>1. Locked(k) /\ TypeOK /\ main' = main
  BY DEF PassedAreLocked, Inv, Moves
<1>2. CASE runs'[k].ci = "passed" => runs[k].ci = "passed"
  BY <1>1, <1>2 DEF Locked
<1>3. CASE k = i /\ PromptsPass(main[i])
  <2>1. main[i] \in Commit
    BY <1>1, RunIs
  <2>2. ASSUME main[i].prompts # NoHashes, main[i].lock # NoLock PROVE main[i].lock = main[i].prompts
    <3>1. Errors(main[i].prompts, main[i].lock) = {}
      BY <1>3, <2>2 DEF PromptsPass
    <3>2. main[i].prompts \in Hashes /\ main[i].lock \in Hashes
      BY <2>1, <2>2 DEF Commit
    <3>. QED BY <3>1, <3>2, NoErrorMeansLocked
  <2>. QED BY <1>1, <1>3, <2>2 DEF Locked
<1>4. k # i => runs'[k] = runs[k]
  BY <1>1, Known DEF Moves
<1>. QED BY <1>2, <1>3, <1>4

LEMMA DeploysKeptByMoves ==
  ASSUME Inv, NEW i \in DOMAIN main, Moves(i),
         runs'[i].deploy # "none" => runs'[i].ci = "passed" /\ runs'[i].built \in i..Len(main)
  PROVE  DeploymentsPassed'
<1>. SUFFICES ASSUME NEW k \in DOMAIN main PROVE Deploys(k)'
  BY MovesKeep DEF DeploymentsPassed, Inv
<1>1. Deploys(k) /\ TypeOK /\ main' = main
  BY DEF DeploymentsPassed, Inv, Moves
<1>2. k # i => runs'[k] = runs[k]
  BY <1>1, Known DEF Moves
<1>. QED BY <1>1, <1>2 DEF Deploys

LEMMA RecordedKeptByMoves ==
  ASSUME Inv, NEW i \in DOMAIN main, Moves(i),
         \/ runs'[i].record = runs[i].record
         \/ runs'[i].record = "rejected" /\ runs[i].record = "queued" /\ Len(main) # i
         \/ runs'[i].record = "failed"
  PROVE  OnlyOvertakenLoseTheirRecord'
<1>1. TypeOK /\ main' = main
  BY DEF Inv, Moves
<1>2. ASSUME NEW k \in DOMAIN main PROVE Recorded(k)'
  <2>1. Recorded(k)
    BY DEF Inv, OnlyOvertakenLoseTheirRecord, Recorded
  <2>2. k # i => runs'[k] = runs[k]
    BY <1>1, Known DEF Moves
  <2>3. CASE runs'[k].record = runs[k].record
    BY <1>1, <2>1, <2>3 DEF Recorded
  <2>4. CASE k = i /\ runs'[i].record = "rejected" /\ runs[i].record = "queued" /\ Len(main) # i
    <3>1. i < Len(main) /\ i + 1 \in DOMAIN main /\ (i + 1) - 1 = i
      BY <1>1, <2>4, Known
    <3>2. main[i + 1].record = NoRecord
      BY <2>4, <3>1 DEF Inv, RecordsFollow, Follows
    <3>. QED BY <1>1, <2>4, <3>1, <3>2 DEF Recorded
  <2>5. CASE k = i /\ runs'[i].record = "failed"
    BY <2>5 DEF Recorded
  <2>. QED BY <2>2, <2>3, <2>4, <2>5
<1>. QED BY <1>1, <1>2 DEF OnlyOvertakenLoseTheirRecord, Recorded

(* ... and when a commit is added. *)
Extends(c) ==
  /\ \A j \in DOMAIN main : /\ runs'[j].ci = runs[j].ci /\ runs'[j].deploy = runs[j].deploy
                            /\ runs'[j].built = runs[j].built
                            /\ j # Len(main) => runs'[j].record = runs[j].record
  /\ \/ c.record = NoRecord /\ runs'[Len(main)].record = runs[Len(main)].record
     \/ /\ c = [main[Len(main)] EXCEPT !.record = Record(Len(main))]
        /\ runs'[Len(main)].record = "pushed"

LEMMA NotEmpty ==
  ASSUME TypeOK
  PROVE  Len(main) \in DOMAIN main /\ Len(main) >= 1
BY Known DEF TypeOK

LEMMA FollowsKeptByAdds ==
  ASSUME Inv, NEW c, NEW new, Adds(c, new), Extends(c)
  PROVE  RecordsFollow'
<1>0. PICK n \in Nat : n = Len(main)
  BY Known DEF Inv
<1>1. TypeOK /\ n \in DOMAIN main /\ n >= 1 /\ n \in Nat /\ DOMAIN main = 1..n
  BY <1>0, NotEmpty, Known DEF Inv
<1>2. /\ DOMAIN main' = 1..(n + 1) /\ main'[n + 1] = c
      /\ \A j \in DOMAIN main : main'[j] = main[j] /\ Record(j)' = Record(j)
  BY <1>0, <1>1, AddsKeep
<1>3. ASSUME NEW k \in DOMAIN main PROVE Follows(k)'
  <2>1. Follows(k) /\ main'[k] = main[k]
    BY <1>2 DEF Inv, RecordsFollow
  <2>2. CASE main[k].record = NoRecord
    BY <2>1, <2>2 DEF Follows
  <2>3. CASE main[k].record # NoRecord
    <3>1. k > 1 /\ main[k] = [main[k - 1] EXCEPT !.record = Record(k - 1)] /\ runs[k - 1].record = "pushed"
      BY <2>1, <2>3 DEF Follows
    <3>2. k - 1 \in DOMAIN main /\ k - 1 # n
      BY <1>1, <3>1
    <3>3. main'[k - 1] = main[k - 1] /\ Record(k - 1)' = Record(k - 1)
      BY <1>2, <3>2
    <3>4. runs'[k - 1].record = "pushed"
      BY <1>0, <3>1, <3>2 DEF Extends
    <3>. QED BY <2>1, <3>1, <3>3, <3>4 DEF Follows
  <2>. QED BY <2>2, <2>3
<1>4. Follows(n + 1)'
  <2>1. CASE c.record = NoRecord
    BY <1>2, <2>1 DEF Follows
  <2>2. CASE c = [main[n] EXCEPT !.record = Record(n)] /\ runs'[n].record = "pushed"
    <3>1. (n + 1) - 1 = n /\ n + 1 > 1
      BY <1>1
    <3>2. main'[n] = main[n] /\ Record(n)' = Record(n)
      BY <1>1, <1>2
    <3>. QED BY <1>2, <2>2, <3>1, <3>2 DEF Follows
  <2>. QED BY <1>0, <2>1, <2>2 DEF Extends
<1>5. \A k \in 1..(n + 1) : k = n + 1 \/ k \in DOMAIN main
  BY <1>1
<1>. QED BY <1>2, <1>3, <1>4, <1>5 DEF RecordsFollow

LEMMA RecordedKeptByAdds ==
  ASSUME Inv, NEW c, NEW new, Adds(c, new), Extends(c)
  PROVE  OnlyOvertakenLoseTheirRecord'
<1>0. PICK n \in Nat : n = Len(main)
  BY Known DEF Inv
<1>1. TypeOK /\ n \in DOMAIN main /\ n >= 1 /\ n \in Nat /\ DOMAIN main = 1..n
  BY <1>0, NotEmpty, Known DEF Inv
<1>2. /\ DOMAIN main' = 1..(n + 1) /\ Len(main') = n + 1 /\ main'[n + 1] = c /\ runs'[n + 1] = new
      /\ \A j \in DOMAIN main : main'[j] = main[j]
  BY <1>0, <1>1, AddsKeep
<1>3. ASSUME NEW k \in DOMAIN main, k # n PROVE Recorded(k)'
  <2>1. Recorded(k) /\ runs'[k].record = runs[k].record
    BY <1>0, <1>3 DEF Inv, OnlyOvertakenLoseTheirRecord, Recorded, Extends
  <2>2. k + 1 \in DOMAIN main /\ k < n + 1
    BY <1>1, <1>3
  <2>3. main'[k + 1] = main[k + 1]
    BY <1>2, <2>2
  <2>. QED BY <1>2, <2>1, <2>2, <2>3 DEF Recorded
<1>4. Recorded(n)'
  <2>1. runs[n].record # "rejected" /\ runs[n].record # "pushed"
    <3>1. Recorded(n)
      BY <1>1 DEF Inv, OnlyOvertakenLoseTheirRecord, Recorded
    <3>. QED BY <1>1, <3>1 DEF Recorded
  <2>2. CASE runs'[n].record = runs[n].record
    BY <2>1, <2>2 DEF Recorded
  <2>3. CASE c = [main[n] EXCEPT !.record = Record(n)] /\ runs'[n].record = "pushed"
    <3>1. c.record = Record(n)
      <4>1. main[n] \in Commit
        BY <1>1, RunIs
      <4>. QED BY <2>3, <4>1 DEF Commit
    <3>2. c.record.of = n
      BY <1>1, <3>1, RecordIs
    <3>. QED BY <1>1, <1>2, <2>3, <3>2 DEF Recorded
  <2>. QED BY <1>0, <2>2, <2>3 DEF Extends
<1>5. Recorded(n + 1)'
  <2>1. new.record # "pushed" /\ new.record # "rejected"
    BY NewRunsAre DEF Adds
  <2>. QED BY <1>2, <2>1 DEF Recorded
<1>6. \A k \in 1..(n + 1) : k = n \/ k = n + 1 \/ k \in DOMAIN main
  BY <1>1
<1>. QED BY <1>2, <1>3, <1>4, <1>5, <1>6 DEF OnlyOvertakenLoseTheirRecord, Recorded

LEMMA RunsKeptByAdds ==
  ASSUME Inv, NEW c, NEW new, Adds(c, new), Extends(c)
  PROVE  PassedAreLocked' /\ DeploymentsPassed'
<1>0. PICK n \in Nat : n = Len(main)
  BY Known DEF Inv
<1>1. TypeOK /\ n \in Nat /\ DOMAIN main = 1..n
  BY <1>0, Known DEF Inv
<1>2. /\ DOMAIN main' = 1..(n + 1) /\ Len(main') = n + 1 /\ runs'[n + 1] = new
      /\ \A j \in DOMAIN main : main'[j] = main[j]
  BY <1>0, <1>1, AddsKeep
<1>3. ASSUME NEW k \in DOMAIN main PROVE Locked(k)' /\ Deploys(k)'
  <2>1. Locked(k) /\ Deploys(k) /\ main'[k] = main[k]
    BY <1>2 DEF Inv, PassedAreLocked, DeploymentsPassed
  <2>2. runs'[k].ci = runs[k].ci /\ runs'[k].deploy = runs[k].deploy /\ runs'[k].built = runs[k].built
    BY DEF Extends
  <2>3. Locked(k)'
    BY <2>1, <2>2 DEF Locked
  <2>4. k..n \subseteq k..(n + 1)
    BY <1>1
  <2>5. Deploys(k)'
    BY <1>0, <1>2, <2>1, <2>2, <2>4 DEF Deploys
  <2>. QED BY <2>3, <2>5
<1>4. Locked(n + 1)' /\ Deploys(n + 1)'
  <2>1. new.ci # "passed" /\ new.deploy = "none"
    BY NewRunsAre DEF Adds
  <2>. QED BY <1>2, <2>1 DEF Locked, Deploys
<1>5. \A k \in 1..(n + 1) : k = n + 1 \/ k \in DOMAIN main
  BY <1>1
<1>. QED BY <1>2, <1>3, <1>4, <1>5 DEF PassedAreLocked, DeploymentsPassed

(* The app, whatever the step. *)
LEMMA AppKept ==
  ASSUME Inv, DOMAIN main \subseteq DOMAIN main',
         \A j \in DOMAIN main : runs[j].ci = "passed" => runs'[j].ci = "passed",
         \/ app' = app
         \/ \E i \in DOMAIN main : runs[i].ci = "passed" /\ app' \in i..Len(main)
  PROVE  app' \in DOMAIN main' /\ DeployedIsNotBehind'
<1>1. TypeOK /\ DeployedIsNotBehind /\ app \in DOMAIN main /\ Len(main) \in Nat /\ DOMAIN main = 1..Len(main)
  BY Known DEF Inv, TypeOK
<1>2. CASE app' = app
  BY <1>1, <1>2 DEF DeployedIsNotBehind
<1>3. ASSUME NEW i \in DOMAIN main, runs[i].ci = "passed", app' \in i..Len(main)
      PROVE  app' \in DOMAIN main' /\ DeployedIsNotBehind'
  <2>1. app' \in DOMAIN main /\ i \in 1..app'
    BY <1>1, <1>3
  <2>2. runs'[i].ci = "passed"
    BY <1>3
  <2>. QED BY <2>1, <2>2 DEF DeployedIsNotBehind
<1>. QED BY <1>2, <1>3

(* The types, given those of the commit and of the runs. *)
LEMMA TypeKept ==
  ASSUME TypeOK, main' \in Seq(Commit), runs' \in Seq(Runs), Len(runs') = Len(main'),
         Len(main') \in {Len(main), Len(main) + 1}, app' \in DOMAIN main',
         pushes' \in 0..MaxPushes,
         \/ tags' = tags
         \/ \E i \in DOMAIN main : tags' = [tags EXCEPT ![main[i].version] = i]
  PROVE  TypeOK'
<1>. DEFINE n == Len(main)
<1>1. n \in Nat /\ DOMAIN main = 1..n /\ tags \in [Version -> 0..n] /\ 0..n \subseteq 0..Len(main')
  <2>1. n \in Nat /\ DOMAIN main = 1..n /\ tags \in [Version -> 0..n]
    BY Known DEF TypeOK
  <2>. QED BY <2>1
<1>2. tags' \in [Version -> 0..n]
  <2>1. ASSUME NEW i \in DOMAIN main, tags' = [tags EXCEPT ![main[i].version] = i]
        PROVE  tags' \in [Version -> 0..n]
    <3>1. i \in 0..n
      BY <1>1
    <3>. QED BY <1>1, <2>1, <3>1
  <2>. QED BY <1>1, <2>1
<1>3. tags' \in [Version -> 0..Len(main')]
  BY <1>1, <1>2
<1>. QED BY <1>3 DEF TypeOK

-------------------------------------------------------------------------------
(* One lemma an action. *)
LEMMA CiKeepsInv ==
  ASSUME Inv, NEW i \in DOMAIN main, ci_ends(i)
  PROVE  Inv'
<1>1. TypeOK /\ Len(main) \in Nat /\ DOMAIN main = 1..Len(main) /\ app \in DOMAIN main
  BY Known DEF Inv, TypeOK
<1>2. /\ Moves(i) /\ app' = app /\ tags' = tags /\ pushes' = pushes
      /\ runs[i].ci = "queued" /\ runs'[i].record = runs[i].record
      /\ \/ /\ PromptsPass(main[i]) /\ runs'[i].ci = "passed"
            /\ runs'[i].deploy = "queued" /\ runs'[i].built = Len(main)
         \/ runs'[i].ci = "failed" /\ runs'[i].deploy = runs[i].deploy
  BY <1>1, CiMoves
<1>3. \A j \in DOMAIN main : runs[j].ci = "passed" => runs'[j].ci = "passed"
  BY <1>1, <1>2, Known DEF Moves
<1>4. app' \in DOMAIN main' /\ DeployedIsNotBehind'
  BY <1>2, <1>3, AppKept DEF Moves
<1>5. TypeOK'
  BY <1>1, <1>2, <1>4, TypeKept, Known DEF Moves, TypeOK
<1>6. runs'[i].deploy # "none" => runs'[i].ci = "passed" /\ runs'[i].built \in i..Len(main)
  <2>1. runs[i].deploy = "none"
    BY <1>2 DEF Inv, DeploymentsPassed, Deploys
  <2>2. Len(main) \in i..Len(main)
    BY <1>1
  <2>. QED BY <1>2, <2>1, <2>2
<1>7. RecordsFollow' /\ OnlyOvertakenLoseTheirRecord'
  BY <1>2, FollowsKeptByMoves, RecordedKeptByMoves
<1>8. PassedAreLocked' /\ DeploymentsPassed'
  BY <1>2, <1>6, LockedKeptByMoves, DeploysKeptByMoves
<1>. QED BY <1>4, <1>5, <1>7, <1>8 DEF Inv

LEMMA DeployKeepsInv ==
  ASSUME Inv, NEW i \in DOMAIN main, deploy_updates(i) \/ deploy_fails(i)
  PROVE  Inv'
<1>1. TypeOK /\ Len(main) \in Nat /\ DOMAIN main = 1..Len(main) /\ app \in DOMAIN main
  BY Known DEF Inv, TypeOK
<1>2. /\ Moves(i) /\ tags' = tags /\ pushes' = pushes
      /\ runs[i].deploy = "queued" /\ runs'[i].ci = runs[i].ci
      /\ runs'[i].built = runs[i].built /\ runs'[i].record = runs[i].record
      /\ app' = runs[i].built \/ app' = app
  BY <1>1, DeployMoves
<1>3. \A j \in DOMAIN main : runs[j].ci = "passed" => runs'[j].ci = "passed"
  BY <1>1, <1>2, Known DEF Moves
<1>4. runs[i].ci = "passed" /\ runs[i].built \in i..Len(main)
  BY <1>2 DEF Inv, DeploymentsPassed, Deploys
<1>5. app' \in DOMAIN main' /\ DeployedIsNotBehind'
  BY <1>2, <1>3, <1>4, AppKept DEF Moves
<1>6. TypeOK'
  BY <1>1, <1>2, <1>5, TypeKept, Known DEF Moves, TypeOK
<1>7. RecordsFollow' /\ OnlyOvertakenLoseTheirRecord'
  BY <1>2, FollowsKeptByMoves, RecordedKeptByMoves
<1>8. PassedAreLocked' /\ DeploymentsPassed'
  BY <1>2, <1>4, LockedKeptByMoves, DeploysKeptByMoves
<1>. QED BY <1>5, <1>6, <1>7, <1>8 DEF Inv

LEMMA OthersKeepInv ==
  ASSUME Inv, NEW i \in DOMAIN main,
         record_is_rejected(i) \/ record_fails(i) \/ release_checks(i) \/ release_creates(i)
  PROVE  Inv'
<1>1. TypeOK /\ Len(main) \in Nat /\ DOMAIN main = 1..Len(main) /\ app \in DOMAIN main
  BY Known DEF Inv, TypeOK
<1>2. /\ Moves(i) /\ app' = app /\ pushes' = pushes
      /\ runs'[i].ci = runs[i].ci /\ runs'[i].built = runs[i].built
      /\ runs'[i].deploy = runs[i].deploy
      /\ \/ tags' = tags
         \/ tags' = [tags EXCEPT ![main[i].version] = i]
      /\ runs[i].record = "pushed" => runs'[i].record = "pushed"
      /\ \/ runs'[i].record = runs[i].record
         \/ runs'[i].record = "rejected" /\ runs[i].record = "queued" /\ Len(main) # i
         \/ runs'[i].record = "failed"
  BY <1>1, RecordMoves, TagMoves
<1>3. \A j \in DOMAIN main : runs[j].ci = "passed" => runs'[j].ci = "passed"
  BY <1>1, <1>2, Known DEF Moves
<1>4. app' \in DOMAIN main' /\ DeployedIsNotBehind'
  BY <1>2, <1>3, AppKept DEF Moves
<1>5. TypeOK'
  <2>1. /\ main' \in Seq(Commit) /\ runs' \in Seq(Runs) /\ Len(runs') = Len(main')
        /\ Len(main') = Len(main) /\ pushes' \in 0..MaxPushes
    BY <1>1, <1>2, Known DEF Moves, TypeOK
  <2>. QED BY <1>1, <1>2, <1>4, <2>1, TypeKept
<1>6. runs'[i].deploy # "none" => runs'[i].ci = "passed" /\ runs'[i].built \in i..Len(main)
  BY <1>2 DEF Inv, DeploymentsPassed, Deploys
<1>7. RecordsFollow'
  BY <1>2, FollowsKeptByMoves
<1>8. OnlyOvertakenLoseTheirRecord'
  BY <1>2, RecordedKeptByMoves
<1>9. PassedAreLocked' /\ DeploymentsPassed'
  BY <1>2, <1>6, LockedKeptByMoves, DeploysKeptByMoves
<1>. QED BY <1>4, <1>5, <1>7, <1>8, <1>9 DEF Inv

LEMMA AddsKeepsInv ==
  ASSUME Inv, NEW c \in Commit, NEW new, Adds(c, new), Extends(c),
         app' = app, tags' = tags, pushes' \in 0..MaxPushes
  PROVE  Inv'
<1>1. TypeOK /\ Len(main) \in Nat /\ DOMAIN main = 1..Len(main) /\ app \in DOMAIN main
  BY Known DEF Inv, TypeOK
<1>2. /\ main' \in Seq(Commit) /\ Len(main') = Len(main) + 1 /\ DOMAIN main' = 1..(Len(main) + 1)
  BY <1>1, AddsKeep
<1>3. DOMAIN main \subseteq DOMAIN main'
  BY <1>1, <1>2
<1>4. app' \in DOMAIN main' /\ DeployedIsNotBehind'
  BY <1>3, AppKept DEF Extends
<1>5. runs' \in Seq(Runs) /\ Len(runs') = Len(main')
  BY <1>1, <1>2, Known DEF Adds
<1>6. TypeOK'
  BY <1>1, <1>2, <1>4, <1>5, TypeKept
<1>. QED BY <1>4, <1>6, FollowsKeptByAdds, RecordedKeptByAdds, RunsKeptByAdds DEF Inv

LEMMA PushKeepsInv ==
  ASSUME Inv, push
  PROVE  Inv'
<1>1. TypeOK /\ Len(main) \in DOMAIN main
  BY NotEmpty DEF Inv
<1>2. /\ app' = app /\ tags' = tags /\ pushes' \in 0..MaxPushes
      /\ \A j \in DOMAIN main : runs'[j] = runs[j]
  BY <1>1, PushAdds
<1>3. PICK c \in Commit : Adds(c, Queued) /\ c.record = NoRecord
  BY <1>1, PushAdds
<1>4. Extends(c)
  BY <1>1, <1>2, <1>3 DEF Extends
<1>. QED BY <1>2, <1>3, <1>4, AddsKeepsInv

LEMMA RecordKeepsInv ==
  ASSUME Inv, NEW i \in DOMAIN main, record_is_pushed(i)
  PROVE  Inv'
<1>. DEFINE c == [main[i] EXCEPT !.record = Record(i)]
<1>1. TypeOK /\ Len(main) \in DOMAIN main
  BY NotEmpty DEF Inv
<1>2. /\ app' = app /\ tags' = tags /\ pushes' = pushes
      /\ i = Len(main) /\ Adds(c, NoRuns)
      /\ \A j \in DOMAIN main : j # i => runs'[j] = runs[j]
      /\ runs'[i].ci = runs[i].ci /\ runs'[i].deploy = runs[i].deploy
      /\ runs'[i].built = runs[i].built /\ runs'[i].record = "pushed"
  BY <1>1, RecordAdds
<1>3. c \in Commit /\ pushes' \in 0..MaxPushes
  BY <1>1, <1>2 DEF Adds, TypeOK
<1>4. Extends(c)
  BY <1>2 DEF Extends
<1>. HIDE DEF c
<1>. QED BY <1>2, <1>3, <1>4, AddsKeepsInv

LEMMA InitInv ==
  ASSUME Init
  PROVE  Inv
<1>1. PICK hash \in Hash :
        /\ main = <<[prompts |-> [p \in Prompt |-> hash], lock |-> [p \in Prompt |-> hash],
                     version |-> 1, record |-> NoRecord]>>
        /\ runs = <<NoRuns>> /\ app = 1
        /\ tags = [v \in Version |-> IF v = 1 THEN 1 ELSE 0]
        /\ pushes = 0
  BY DEF Init
<1>. DEFINE h == [p \in Prompt |-> hash]
            c == [prompts |-> h, lock |-> h, version |-> 1, record |-> NoRecord]
<1>2. h \in Hashes
  BY DEF Hashes
<1>3. 1 \in Version
  BY BoundsAssumption DEF Version
<1>4. c \in Commit /\ c.record = NoRecord
  <2>. HIDE DEF h
  <2>. QED BY <1>2, <1>3, NoRecordIs DEF Commit
<1>5. main = <<c>>
  BY <1>1
<1>. HIDE DEF c, h
<1>6. /\ main \in Seq(Commit) /\ Len(main) = 1 /\ main[1] = c
      /\ runs \in Seq(Runs) /\ Len(runs) = 1 /\ runs[1] = NoRuns
  BY <1>1, <1>4, <1>5, NewRunsAre
<1>7. TypeOK
  <2>1. tags \in [Version -> 0..1]
    BY <1>1
  <2>2. pushes \in 0..MaxPushes
    BY <1>1, BoundsAssumption
  <2>. QED BY <1>1, <1>6, <2>1, <2>2 DEF TypeOK
<1>8. DOMAIN main = {1}
  BY <1>6
<1>9. RecordsFollow /\ PassedAreLocked /\ DeploymentsPassed /\ OnlyOvertakenLoseTheirRecord
  BY <1>4, <1>6, <1>8, NewRunsAre DEF RecordsFollow, Follows, PassedAreLocked, Locked,
     DeploymentsPassed, Deploys, OnlyOvertakenLoseTheirRecord
<1>10. DeployedIsNotBehind
  BY <1>1 DEF DeployedIsNotBehind
<1>. QED BY <1>7, <1>9, <1>10 DEF Inv

LEMMA StutterInv ==
  ASSUME Inv, UNCHANGED vars
  PROVE  Inv'
<1>1. main' = main /\ runs' = runs /\ app' = app /\ tags' = tags /\ pushes' = pushes
  BY DEF vars
<1>2. TypeOK' /\ OnlyOvertakenLoseTheirRecord' /\ DeployedIsNotBehind'
  BY <1>1 DEF Inv, TypeOK, OnlyOvertakenLoseTheirRecord, DeployedIsNotBehind
<1>3. RecordsFollow' /\ PassedAreLocked' /\ DeploymentsPassed'
  BY <1>1 DEF Inv, RecordsFollow, Follows, Record, PassedAreLocked, Locked, DeploymentsPassed, Deploys
<1>. QED BY <1>2, <1>3 DEF Inv

(* The inductive invariant holds. *)
THEOREM PipelineInvariant == Spec => []Inv
<1>1. Inv /\ [Next]_vars => Inv'
  BY CiKeepsInv, DeployKeepsInv, OthersKeepInv, PushKeepsInv, RecordKeepsInv, StutterInv DEF Next
<1>. QED BY <1>1, InitInv, PTL DEF Spec

-------------------------------------------------------------------------------
(* The theorems. *)

(* Every variable stays in its range, for any number of pushes. *)
THEOREM TypeCorrect == Spec => []TypeOK
<1>1. Inv => TypeOK
  BY DEF Inv
<1>. QED BY <1>1, PipelineInvariant, PTL

(* Two builds that passed, both with prompts and with the same lock, have  *)
(* the same prompts (check_prompts.py:38-65).                              *)
THEOREM NoDrift == Spec => []NoSilentDrift
<1>1. Inv => NoSilentDrift
  BY DEF Inv, PassedAreLocked, Locked, NoSilentDrift
<1>. QED BY <1>1, PipelineInvariant, PTL

LEMMA RecordsTrue ==
  ASSUME Inv
  PROVE  RecordsTellTheTruth
<1>. SUFFICES ASSUME NEW k \in DOMAIN main, main[k].record.of # 0
              PROVE  LET record == main[k].record
                         i == record.of
                     IN /\ k = i + 1
                        /\ [main[k] EXCEPT !.record = NoRecord] = [main[i] EXCEPT !.record = NoRecord]
                        /\ (runs[i].ci = "passed" /\ main[i].lock # NoLock /\ main[i].prompts # NoHashes)
                             => record.prompt_hashes = main[i].prompts
  BY DEF RecordsTellTheTruth
<1>. DEFINE i == main[k].record.of
<1>1. TypeOK /\ DOMAIN main = 1..Len(main) /\ Len(main) \in Nat
  BY Known DEF Inv
<1>2. k > 1 /\ main[k] = [main[k - 1] EXCEPT !.record = Record(k - 1)]
  <2>1. main[k].record # NoRecord
    BY NoRecordIs
  <2>. QED BY <2>1 DEF Inv, RecordsFollow, Follows
<1>3. k - 1 \in DOMAIN main
  BY <1>1, <1>2
<1>4. main[k - 1] \in Commit /\ Record(k - 1).of = k - 1
      /\ (main[k - 1].lock # NoLock => Record(k - 1).prompt_hashes = main[k - 1].lock)
  BY <1>1, <1>3, RunIs, RecordIs
<1>5. main[k].record = Record(k - 1)
  BY <1>2, <1>4 DEF Commit
<1>6. i = k - 1
  BY <1>4, <1>5
<1>7. [main[k] EXCEPT !.record = NoRecord] = [main[k - 1] EXCEPT !.record = NoRecord]
  BY <1>2, <1>4 DEF Commit
<1>8. (runs[k - 1].ci = "passed" /\ main[k - 1].lock # NoLock /\ main[k - 1].prompts # NoHashes)
        => main[k].record.prompt_hashes = main[k - 1].prompts
  BY <1>3, <1>4, <1>5 DEF Inv, PassedAreLocked, Locked
<1>9. k = (k - 1) + 1
  BY <1>1
<1>. QED BY <1>6, <1>7, <1>8, <1>9

(* A record sits on the commit it names and tells its prompts              *)
(* (generate_release_record.py:38-41, 92-112).                             *)
THEOREM RecordsAreTrue == Spec => []RecordsTellTheTruth
BY RecordsTrue, PipelineInvariant, PTL

(* A record is lost only to another push (release-record.yml:27-33).       *)
THEOREM OnlyTheOvertaken == Spec => []OnlyOvertakenLoseTheirRecord
<1>1. Inv => OnlyOvertakenLoseTheirRecord
  BY DEF Inv
<1>. QED BY <1>1, PipelineInvariant, PTL

(* What is deployed contains a commit that CI passed (deploy.yml:3-45).    *)
THEOREM DeployedContainsPassed == Spec => []DeployedIsNotBehind
<1>1. Inv => DeployedIsNotBehind
  BY DEF Inv
<1>. QED BY <1>1, PipelineInvariant, PTL

LEMMA TagsSetOnce ==
  ASSUME Inv, Next
  PROVE  \A v \in Version : tags'[v] # tags[v] => tags[v] = 0 /\ main[tags'[v]].version = v
<1>1. TypeOK
  BY DEF Inv
<1>2. CASE tags' = tags
  BY <1>2
<1>3. ASSUME NEW i \in DOMAIN main, release_checks(i) \/ release_creates(i), tags' # tags
      PROVE  \A v \in Version : tags'[v] # tags[v] => tags[v] = 0 /\ main[tags'[v]].version = v
  <2>1. tags[main[i].version] = 0 /\ tags' = [tags EXCEPT ![main[i].version] = i]
    BY <1>1, <1>3, TagMoves
  <2>2. \A v \in Version : v # main[i].version => tags'[v] = tags[v]
    BY <1>1, <2>1 DEF TypeOK
  <2>3. main[i].version \in Version => tags'[main[i].version] = i
    BY <1>1, <2>1 DEF TypeOK
  <2>. QED BY <2>1, <2>2, <2>3
<1>4. tags' = tags \/ \E i \in DOMAIN main : release_checks(i) \/ release_creates(i)
  BY DEF Next, push, ci_ends, deploy_updates, deploy_fails, record_is_pushed, record_is_rejected, record_fails
<1>. QED BY <1>2, <1>3, <1>4

(* A tag is set once, and to a commit of its version (release.yml:28-46).  *)
THEOREM TagsNeverMove == Spec => TagsAreStable
<1>1. Inv /\ [Next]_vars =>
        [\A v \in Version :
           tags'[v] # tags[v] => tags[v] = 0 /\ main[tags'[v]].version = v]_vars
  BY TagsSetOnce
<1>. QED BY <1>1, PipelineInvariant, PTL DEF Spec, TagsAreStable

===============================================================================
