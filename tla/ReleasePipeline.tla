---------------------------- MODULE ReleasePipeline ----------------------------
(***************************************************************************)
(* What a push to main sets in motion: CI with the prompt check            *)
(* (.github/workflows/ci.yml, scripts/check_prompts.py), the deployment CI *)
(* triggers (deploy.yml), the release record committed back to main        *)
(* (release-record.yml, scripts/generate_release_record.py) and the tag of *)
(* a new version (release.yml).  The runs of one push and of the next are  *)
(* concurrent: no workflow has a concurrency group.                        *)
(*                                                                         *)
(* A commit is its place on main, where history is linear.  A prompt's     *)
(* hash stands for its text.  A lock maps prompts to hashes.               *)
(***************************************************************************)
EXTENDS Integers, Sequences, SequencesExt

CONSTANTS Prompt,       \* the file names in agent/prompts/
          Hash,
          Absent,       \* marks a file that is not there, or not in the lock
          NoLock,       \* prompts.lock does not exist
          MaxVersion,   \* bound on the versions in pyproject.toml
          MaxPushes     \* bound on the pushes by developers

Hashes == [Prompt -> Hash \cup {Absent}]

ASSUME AbsenceAssumption == Absent \notin Hash /\ NoLock \notin Hashes
ASSUME BoundsAssumption == MaxVersion \in Nat \ {0} /\ MaxPushes \in Nat

VARIABLES main,     \* the commits of main
          runs,     \* for each commit, the workflow runs its push started
          app,      \* the commit whose image the container app runs
          tags,     \* version -> the commit tagged with it, or 0
          pushes    \* pushes by developers so far

vars == <<main, runs, app, tags, pushes>>

Version == 1..MaxVersion

NoHashes == [p \in Prompt |-> Absent]

(* A release record names a commit and the hashes its lock holds. *)
NoRecord == [of |-> 0, prompt_hashes |-> NoHashes]

(* `built' is github.sha in the deployment: the head of main when CI ended. *)
NoRuns == [ci |-> "none", deploy |-> "none", built |-> 0, record |-> "none", tag |-> "none"]
Queued == [NoRuns EXCEPT !.ci = "queued", !.record = "queued", !.tag = "queued"]

-------------------------------------------------------------------------------
(* check_prompts.py. *)

New(prompts, lock) == {p \in Prompt : prompts[p] # Absent /\ lock[p] = Absent}

Changed(prompts, lock) ==
  {p \in Prompt : prompts[p] # Absent /\ lock[p] \notin {Absent, prompts[p]}}

Deleted(prompts, lock) == {p \in Prompt : prompts[p] = Absent /\ lock[p] # Absent}

(* Mutants: a changed prompt, a deleted one, is not an error. *)
ErrorsButChanged(prompts, lock) == New(prompts, lock) \cup Deleted(prompts, lock)
ErrorsButDeleted(prompts, lock) == New(prompts, lock) \cup Changed(prompts, lock)

Errors(prompts, lock) ==
  New(prompts, lock) \cup Changed(prompts, lock) \cup Deleted(prompts, lock)

(* Without prompts the check is skipped; without a lock it writes one, in  *)
(* the checkout of the job, and passes.                                    *)
PromptsPass(commit) ==
  (commit.prompts # NoHashes /\ commit.lock # NoLock)
    => Errors(commit.prompts, commit.lock) = {}

(* update_prompts_lock.py, which refuses an empty directory. *)
UpdatedLock(prompts, lock) == IF prompts = NoHashes THEN lock ELSE prompts

-------------------------------------------------------------------------------
(* A released repository at rest, its prompts locked. *)
Init ==
  \E hash \in Hash :
    LET commit == [prompts |-> [p \in Prompt |-> hash], lock |-> [p \in Prompt |-> hash],
                   version |-> 1, record |-> NoRecord]
    IN /\ main = <<commit>>
       /\ runs = <<NoRuns>>
       /\ app = 1
       /\ tags = [v \in Version |-> IF v = 1 THEN 1 ELSE 0]
       /\ pushes = 0

(* A developer pushes a commit on top of the head of main: one prompt or   *)
(* none is edited, added or removed, the lock is left, updated or removed, *)
(* the version is left or raised.                                          *)
push ==
  /\ pushes < MaxPushes
  /\ pushes' = pushes + 1
  /\ LET old == Last(main) IN
     \E p \in Prompt, hash \in Hash \cup {Absent} :
       LET prompts == [old.prompts EXCEPT ![p] = hash] IN
       \E lock \in {old.lock, UpdatedLock(prompts, old.lock), NoLock},
          version \in {old.version, old.version + 1} \cap Version :
         main' = Append(main, [prompts |-> prompts, lock |-> lock, version |-> version,
                               record |-> NoRecord])
  /\ runs' = Append(runs, Queued)
  /\ UNCHANGED <<app, tags>>

(* Mutant: the deployment follows every completed run of CI. *)
ci_completes(i) ==
  /\ runs[i].ci = "queued"
  /\ \E conclusion \in {"passed", "failed"} :
       /\ conclusion = "passed" => PromptsPass(main[i])
       /\ runs' = [runs EXCEPT ![i].ci = conclusion, ![i].deploy = "queued",
                               ![i].built = Len(main)]
  /\ UNCHANGED <<main, app, tags, pushes>>

(* Mutant: the event does not carry a commit. *)
ci_ends_headless(i) ==
  /\ runs[i].ci = "queued"
  /\ \/ /\ PromptsPass(main[i])
        /\ runs' = [runs EXCEPT ![i].ci = "passed", ![i].deploy = "queued"]
     \/ runs' = [runs EXCEPT ![i].ci = "failed"]
  /\ UNCHANGED <<main, app, tags, pushes>>

(* CI ends on the commit it was started for; any other of its jobs may     *)
(* fail.  The event its success sends to deploy.yml carries the head main  *)
(* has by then.                                                            *)
ci_ends(i) ==
  /\ runs[i].ci = "queued"
  /\ \/ /\ PromptsPass(main[i])
        /\ runs' = [runs EXCEPT ![i].ci = "passed", ![i].deploy = "queued",
                                ![i].built = Len(main)]
     \/ runs' = [runs EXCEPT ![i].ci = "failed"]
  /\ UNCHANGED <<main, app, tags, pushes>>

(* The image is built, pushed and made the app's single revision; a health *)
(* check that fails afterwards rolls nothing back.                         *)
deploy_updates(i) ==
  /\ runs[i].deploy = "queued"
  /\ app' = runs[i].built
  /\ runs' = [runs EXCEPT ![i].deploy = "updated"]
  /\ UNCHANGED <<main, tags, pushes>>

(* The login, the build or the update fails. *)
deploy_fails(i) ==
  /\ runs[i].deploy = "queued"
  /\ runs' = [runs EXCEPT ![i].deploy = "failed"]
  /\ UNCHANGED <<main, app, tags, pushes>>

(* generate_release_record.py in the checkout of commit i. *)
Record(i) ==
  [of |-> i, prompt_hashes |-> IF main[i].lock = NoLock THEN NoHashes ELSE main[i].lock]

(* Mutant: the record is rebased onto whatever main has become. *)
record_rebases(i) ==
  /\ runs[i].record = "queued"
  /\ main' = Append(main, [Last(main) EXCEPT !.record = Record(i)])
  /\ runs' = Append([runs EXCEPT ![i].record = "pushed"], NoRuns)
  /\ UNCHANGED <<app, tags, pushes>>

(* The record is committed on top of commit i and pushed, which git only   *)
(* accepts while that is the head.  A push by the workflow's own token     *)
(* starts no workflows.                                                    *)
record_is_pushed(i) ==
  /\ runs[i].record = "queued"
  /\ Len(main) = i
  /\ main' = Append(main, [main[i] EXCEPT !.record = Record(i)])
  /\ runs' = Append([runs EXCEPT ![i].record = "pushed"], NoRuns)
  /\ UNCHANGED <<app, tags, pushes>>

record_is_rejected(i) ==
  /\ runs[i].record = "queued"
  /\ Len(main) # i
  /\ runs' = [runs EXCEPT ![i].record = "rejected"]
  /\ UNCHANGED <<main, app, tags, pushes>>

(* The installation or the export of the agent spec fails. *)
record_fails(i) ==
  /\ runs[i].record = "queued"
  /\ runs' = [runs EXCEPT ![i].record = "failed"]
  /\ UNCHANGED <<main, app, tags, pushes>>

(* release.yml looks for the tag in its checkout, and later creates it. *)
release_checks(i) ==
  /\ runs[i].tag = "queued"
  /\ runs' = [runs EXCEPT ![i].tag = IF tags[main[i].version] = 0 THEN "missing" ELSE "exists"]
  /\ UNCHANGED <<main, app, tags, pushes>>

(* Mutant: the tag is pushed with force. *)
release_creates_anyway(i) ==
  /\ runs[i].tag = "missing"
  /\ tags' = [tags EXCEPT ![main[i].version] = i]
  /\ runs' = [runs EXCEPT ![i].tag = "created"]
  /\ UNCHANGED <<main, app, pushes>>

(* git rejects a tag that another run has created in the meantime. *)
release_creates(i) ==
  /\ runs[i].tag = "missing"
  /\ IF tags[main[i].version] = 0
     THEN /\ tags' = [tags EXCEPT ![main[i].version] = i]
          /\ runs' = [runs EXCEPT ![i].tag = "created"]
     ELSE /\ runs' = [runs EXCEPT ![i].tag = "rejected"]
          /\ UNCHANGED tags
  /\ UNCHANGED <<main, app, pushes>>

Next ==
  \/ push
  \/ \E i \in DOMAIN main :
       \/ ci_ends(i) \/ deploy_updates(i) \/ deploy_fails(i)
       \/ record_is_pushed(i) \/ record_is_rejected(i) \/ record_fails(i)
       \/ release_checks(i) \/ release_creates(i)

Spec == Init /\ [][Next]_vars

-------------------------------------------------------------------------------
Commit == [prompts : Hashes, lock : Hashes \cup {NoLock}, version : Version,
           record : [of : Nat, prompt_hashes : Hashes]]

Runs == [ci : {"none", "queued", "passed", "failed"},
         deploy : {"none", "queued", "updated", "failed"},
         built : Nat,
         record : {"none", "queued", "pushed", "rejected", "failed"},
         tag : {"none", "queued", "missing", "exists", "created", "rejected"}]

TypeOK ==
  /\ main \in Seq(Commit)
  /\ runs \in Seq(Runs) /\ Len(runs) = Len(main)
  /\ app \in DOMAIN main
  /\ tags \in [Version -> 0..Len(main)]
  /\ pushes \in 0..MaxPushes

(* Between two builds that pass, both with prompts and a lock, no prompt   *)
(* is edited, added or removed without a change of the lock, however many  *)
(* pushes lie between them (check_prompts.py:38-65, qa-review.md:252-256). *)
NoSilentDrift ==
  LET Checked == {i \in DOMAIN main : /\ runs[i].ci = "passed"
                                      /\ main[i].prompts # NoHashes
                                      /\ main[i].lock # NoLock}
  IN \A i, j \in Checked :
       main[i].prompts # main[j].prompts => main[i].lock # main[j].lock

(* A record on main directly follows the commit it names and changes       *)
(* nothing else, and if that commit has a lock and prompts and passed CI,  *)
(* the hashes on record are those of its prompts                           *)
(* (generate_release_record.py:38-41, 92-112, release-record.yml:27-33).   *)
RecordsTellTheTruth ==
  \A k \in DOMAIN main :
    LET record == main[k].record
        i == record.of
    IN i # 0 =>
         /\ k = i + 1
         /\ [main[k] EXCEPT !.record = NoRecord] = [main[i] EXCEPT !.record = NoRecord]
         /\ (runs[i].ci = "passed" /\ main[i].lock # NoLock /\ main[i].prompts # NoHashes)
              => record.prompt_hashes = main[i].prompts

(* A commit whose record was rejected is followed on main by another push, *)
(* and one whose record was pushed by that record: a commit at the head,   *)
(* or followed by a record of another, never lost its own to a race        *)
(* (release-record.yml:27-33).                                             *)
OnlyOvertakenLoseTheirRecord ==
  \A i \in DOMAIN main :
    /\ runs[i].record = "rejected" => i < Len(main) /\ main[i + 1].record = NoRecord
    /\ runs[i].record = "pushed" => i < Len(main) /\ main[i + 1].record.of = i

(* Once the app was updated it contains a commit that passed CI after the  *)
(* start: a run that failed deploys nothing, and one that passed deploys   *)
(* its commit or a later one (deploy.yml:3-17, 33-45).                     *)
DeployedIsNotBehind ==
  app # 1 => \E i \in 1..app : runs[i].ci = "passed"

(* A version's tag is set once, to a commit of that version, also when two *)
(* runs found it missing (release.yml:28-46).                              *)
TagsAreStable ==
  [][\A v \in Version :
       tags'[v] # tags[v] => tags[v] = 0 /\ main[tags'[v]].version = v]_vars

-------------------------------------------------------------------------------
(* What the documents say and the workflows do not do.                     *)

(* When a prompt has changed, no deployment can happen until the lock is   *)
(* updated (docs/qa-review.md:252-254).                                    *)
DeployedPromptsAreLocked ==
  main[app].prompts # main[1].prompts => main[app].lock = main[app].prompts

===============================================================================
