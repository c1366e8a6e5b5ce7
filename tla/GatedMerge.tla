------------------------------ MODULE GatedMerge ------------------------------
(***************************************************************************)
(* run_parallel_tasks of equipa/dispatch.py on a git project: agents work  *)
(* on forge-task branches at the same time, each branch is reviewed, then  *)
(* one branch after the other goes through _gated_merge_task onto the      *)
(* default branch, the statuses are written, and the worktrees cleaned up. *)
(*                                                                         *)
(* Three other writers act between any two steps: an agent's process that  *)
(* still commits to its branch, someone who commits to the default branch  *)
(* or resets it, and the operator who signals or kills the orchestrator.   *)
(*                                                                         *)
(* A branch is the sequence of commits on it, so that a SHA is a sequence  *)
(* and "is an ancestor of" is "is a prefix of".  The default branch is a   *)
(* sequence too: of the orchestrator's merges and of other commits.  What  *)
(* a commit contains is only whether it is code.                           *)
(***************************************************************************)
EXTENDS Integers, FiniteSets, SequencesExt

CONSTANTS
  Tasks,                  \* the task ids given to --tasks
  Nobody,                 \* no task: who made a commit the orchestrator did not
  MaxConcurrent,          \* max_concurrent of the dispatch
  SecurityReviewEnabled,  \* the operator's feature flags
  BlockOnMissing,
  MaxCommits,             \* bound: commits made on all task branches
  MaxMoves,               \* bound: moves of the default branch by others
  MaxRuns                 \* bound: dispatches of these tasks; a crash in the last one
                          \* would be followed by nothing, and is left out

ASSUME NobodyAssumption == Nobody \notin Tasks
ASSUME BoundsAssumption ==
  /\ MaxConcurrent \in Nat \ {0}
  /\ {MaxCommits, MaxMoves, MaxRuns} \subseteq Nat
  /\ {SecurityReviewEnabled, BlockOnMissing} \subseteq BOOLEAN

VARIABLES
  main,      \* the default branch
  branch,    \* the forge-task branch of each task
  row,       \* the tasks rows: [status, merged]
  phase,     \* where the orchestrator is in run_parallel_tasks
  guard,     \* its DefaultBranchGuard
  job,       \* its record of each task, with the task's ReviewerRunRecord
  gate,      \* its progress inside _gated_merge_task
  shutdown,  \* the signal a MergeSignalShield deferred: the task being merged
  seen,      \* the default branch as the end-of-run check saw it
  spent      \* how much of each bound is used

repository == <<main, branch>>
memory == <<phase, guard, job, gate, shutdown, seen>>
vars == <<main, branch, row, phase, guard, job, gate, shutdown, seen, spent>>

Commit == [number : 1 .. MaxCommits, code : BOOLEAN]
Entry == [by : Tasks \cup {Nobody}, sha : Seq(Commit), number : 0 .. MaxMoves]
NoBranch == [exists |-> FALSE, fork |-> <<>>, commits |-> <<>>]

Phases == {"start", "worktrees", "running", "merging", "writing", "cleaning",
           "over", "dead"}
Stages == {"new", "refused", "waiting", "agent", "ended", "reviewing", "reviewed",
           "deferred", "over", "raised", "settled"}
\* The outcomes of the dev-test loop, as far as the dispatcher tells them apart.
Outcomes == {"none", "tests_passed", "no_changes", "failed",
             "no_changes_contradicted", "security_review_blocked"}
\* A review that reports a CRITICAL or HIGH finding, fails, or leaves no artifact
\* of its own blocks; one whose artifact has no findings table is unparseable.
Verdicts == {"none", "running", "clean", "blocking", "unparseable"}
Results == {"none", "blocked", "merge_failed", "merged", "noop"}
GateSteps == {"idle", "approved", "verified", "merging", "merged", "conflicted",
              "rebased", "forwarded", "landed", "unlanded"}
Statuses == {"todo", "in_progress", "done", "blocked"}

Branch == [exists : BOOLEAN, fork : Seq(Entry), commits : Seq(Commit)]
Row == [status : Statuses, merged : Seq(Commit)]
Guard == [pinned : BOOLEAN, baseline : Seq(Entry), expected : Seq(Entry), tripped : BOOLEAN]
Review == [verdict : Verdicts, sha : Seq(Commit), end : Seq(Commit), clean : BOOLEAN]
Job == [stage : Stages, outcome : Outcomes, review : Review, result : Results,
        sha : Seq(Commit)]
Gate == [task : Tasks \cup {Nobody}, step : GateSteps, sha : Seq(Commit),
         pre : Seq(Entry), post : Seq(Entry)]

NoReview == [verdict |-> "none", sha |-> <<>>, end |-> <<>>, clean |-> FALSE]
NewJob == [stage |-> "new", outcome |-> "none", review |-> NoReview,
           result |-> "none", sha |-> <<>>]
IdleGate == [task |-> Nobody, step |-> "idle", sha |-> <<>>, pre |-> <<>>, post |-> <<>>]
NoGuard == [pinned |-> FALSE, baseline |-> <<>>, expected |-> <<>>, tripped |-> FALSE]

Init ==
  /\ main = <<>>
  /\ branch = [t \in Tasks |-> NoBranch]
  /\ row = [t \in Tasks |-> [status |-> "todo", merged |-> <<>>]]
  /\ phase = "start"
  /\ guard = NoGuard
  /\ job = [t \in Tasks |-> NewJob]
  /\ gate = IdleGate
  /\ shutdown = {}
  /\ seen = <<>>
  /\ spent = [commits |-> 0, moves |-> 0, runs |-> 1]

\* The default branch after the merge of commit sha of task t onto history.
Merge(history, t, sha) == Append(history, [by |-> t, sha |-> sha, number |-> 0])

\* Commit sha of t's branch is in the history: by a merge that brought it, or as
\* the fork point (which brings commits of others when they are gone from the
\* default branch by then).
Landed(t, sha, history) ==
  \/ sha = <<>> /\ IsPrefix(branch[t].fork, history)
  \/ \E i \in DOMAIN history :
       /\ history[i].by = t /\ IsPrefix(sha, history[i].sha)
       /\ sha = <<>> => history[i].sha = <<>>

\* is_doc_only_diff: no diff is not doc-only, and commits of others that only
\* the fork point holds count as code.
DocOnly(t, sha, history) ==
  /\ sha # <<>>
  /\ \A i \in DOMAIN sha : ~sha[i].code
  /\ IsPrefix(branch[t].fork, history)

\* DefaultBranchGuard.verify: a check trips the guard for the rest of the run.
Intact == ~guard.tripped /\ main = guard.expected
Verify == guard' = [guard EXCEPT !.tripped = @ \/ (guard.pinned /\ main # guard.expected)]

-----------------------------------------------------------------------------
(* Before the agents run.                                                  *)

\* DefaultBranchGuard.snapshot: without a pinned branch nothing is merged.
PinDefaultBranch(pinned) ==
  /\ phase = "start"
  /\ phase' = "worktrees"
  /\ guard' = IF pinned THEN [pinned |-> TRUE, baseline |-> main, expected |-> main,
                              tripped |-> FALSE]
              ELSE NoGuard
  /\ UNCHANGED <<repository, row, job, gate, shutdown, seen, spent>>

\* _create_isolation_worktrees: an existing branch refuses the task, and so may
\* a git error, whose command may have made the branch.  The main checkout is on
\* the default branch.
CreateWorktree(t) ==
  LET made == [branch EXCEPT ![t] = [exists |-> TRUE, fork |-> main, commits |-> <<>>]] IN
  /\ phase = "worktrees" /\ job[t].stage = "new"
  /\ \/ ~branch[t].exists /\ branch' = made /\ job' = [job EXCEPT ![t].stage = "waiting"]
     \/ /\ branch' = branch \/ (~branch[t].exists /\ branch' = made)
        /\ job' = [job EXCEPT ![t].stage = "refused"]
  /\ UNCHANGED <<main, row, phase, guard, gate, shutdown, seen, spent>>

StartAgents ==
  /\ phase = "worktrees" /\ \A t \in Tasks : job[t].stage # "new"
  /\ phase' = "running"
  /\ UNCHANGED <<repository, row, guard, job, gate, shutdown, seen, spent>>

-----------------------------------------------------------------------------
(* The tasks, each in an asyncio task of its own.                          *)

Eligible(t) == job[t].outcome = "tests_passed"
InSemaphore == {t \in Tasks : job[t].stage \in {"agent", "ended", "reviewing", "reviewed"}}

\* _refuse_task_without_worktree, or the start of the dev-test loop.
StartTask(t) ==
  /\ phase = "running"
  /\ \/ /\ job[t].stage = "refused"
        /\ job' = [job EXCEPT ![t].stage = "settled"]
        /\ row' = [row EXCEPT ![t] = [status |-> "blocked", merged |-> <<>>]]
     \/ /\ job[t].stage = "waiting" /\ Cardinality(InSemaphore) < MaxConcurrent
        /\ job' = [job EXCEPT ![t].stage = "agent"]
        /\ row' = [row EXCEPT ![t].status = "in_progress"]
  /\ UNCHANGED <<repository, phase, guard, gate, shutdown, seen, spent>>

AgentEnds(t, outcome) ==
  /\ phase = "running" /\ job[t].stage = "agent"
  /\ job' = [job EXCEPT ![t].stage = "ended", ![t].outcome = outcome]
  /\ UNCHANGED <<repository, row, phase, guard, gate, shutdown, seen, spent>>

\* An exception leaves the task as it is: gather collects it.
TaskRaises(t) ==
  /\ phase = "running" /\ t \in InSemaphore
  /\ job' = [job EXCEPT ![t].stage = "raised"]
  /\ UNCHANGED <<repository, row, phase, guard, gate, shutdown, seen, spent>>

\* _no_changes_claim_problem: commits on the branch, or uncommitted work.
CheckClaim(t, dirty) ==
  LET true == ~dirty /\ guard.pinned /\ Landed(t, branch[t].commits, guard.expected) IN
  /\ phase = "running" /\ job[t].stage = "ended" /\ job[t].outcome = "no_changes"
  /\ job' = [job EXCEPT ![t].stage = "reviewed",
                        ![t].outcome = IF true THEN @ ELSE "no_changes_contradicted"]
  /\ UNCHANGED <<repository, row, phase, guard, gate, shutdown, seen, spent>>

\* review_task_branch without a reviewer: nothing to merge, the feature is off,
\* or the diff is doc-only.
SkipReview(t) ==
  /\ phase = "running" /\ job[t].stage = "ended" /\ job[t].outcome # "no_changes"
  /\ ~Eligible(t) \/ ~SecurityReviewEnabled \/ DocOnly(t, branch[t].commits, main)
  /\ job' = [job EXCEPT ![t].stage = "reviewed"]
  /\ UNCHANGED <<repository, row, phase, guard, gate, shutdown, seen, spent>>

\* The reviewer starts on whatever the branch holds by now.
StartReview(t, clean) ==
  /\ phase = "running" /\ job[t].stage = "ended" /\ Eligible(t)
  /\ SecurityReviewEnabled /\ ~DocOnly(t, branch[t].commits, main)
  /\ job' = [job EXCEPT ![t].stage = "reviewing",
                        ![t].review = [verdict |-> "running", sha |-> branch[t].commits,
                                       end |-> <<>>, clean |-> clean]]
  /\ UNCHANGED <<repository, row, phase, guard, gate, shutdown, seen, spent>>

\* An unparseable review blocks unless the operator chose otherwise.
EndReview(t, verdict) ==
  LET passes == verdict = "clean" \/ (verdict = "unparseable" /\ ~BlockOnMissing) IN
  /\ phase = "running" /\ job[t].stage = "reviewing"
  /\ job' = [job EXCEPT ![t].stage = "reviewed", ![t].review.verdict = verdict,
                        ![t].review.end = branch[t].commits,
                        ![t].outcome = IF passes THEN @ ELSE "security_review_blocked"]
  /\ UNCHANGED <<repository, row, phase, guard, gate, shutdown, seen, spent>>

\* The after-agent check; then a status, unless it waits for the merge.
FinishTask(t) ==
  /\ phase = "running" /\ job[t].stage = "reviewed"
  /\ Verify
  /\ IF Eligible(t)
     THEN job' = [job EXCEPT ![t].stage = "deferred"] /\ UNCHANGED row
     ELSE /\ job' = [job EXCEPT ![t].stage = "over"]
          /\ row' = IF job[t].outcome = "no_changes" THEN [row EXCEPT ![t].status = "done"]
                    ELSE [row EXCEPT ![t] = [status |-> "blocked", merged |-> <<>>]]
  /\ UNCHANGED <<repository, phase, gate, shutdown, seen, spent>>

\* Mutant of Gather: without a pinned branch the statuses are skipped too.
GatherUnpinned ==
  /\ phase = "running"
  /\ \A t \in Tasks : job[t].stage \in {"deferred", "over", "raised", "settled"}
  /\ phase' = IF guard.pinned THEN "merging" ELSE "cleaning"
  /\ UNCHANGED <<repository, row, guard, job, gate, shutdown, seen, spent>>

Gather ==
  /\ phase = "running"
  /\ \A t \in Tasks : job[t].stage \in {"deferred", "over", "raised", "settled"}
  /\ phase' = IF guard.pinned THEN "merging" ELSE "writing"
  /\ UNCHANGED <<repository, row, guard, job, gate, shutdown, seen, spent>>

-----------------------------------------------------------------------------
(* _gated_merge_task, for one deferred task at a time.                     *)

\* The task is done with: its MergeOutcome, and the SHA of a done one.
Conclude(t, result, sha) ==
  /\ job' = [job EXCEPT ![t].result = result, ![t].sha = sha]
  /\ gate' = IdleGate

\* decide_merge_gate on the pinned commit, then reviewed_commit_refusal.
ReviewPasses(t) ==
  job[t].review.verdict = "clean" \/ (job[t].review.verdict = "unparseable" /\ ~BlockOnMissing)
\* Mutant of ReviewedCommit: the branch may have moved after the review.
ReviewedSomeCommit(t, sha) == LET r == job[t].review IN r.clean /\ r.end = r.sha

ReviewedCommit(t, sha) ==
  LET r == job[t].review IN r.clean /\ r.end = r.sha /\ sha = r.sha
ExpectArtifact(t, sha) == SecurityReviewEnabled /\ ~DocOnly(t, sha, guard.expected)
Approves(t, sha) == ExpectArtifact(t, sha) => ReviewPasses(t) /\ ReviewedCommit(t, sha)

\* Pins the branch, and decides; a repository hazard blocks as well.
GateTask(t, hazard) ==
  LET sha == branch[t].commits IN
  /\ phase = "merging" /\ gate.step = "idle"
  /\ job[t].stage = "deferred" /\ job[t].result = "none"
  /\ IF hazard THEN UNCHANGED guard ELSE Verify
  /\ IF hazard \/ ~Intact \/ ~Approves(t, sha) THEN Conclude(t, "blocked", <<>>)
     ELSE IF Landed(t, sha, guard.expected) THEN Conclude(t, "noop", sha)
     ELSE /\ gate' = [IdleGate EXCEPT !.task = t, !.step = "approved", !.sha = sha]
          /\ UNCHANGED job
  /\ UNCHANGED <<repository, row, phase, shutdown, seen, spent>>

\* Mutant of VerifyBeforeMerge: a shutdown is left to the end of the run.
VerifyBeforeMergeOnly(t) ==
  /\ phase = "merging" /\ gate.task = t /\ gate.step = "approved"
  /\ Verify
  /\ IF ~Intact THEN Conclude(t, "blocked", <<>>)
     ELSE gate' = [gate EXCEPT !.step = "verified"] /\ UNCHANGED job
  /\ UNCHANGED <<repository, row, phase, shutdown, seen, spent>>

\* The second check, then the shutdown check.
VerifyBeforeMerge(t) ==
  /\ phase = "merging" /\ gate.task = t /\ gate.step = "approved"
  /\ Verify
  /\ IF ~Intact THEN Conclude(t, "blocked", <<>>)
     ELSE IF shutdown # {} THEN Conclude(t, "merge_failed", <<>>)
     ELSE gate' = [gate EXCEPT !.step = "verified"] /\ UNCHANGED job
  /\ UNCHANGED <<repository, row, phase, shutdown, seen, spent>>

\* _merge_task_branch: the defensive invariant, then a main checkout git cannot
\* merge into, then the HEAD the merge starts from.
BeginMerge(t, ready) ==
  /\ phase = "merging" /\ gate.task = t /\ gate.step = "verified"
  /\ IF ExpectArtifact(t, gate.sha) /\ job[t].review.verdict # "clean"
     THEN Conclude(t, "blocked", <<>>)
     ELSE /\ gate' = IF ready THEN [gate EXCEPT !.step = "merging", !.pre = main]
                     ELSE [gate EXCEPT !.step = "unlanded"]
          /\ UNCHANGED job
  /\ UNCHANGED <<repository, row, phase, guard, shutdown, seen, spent>>

\* git merge <sha>: it lands, possibly after its conflicts in generated files
\* were regenerated; it conflicts and is aborted; or it times out, landed or not.
GitMerge(t, lands, step) ==
  /\ phase = "merging" /\ gate.task = t /\ gate.step = "merging"
  /\ step \in IF lands THEN {"merged", "unlanded"} ELSE {"conflicted", "unlanded"}
  /\ main' = IF lands THEN Merge(main, t, gate.sha) ELSE main
  /\ gate' = [gate EXCEPT !.step = step]
  /\ UNCHANGED <<branch, row, phase, guard, job, shutdown, seen, spent>>

\* The fallback, in the task's worktree: only the approved commit is rebased.
Rebase(t, works) ==
  /\ phase = "merging" /\ gate.task = t /\ gate.step = "conflicted"
  /\ gate' = [gate EXCEPT !.step =
                IF works /\ shutdown = {} /\ branch[t].commits = gate.sha
                THEN "rebased" ELSE "unlanded"]
  /\ UNCHANGED <<repository, row, phase, guard, job, shutdown, seen, spent>>

\* git merge --ff-only lands only where the rebase started; it may time out too.
FastForward(t, lands, step) ==
  /\ phase = "merging" /\ gate.task = t /\ gate.step = "rebased"
  /\ lands => main = gate.pre
  /\ step \in IF lands THEN {"forwarded", "unlanded"} ELSE {"unlanded"}
  /\ main' = IF lands THEN Merge(main, t, gate.sha) ELSE main
  /\ gate' = [gate EXCEPT !.step = step]
  /\ UNCHANGED <<branch, row, phase, guard, job, shutdown, seen, spent>>

\* HEAD after the merge, if git answers: it must have moved, and to the rebased
\* commit.
ReadHead(t, answers) ==
  LET moved == IF gate.step = "forwarded" THEN main = Merge(gate.pre, t, gate.sha)
               ELSE main # gate.pre IN
  /\ phase = "merging" /\ gate.task = t /\ gate.step \in {"merged", "forwarded"}
  /\ gate' = IF answers /\ moved THEN [gate EXCEPT !.step = "landed", !.post = main]
             ELSE [gate EXCEPT !.step = "unlanded"]
  /\ UNCHANGED <<repository, row, phase, guard, job, shutdown, seen, spent>>

\* Mutant of RecordMerge: the parents of the new tip are not looked at.
RecordMergeAtHead(t) ==
  /\ phase = "merging" /\ gate.task = t /\ gate.step = "landed"
  /\ guard' = IF main = gate.post THEN [guard EXCEPT !.expected = main]
              ELSE [guard EXCEPT !.tripped = TRUE]
  /\ IF main = gate.post THEN Conclude(t, "merged", gate.sha) ELSE Conclude(t, "blocked", <<>>)
  /\ UNCHANGED <<repository, row, phase, shutdown, seen, spent>>

\* DefaultBranchGuard.record_merge: the branch is where the merge left it, and
\* that is exactly this merge on top of the expected commit.
RecordMerge(t) ==
  LET legitimate == main = gate.post /\ main = Merge(guard.expected, t, gate.sha) IN
  /\ phase = "merging" /\ gate.task = t /\ gate.step = "landed"
  /\ guard' = IF legitimate THEN [guard EXCEPT !.expected = main]
              ELSE [guard EXCEPT !.tripped = TRUE]
  /\ IF legitimate THEN Conclude(t, "merged", gate.sha) ELSE Conclude(t, "blocked", <<>>)
  /\ UNCHANGED <<repository, row, phase, shutdown, seen, spent>>

VerifyAfterFailure(t) ==
  /\ phase = "merging" /\ gate.task = t /\ gate.step = "unlanded"
  /\ Verify
  /\ Conclude(t, IF Intact THEN "merge_failed" ELSE "blocked", <<>>)
  /\ UNCHANGED <<repository, row, phase, shutdown, seen, spent>>

\* A check that cannot read the default branch, or a git call that finds another
\* repository than the pinned one, trips the guard.
FailCheck ==
  /\ guard.pinned
  /\ phase \in {"running", "merging"} /\ gate.step = "idle"
  /\ guard' = [guard EXCEPT !.tripped = TRUE]
  /\ UNCHANGED <<repository, row, phase, job, gate, shutdown, seen, spent>>

FailCheckInMerge(t) ==
  /\ phase = "merging" /\ gate.task = t /\ gate.step # "idle"
  /\ guard' = [guard EXCEPT !.tripped = TRUE]
  /\ Conclude(t, "blocked", <<>>)
  /\ UNCHANGED <<repository, row, phase, shutdown, seen, spent>>

-----------------------------------------------------------------------------
(* After the merges.                                                       *)

\* Mutant of VerifyEndOfRun: the statuses rely on the check after each merge.
EndMerges ==
  /\ phase = "merging" /\ gate.step = "idle"
  /\ \A t \in Tasks : job[t].stage = "deferred" => job[t].result # "none"
  /\ seen' = main
  /\ phase' = "writing"
  /\ UNCHANGED <<repository, row, guard, job, gate, shutdown, spent>>

VerifyEndOfRun ==
  /\ phase = "merging" /\ gate.step = "idle"
  /\ \A t \in Tasks : job[t].stage = "deferred" => job[t].result # "none"
  /\ Verify
  /\ seen' = main
  /\ phase' = "writing"
  /\ UNCHANGED <<repository, row, job, gate, shutdown, spent>>

\* outcome_after_merge and update_task_status.
IsDone(t) == guard.pinned /\ ~guard.tripped /\ job[t].result \in {"merged", "noop"}

\* Mutant of WriteStatus: the merge's result is taken for a status.
WriteResult(t) ==
  /\ phase = "writing" /\ job[t].stage = "deferred"
  /\ row' = [row EXCEPT ![t] = [status |-> job[t].result, merged |-> job[t].sha]]
  /\ job' = [job EXCEPT ![t].stage = "over"]
  /\ UNCHANGED <<repository, phase, guard, gate, shutdown, seen, spent>>

WriteStatus(t) ==
  /\ phase = "writing" /\ job[t].stage = "deferred"
  /\ row' = [row EXCEPT ![t] = IF IsDone(t) THEN [status |-> "done", merged |-> job[t].sha]
                               ELSE [status |-> "blocked", merged |-> <<>>]]
  /\ job' = [job EXCEPT ![t].stage = "over"]
  /\ UNCHANGED <<repository, phase, guard, gate, shutdown, seen, spent>>

StartCleanup ==
  /\ phase = "writing" /\ \A t \in Tasks : job[t].stage # "deferred"
  /\ phase' = "cleaning"
  /\ UNCHANGED <<repository, row, guard, job, gate, shutdown, seen, spent>>

\* Mutant of CleanUp: a trip at the end of the run does not keep the branches.
CleanUpMerged(t, removed) ==
  /\ phase = "cleaning" /\ job[t].stage \in {"over", "raised"}
  /\ branch' = IF removed /\ job[t].result = "merged"
               THEN [branch EXCEPT ![t] = NoBranch] ELSE branch
  /\ job' = [job EXCEPT ![t].stage = "settled"]
  /\ UNCHANGED <<main, row, phase, guard, gate, shutdown, seen, spent>>

\* _cleanup_worktrees: the branch of a merged task is deleted, once git has
\* removed its worktree; after a trip no task counts as merged.
CleanUp(t, removed) ==
  /\ phase = "cleaning" /\ job[t].stage \in {"over", "raised"}
  /\ branch' = IF removed /\ job[t].result = "merged" /\ ~guard.tripped
               THEN [branch EXCEPT ![t] = NoBranch] ELSE branch
  /\ job' = [job EXCEPT ![t].stage = "settled"]
  /\ UNCHANGED <<main, row, phase, guard, gate, shutdown, seen, spent>>

EndRun ==
  /\ phase = "cleaning" /\ \A t \in Tasks : job[t].stage = "settled"
  /\ phase' = "over"
  /\ UNCHANGED <<repository, row, guard, job, gate, shutdown, seen, spent>>

-----------------------------------------------------------------------------
(* The other writers.                                                      *)

\* The agent commits to its branch, or amends it; so may a process it started,
\* for as long as the branch exists.
CommitToBranch(t, keep, code) ==
  /\ branch[t].exists /\ job[t].stage \notin {"new", "refused", "waiting"}
  /\ spent.commits < MaxCommits
  /\ keep <= Len(branch[t].commits)
  /\ spent' = [spent EXCEPT !.commits = @ + 1]
  /\ branch' = [branch EXCEPT ![t].commits =
                  Append(SubSeq(@, 1, keep), [number |-> spent.commits + 1, code |-> code])]
  /\ UNCHANGED <<main, row, memory>>

\* Someone else commits to the default branch, or drops its last commit.
MoveDefaultBranch ==
  /\ spent.moves < MaxMoves
  /\ spent' = [spent EXCEPT !.moves = @ + 1]
  /\ \/ main' = Append(main, [by |-> Nobody, sha |-> <<>>, number |-> spent.moves + 1])
     \/ main # <<>> /\ main' = SubSeq(main, 1, Len(main) - 1)
  /\ UNCHANGED <<branch, row, memory>>

\* SIGTERM inside a MergeSignalShield is put off to the end of that merge.
Signal ==
  /\ gate.step \in {"verified", "merging", "merged", "conflicted", "rebased", "forwarded"}
  /\ phase = "merging"
  /\ shutdown = {}
  /\ shutdown' = {gate.task}
  /\ UNCHANGED <<repository, row, phase, guard, job, gate, seen, spent>>

\* Any other signal, or the end of the host, ends the process.
Crash ==
  /\ phase \notin {"start", "over", "dead"} /\ spent.runs < MaxRuns
  /\ phase' = "dead"
  /\ UNCHANGED <<repository, row, guard, job, gate, shutdown, seen, spent>>

\* The operator dispatches the same tasks again.
Dispatch ==
  /\ phase \in {"over", "dead"} /\ spent.runs < MaxRuns
  /\ spent' = [spent EXCEPT !.runs = @ + 1]
  /\ phase' = "start"
  /\ guard' = NoGuard
  /\ job' = [t \in Tasks |-> NewJob]
  /\ gate' = IdleGate
  /\ shutdown' = {}
  /\ seen' = <<>>
  /\ UNCHANGED <<repository, row>>

-----------------------------------------------------------------------------
TaskStep(t) ==
  \/ StartTask(t)
  \/ \E outcome \in {"tests_passed", "no_changes", "failed"} : AgentEnds(t, outcome)
  \/ TaskRaises(t)
  \/ \E dirty \in BOOLEAN : CheckClaim(t, dirty)
  \/ SkipReview(t)
  \/ \E clean \in BOOLEAN : StartReview(t, clean)
  \/ \E verdict \in Verdicts \ {"none", "running"} : EndReview(t, verdict)
  \/ FinishTask(t)

MergeStep(t) ==
  \/ \E hazard \in BOOLEAN : GateTask(t, hazard)
  \/ VerifyBeforeMerge(t)
  \/ \E ready \in BOOLEAN : BeginMerge(t, ready)
  \/ \E lands \in BOOLEAN, step \in GateSteps : GitMerge(t, lands, step)
  \/ \E works \in BOOLEAN : Rebase(t, works)
  \/ \E lands \in BOOLEAN, step \in GateSteps : FastForward(t, lands, step)
  \/ \E answers \in BOOLEAN : ReadHead(t, answers)
  \/ RecordMerge(t)
  \/ VerifyAfterFailure(t)

Orchestrator ==
  \/ \E pinned \in BOOLEAN : PinDefaultBranch(pinned)
  \/ \E t \in Tasks : CreateWorktree(t)
  \/ StartAgents
  \/ Gather
  \/ \E t \in Tasks : MergeStep(t)
  \/ VerifyEndOfRun
  \/ \E t \in Tasks : WriteStatus(t)
  \/ StartCleanup
  \/ \E t \in Tasks, removed \in BOOLEAN : CleanUp(t, removed)
  \/ EndRun

Environment ==
  \/ \E t \in Tasks, keep \in 0 .. MaxCommits, code \in BOOLEAN : CommitToBranch(t, keep, code)
  \/ MoveDefaultBranch
  \/ FailCheck
  \/ \E t \in Tasks : FailCheckInMerge(t)
  \/ Signal
  \/ Crash
  \/ Dispatch

Next == Orchestrator \/ (\E t \in Tasks : TaskStep(t)) \/ Environment

\* The orchestrator's coroutines run on, every agent and git call has a timeout.
Fairness == WF_vars(Orchestrator) /\ \A t \in Tasks : WF_vars(TaskStep(t))
Spec == Init /\ [][Next]_vars /\ Fairness

-----------------------------------------------------------------------------
(* Properties.                                                             *)

\* The tables, the branches and the dispatcher's records have their shapes.
TypeOK ==
  /\ main \in Seq(Entry)
  /\ branch \in [Tasks -> Branch]
  /\ row \in [Tasks -> Row]
  /\ phase \in Phases
  /\ guard \in Guard
  /\ job \in [Tasks -> Job]
  /\ gate \in Gate
  /\ shutdown \in SUBSET Tasks
  /\ seen \in Seq(Entry)
  /\ spent \in [commits : 0 .. MaxCommits, moves : 0 .. MaxMoves, runs : Nat]

\* The guard's expected commit is the pinned one plus merges recorded for this
\* run's tasks and nothing else, whoever moved the default branch and whenever:
\* a commit that slips in around a merge is never taken for the orchestrator's.
ChainIsOwnMerges ==
  guard.pinned =>
    /\ IsPrefix(guard.baseline, guard.expected)
    /\ \A i \in Len(guard.baseline) + 1 .. Len(guard.expected) :
         \E t \in Tasks : /\ job[t].result = "merged"
                          /\ guard.expected[i] = Merge(<<>>, t, job[t].sha)[1]

Merges(t) == main' = Merge(main, t, gate.sha)

\* What the orchestrator merges is the one commit the reviewer started and ended
\* on, in a clean worktree, with a clean verdict; or doc-only work; whatever was
\* committed to the branch before, during or after the review.
MergesReviewedCommit ==
  [][\A t \in Tasks : Merges(t) =>
       LET r == job[t].review IN
       \/ ~SecurityReviewEnabled
       \/ DocOnly(t, gate.sha, guard.expected)
       \/ r.verdict = "clean" /\ r.clean /\ r.sha = gate.sha /\ r.end = gate.sha]_vars

\* dispatch-06: after a signal has been put off, only the merge it interrupted
\* may still land; nothing merges once the guard has tripped.
StopsMerging ==
  [][\A t \in Tasks : Merges(t) => ~guard.tripped /\ shutdown \subseteq {t}]_vars

\* dispatch-05: a task is marked done after a merge only when the commit it
\* records was on the default branch at the end-of-run check, which found there
\* the pinned commit and the orchestrator's own merges and no other movement.
DoneIsLanded ==
  [][\A t \in Tasks :
       job[t].outcome = "tests_passed" /\ row'[t] # row[t] /\ row'[t].status = "done" =>
         /\ Landed(t, row'[t].merged, seen)
         /\ \A i \in Len(guard.baseline) + 1 .. Len(seen) : seen[i].by \in Tasks]_vars

\* A branch is deleted only when its approved commit is on the default branch:
\* after a trip, a failed merge, a crash or a refusal the work is still there.
DeletesMergedOnly ==
  [][\A t \in Tasks :
       branch[t].exists /\ ~branch'[t].exists =>
         job[t].result = "merged" /\ Landed(t, job[t].sha, seen)]_vars

\* Whatever happens to its merge, a task that was started gets a verdict in the
\* database, unless it raised or the process died.
EveryTaskIsAnswered ==
  \A t \in Tasks :
    phase = "running" /\ job[t].stage = "agent" ~>
      \/ row[t].status \in {"done", "blocked"}
      \/ job[t].stage = "raised"
      \/ phase = "dead"
=============================================================================
