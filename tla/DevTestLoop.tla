----------------------------- MODULE DevTestLoop -----------------------------
(***************************************************************************)
(* One task's dispatch: run_dev_test_loop of loops.py, at most MaxCycles   *)
(* cycles of a developer and a tester, inside the retry loop of            *)
(* run_dev_test_loop_with_autoresearch in dispatch.py.                     *)
(*                                                                         *)
(* What an agent does and says is a choice; a report is reduced to what    *)
(* the loop tells apart.  The task's branch is reduced to whose commits it *)
(* holds and to what `git diff` against the last cycle's HEAD would show;  *)
(* a project without git has no branch, and agents edit it in place.       *)
(***************************************************************************)
EXTENDS Integers

CONSTANTS
  MaxCycles, NoProgressLimit, MaxContinuations, ParalysisCap, TerminateThreshold,
  MaxRetries,     \* autoresearch_max_retries; 0 when the feature is off
  AuditTypes,     \* may the task be of audit type: a subset of BOOLEAN
  FileSets,       \* what a developer may report as changed
  MaxDispatches   \* bound: how often the task is dispatched

ASSUME DevTestLoopAssumption ==
  /\ {MaxCycles, NoProgressLimit, MaxContinuations, ParalysisCap, TerminateThreshold}
       \subseteq Nat \ {0}
  /\ {MaxRetries, MaxDispatches} \subseteq Nat
  /\ AuditTypes \subseteq BOOLEAN
  /\ FileSets \subseteq SUBSET {"code", "tests", "md"}

VARIABLES
  audit,        \* _is_audit_type_task
  git,          \* task_branch is not None: git at dispatch, hence a worktree
  taskStatus,   \* tasks.status, or "gone" with the task's row
  checkpoint,   \* the number of the newest saved checkpoint, or 0: see StartLoop
  branch,       \* the task's worktree: see Clean
  phase,        \* where the dispatch is
  attempt,      \* retry_count + 1
  loop,         \* the local state of run_dev_test_loop
  outcome,      \* what it returned, or "none"
  reported,     \* the last verdict of a tester in this attempt (history)
  dispatches

vars == <<audit, git, taskStatus, checkpoint, branch, phase, attempt, loop, outcome,
          reported, dispatches>>
world == <<audit, git, dispatches>>

Statuses == {"todo", "in_progress", "blocked", "gone"}
Phases == {"outside", "attempting", "starting", "building", "repairing", "cycling",
           "developer", "judging", "tester", "returned", "resetting", "over"}

Successes == {"tests_passed", "no_tests", "early_completed_no_changes"}
Failures ==
  {"build_broken", "overloaded", "cost_limit_exceeded", "no_progress", "early_terminated",
   "developer_timeout", "developer_max_turns", "developer_failed", "developer_blocked",
   "loop_detected", "failed", "tester_timeout", "tests_inconclusive", "tester_blocked",
   "cycles_exhausted", "circuit_breaker_blocked", "worktree_branch_mismatch",
   "repository_appeared", "attempt_cleanup_failed"}

\* commits: the oldest attempt with commits on the branch; differs: `git diff`
\* against prev_cycle_sha shows something.
Clean == [commits |-> 0, differs |-> FALSE]

NewLoop(prev) ==
  [cycle |-> 0, previous |-> prev, idle |-> 0, continued |-> 0, paralysed |-> 0,
   files |-> {}, last |-> {}, repeats |-> 0]
NothingReported == "none"

Init ==
  /\ audit \in AuditTypes /\ git \in BOOLEAN
  /\ taskStatus = "todo"
  /\ checkpoint = 0
  /\ branch = Clean
  /\ phase = "outside" /\ attempt = 0 /\ outcome = "none"
  /\ loop = NewLoop(0) /\ reported = NothingReported
  /\ dispatches = 0

-----------------------------------------------------------------------------
(* The attempts.                                                           *)

GoTo(p) == phase' = p
Continue(p, next) == phase' = p /\ loop' = next /\ UNCHANGED outcome
\* A return loses the loop's local state.
Return(result) == phase' = "returned" /\ outcome' = result /\ loop' = NewLoop(0)

Dispatch ==
  /\ phase \in {"outside", "over"} /\ taskStatus # "gone" /\ dispatches < MaxDispatches
  /\ GoTo("attempting") /\ attempt' = 1 /\ outcome' = "none"
  /\ branch' = Clean /\ dispatches' = dispatches + 1
  /\ loop' = NewLoop(0) /\ reported' = NothingReported
  /\ UNCHANGED <<audit, git, taskStatus, checkpoint>>

\* The worktree left its branch, or a project without git holds a repository now.
Misplaced == IF git THEN "worktree_branch_mismatch" ELSE "repository_appeared"

\* _require_task_branch or _repository_appeared_in_non_git_project.
BeginAttempt(inPlace) ==
  /\ phase = "attempting"
  /\ IF inPlace THEN GoTo("starting") /\ UNCHANGED outcome
     ELSE GoTo("over") /\ outcome' = Misplaced
  /\ loop' = NewLoop(0) /\ reported' = NothingReported
  /\ UNCHANGED <<world, taskStatus, checkpoint, branch, attempt>>

\* The status, then the models, then the newest checkpoint.  Every model of the
\* role's tier may have an open circuit.  load_checkpoint takes the file whose name
\* sorts last: the newest only while the numbers have one digit.
StartLoop(circuitOpen) ==
  /\ phase = "starting"
  /\ taskStatus' = "in_progress"
  /\ IF circuitOpen THEN GoTo("over") /\ outcome' = "circuit_breaker_blocked" /\ UNCHANGED loop
     ELSE Continue("building", NewLoop(checkpoint))
  /\ UNCHANGED <<world, checkpoint, branch, attempt, reported>>

\* What preflight_build_check found, before all of this.
CheckBuild(builds) ==
  /\ phase = "building"
  /\ Continue(IF builds THEN "cycling" ELSE "repairing", loop)
  /\ UNCHANGED <<world, taskStatus, checkpoint, branch, attempt, reported>>

\* _handle_preflight_failure: the debuggers and the planner have run, or one found
\* every circuit open.  The first diff starts from the HEAD they left.
EndRepair(result) ==
  /\ phase = "repairing"
  /\ \/ result = "repaired" /\ Continue("cycling", loop)
        /\ branch' \in {branch, [branch EXCEPT !.differs = FALSE]}
        /\ UNCHANGED taskStatus
     \/ /\ result \in {"build_broken", "overloaded"} /\ Return(result)
        /\ taskStatus' = "blocked" /\ UNCHANGED branch
     \/ /\ result = "circuit_breaker_blocked" /\ GoTo("over") /\ outcome' = result
        /\ loop' = NewLoop(0) /\ UNCHANGED <<taskStatus, branch>>
  /\ UNCHANGED <<world, checkpoint, attempt, reported>>

-----------------------------------------------------------------------------
(* The developer's half of a cycle.                                        *)

\* Hooks, messages and prompts; or every cycle is used up.
BeginCycle ==
  /\ phase = "cycling"
  /\ IF loop.cycle < MaxCycles THEN Continue("developer", [loop EXCEPT !.cycle = @ + 1])
     ELSE Return("cycles_exhausted")
  /\ UNCHANGED <<world, taskStatus, checkpoint, branch, attempt, reported>>

\* What agents do to the worktree while they run, the repair's too (without git
\* nobody looks); an agent may also say in the database that the task is blocked.
AgentRuns == phase \in {"repairing", "developer", "tester"}

AgentCommits ==
  /\ AgentRuns /\ git
  /\ branch' = [commits |-> IF branch.commits = 0 THEN attempt ELSE branch.commits,
                differs |-> TRUE]
  /\ UNCHANGED <<world, taskStatus, checkpoint, phase, attempt, loop, outcome, reported>>

AgentEdits ==
  /\ AgentRuns /\ git
  /\ branch' = [branch EXCEPT !.differs = TRUE]
  /\ UNCHANGED <<world, taskStatus, checkpoint, phase, attempt, loop, outcome, reported>>

AgentMarksBlocked ==
  /\ AgentRuns /\ taskStatus' = "blocked"
  /\ UNCHANGED <<world, checkpoint, branch, phase, attempt, loop, outcome, reported>>

\* The same fingerprint as last time, and not with other files: another repeat.
Record(same, files) ==
  [loop EXCEPT !.repeats = IF same /\ (files = {} \/ files = loop.last) THEN @ + 1 ELSE 1,
               !.last = files]

DeveloperFails(result) ==
  /\ phase = "developer"
  /\ result \in {"cost_limit_exceeded", "early_terminated", "overloaded", "developer_failed"}
  /\ Return(result)
  /\ UNCHANGED <<world, taskStatus, checkpoint, branch, attempt, reported>>

\* An agent killed for reading without writing: a retry while cycles are left,
\* unless the cap is reached, or the wall-clock cap with no file to show.  Files its
\* last words name count in the fingerprint only.
DeveloperParalysed(files, same, outOfTime) ==
  LET next == [Record(same, files) EXCEPT !.paralysed = @ + 1] IN
  /\ phase = "developer"
  /\ IF loop.cycle >= MaxCycles THEN Return("early_terminated")
     ELSE IF next.paralysed >= ParalysisCap \/ (outOfTime /\ loop.files = {})
     THEN Return("no_progress")
     ELSE Continue("cycling", next)
  /\ UNCHANGED <<world, taskStatus, checkpoint, branch, attempt, reported>>

\* Mutant of DeveloperNeedsNoChange: the checkpoints survive the success.
DeveloperNeedsNoChangeKeeping ==
  /\ phase = "developer"
  /\ Return("early_completed_no_changes")
  /\ UNCHANGED <<world, taskStatus, checkpoint, branch, attempt, reported>>

DeveloperNeedsNoChange ==
  /\ phase = "developer"
  /\ checkpoint' = 0 /\ Return("early_completed_no_changes")
  /\ UNCHANGED <<world, taskStatus, branch, attempt, reported>>

\* Mutant of DeveloperRunsOut: one continuation too many.
DeveloperRunsOutOnceMore(result, text) ==
  /\ phase = "developer" /\ result \in {"developer_timeout", "developer_max_turns"}
  /\ checkpoint' = IF text THEN loop.previous + loop.cycle ELSE checkpoint
  /\ IF loop.continued + 1 > MaxContinuations THEN Return(result)
     ELSE Continue("cycling", [loop EXCEPT !.continued = @ + 1])
  /\ UNCHANGED <<world, taskStatus, branch, attempt, reported>>

\* _handle_dev_continuation: a checkpoint if there is a text, then another cycle.
DeveloperRunsOut(result, text) ==
  /\ phase = "developer" /\ result \in {"developer_timeout", "developer_max_turns"}
  /\ checkpoint' = IF text THEN loop.previous + loop.cycle ELSE checkpoint
  /\ IF loop.continued + 1 >= MaxContinuations THEN Return(result)
     ELSE Continue("cycling", [loop EXCEPT !.continued = @ + 1])
  /\ UNCHANGED <<world, taskStatus, branch, attempt, reported>>

\* A success, or a failure with changed files; busy: at least three turns.
DeveloperFinishes(files, busy, same) ==
  LET progress == files # {} \/ busy
      excused == loop.files # {} \/ branch.commits # 0 IN
  /\ phase = "developer"
  /\ Continue("judging", [Record(same, files) EXCEPT
                            !.files = @ \cup files,
                            !.idle = IF progress THEN 0 ELSE IF excused THEN @ ELSE @ + 1])
  /\ UNCHANGED <<world, taskStatus, checkpoint, branch, attempt, reported>>

\* Blocked in the database, idle too often, repeating itself, in this order; then
\* the audit's way out, on _git_diff_is_empty (git may fail, and none is run in a
\* project without it) and on markdown that was reported in any cycle or that
\* `git status` shows now.
JudgeDeveloper(gitWorks, statusShowsMd) ==
  /\ phase = "judging"
  /\ \/ taskStatus = "blocked" /\ Return("developer_blocked") /\ UNCHANGED checkpoint
     \/ /\ taskStatus # "blocked" /\ loop.idle >= NoProgressLimit
        /\ Return("no_progress") /\ UNCHANGED checkpoint
     \/ /\ taskStatus # "blocked" /\ loop.idle < NoProgressLimit
        /\ IF loop.repeats >= TerminateThreshold
           THEN Return("loop_detected") /\ UNCHANGED checkpoint
           ELSE IF ~(audit /\ git /\ gitWorks /\ ~branch.differs)
           THEN Continue("tester", loop) /\ UNCHANGED checkpoint
           ELSE IF "md" \in loop.files \/ statusShowsMd
           THEN Return("tests_passed") /\ checkpoint' = 0
           ELSE Return("failed") /\ UNCHANGED checkpoint
  /\ UNCHANGED <<world, taskStatus, branch, attempt, reported>>

-----------------------------------------------------------------------------
(* The tester's half.                                                      *)

Honest == "pass"
\* A pass whose counts do not add up, hide skips, or run nothing.
Dubious == "dubious_pass"
\* A pass whose counts add up and name failed tests.
Contradictory == "pass_with_failures"
Verdicts == {Honest, Dubious, Contradictory, "no_tests", "blocked", "fail"}

TesterFails(result) ==
  /\ phase = "tester" /\ result \in {"overloaded", "cost_limit_exceeded", "tester_timeout"}
  /\ Return(result)
  /\ UNCHANGED <<world, taskStatus, checkpoint, branch, attempt, reported>>

\* Mutant of VerdictOutcome: a pass is taken at its word.
VerdictOutcomeTrusting(verdict, wroteTests) ==
  CASE verdict \in {Honest, Dubious, Contradictory} -> "tests_passed"
    [] verdict = "no_tests" -> IF wroteTests THEN "tests_inconclusive" ELSE "no_tests"
    [] verdict = "blocked" -> "tester_blocked"
    [] OTHER -> "none"

\* _dispatch_tester_outcome; a report without a verdict and without counts is
\* taken for one of no tests, a killed tester's too.
VerdictOutcome(verdict, wroteTests) ==
  CASE verdict \in {Honest, Contradictory} -> "tests_passed"
    [] verdict = Dubious -> "tests_inconclusive"
    [] verdict = "no_tests" -> IF wroteTests THEN "tests_inconclusive" ELSE "no_tests"
    [] verdict = "blocked" -> "tester_blocked"
    [] OTHER -> "none"

\* After failed tests the next diff starts from HEAD: what was not committed still
\* shows in it.
TesterReports(verdict) ==
  LET result == VerdictOutcome(verdict, "tests" \in loop.last) IN
  /\ phase = "tester"
  /\ reported' = verdict
  /\ IF result # "none"
     THEN /\ Return(result)
          /\ checkpoint' = IF result \in Successes THEN 0 ELSE checkpoint
          /\ UNCHANGED branch
     ELSE /\ Continue("cycling", loop)
          /\ branch' \in {branch, [branch EXCEPT !.differs = FALSE]}
          /\ UNCHANGED checkpoint
  /\ UNCHANGED <<world, taskStatus, attempt>>

-----------------------------------------------------------------------------
(* Between attempts.                                                       *)

\* The same check again, then the outcome.
EndAttempt(inPlace) ==
  /\ phase = "returned"
  /\ \/ ~inPlace /\ GoTo("over") /\ outcome' = Misplaced
     \/ /\ inPlace /\ (outcome \in Successes \/ attempt > MaxRetries)
        /\ GoTo("over") /\ UNCHANGED outcome
     \/ /\ inPlace /\ outcome \notin Successes /\ attempt <= MaxRetries
        /\ GoTo("resetting") /\ UNCHANGED outcome
  /\ UNCHANGED <<world, taskStatus, checkpoint, branch, attempt, loop, reported>>

\* A git step of the clean-up failed; a project without git has none.
CleanupFails ==
  /\ phase = "resetting" /\ git
  /\ GoTo("over") /\ outcome' = "attempt_cleanup_failed"
  /\ UNCHANGED <<world, taskStatus, checkpoint, branch, attempt, loop, reported>>

\* What comes after the git steps: the status, and the task is read again; if
\* someone deleted it the failure stands.
NextAttempt(refreshed) ==
  /\ IF refreshed
     THEN /\ taskStatus' = "todo" /\ GoTo("attempting")
          /\ attempt' = attempt + 1 /\ outcome' = "none"
     ELSE taskStatus' = "gone" /\ GoTo("over") /\ UNCHANGED <<attempt, outcome>>
  /\ UNCHANGED <<world, checkpoint, loop, reported>>

\* Mutant of ResetAttempt: the work of the failed attempt stays on the branch.
ResetAttemptStatusOnly(refreshed) ==
  /\ phase = "resetting"
  /\ UNCHANGED branch /\ NextAttempt(refreshed)

\* cleanup_failed_attempt: reset --hard and clean, then the status.  Without git
\* there is no branch to reset, and what the attempt edited stays.
ResetAttempt(refreshed) ==
  /\ phase = "resetting"
  /\ branch' = Clean
  /\ NextAttempt(refreshed)

\* The next dispatch starts on a fresh worktree.
Crash ==
  /\ phase \notin {"outside", "over"}
  /\ GoTo("outside") /\ outcome' = "none" /\ attempt' = 0
  /\ branch' = Clean /\ loop' = NewLoop(0) /\ reported' = NothingReported
  /\ UNCHANGED <<world, taskStatus, checkpoint>>

-----------------------------------------------------------------------------
Developer ==
  \/ \E result \in Failures : DeveloperFails(result)
  \/ \E files \in FileSets \cup {{}}, same, outOfTime \in BOOLEAN :
       DeveloperParalysed(files, same, outOfTime)
  \/ DeveloperNeedsNoChange
  \/ \E result \in Failures, text \in BOOLEAN : DeveloperRunsOut(result, text)
  \/ \E files \in FileSets, busy, same \in BOOLEAN : DeveloperFinishes(files, busy, same)

Tester ==
  \/ \E result \in Failures : TesterFails(result)
  \/ \E verdict \in Verdicts : TesterReports(verdict)

Orchestrator ==
  \/ \E ok \in BOOLEAN :
       \/ BeginAttempt(ok) \/ StartLoop(~ok) \/ CheckBuild(ok)
       \/ EndAttempt(ok) \/ ResetAttempt(ok)
  \/ \E gitWorks, statusShowsMd \in BOOLEAN : JudgeDeveloper(gitWorks, statusShowsMd)
  \/ \E result \in Failures \cup {"repaired"} : EndRepair(result)
  \/ BeginCycle \/ CleanupFails

Agents == AgentCommits \/ AgentEdits \/ AgentMarksBlocked

Next == Dispatch \/ Orchestrator \/ Developer \/ Tester \/ Agents \/ Crash

\* The orchestrator runs on, and every agent it starts has a time limit.
Spec == Init /\ [][Next]_vars /\ WF_vars(Orchestrator \/ Developer \/ Tester)

-----------------------------------------------------------------------------
(* Properties.                                                             *)

TypeOK ==
  /\ audit \in BOOLEAN /\ git \in BOOLEAN
  /\ taskStatus \in Statuses
  /\ checkpoint \in Nat
  /\ branch \in [commits : 0..(MaxRetries + 1), differs : BOOLEAN]
  /\ phase \in Phases
  /\ attempt \in 0..(MaxRetries + 1)
  /\ loop \in [cycle : 0..MaxCycles, previous : Nat, idle : 0..NoProgressLimit,
               continued : 0..(MaxContinuations - 1), paralysed : 0..(ParalysisCap - 1),
               files : SUBSET UNION FileSets, last : FileSets \cup {{}}, repeats : 0..MaxCycles]
  /\ outcome \in Successes \cup Failures \cup {"none"}
  /\ reported \in Verdicts \cup {NothingReported}
  /\ dispatches \in 0..MaxDispatches

\* The dispatch implements what FanOut and Initiative take it to be: it comes
\* back, a success is its last attempt's and nothing of an earlier attempt is on
\* the branch then.
Contract ==
  INSTANCE TaskRun WITH
    MaxAttempts <- MaxRetries + 1,
    stage <- IF phase = "outside" THEN "outside" ELSE IF phase = "over" THEN "ended" ELSE "inside",
    work <- branch.commits,
    outcome <- IF phase = "over" THEN outcome ELSE "none"
ImplementsTaskRun == Contract!Spec

\* A task that succeeded leaves no checkpoint behind: a later dispatch of it never
\* starts from the text of an agent whose work was replaced.  (If the files can be
\* deleted: clear_checkpoints passes over an error of unlink.)
SuccessLeavesNoCheckpoint ==
  phase = "over" /\ outcome \in Successes => checkpoint = 0

\* Tests that passed ran, in the cycle that ended the loop and on what the
\* developer of that cycle left; only an audit whose diff is empty passes without.
\* A pass that hides skipped tests or ran none is never one.
PassedMeansTested ==
  phase = "over" /\ outcome = "tests_passed" =>
    reported \in {Honest, Contradictory} \/ (audit /\ git /\ ~branch.differs)
=============================================================================
