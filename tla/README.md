# EQUIPA in TLA+

EQUIPA (`src/equipa/`) is an orchestrator for coding agents. It takes tasks from
a SQLite database, runs agents on them in git worktrees, has each branch
reviewed by another agent, merges what passes onto the default branch, and
writes the verdicts back. It is asyncio code in one process per dispatch. Three
kinds of state are shared with others while it runs: the database (other
dispatchers, the operator's command line), the git repository (agents'
processes, the operator, scripts), and signals.

This directory holds models of the protocols at its core, with what TLC checks of
them and what TLAPS proves: how an **initiative** is worked off in waves, how the
tasks of a wave share a **task flow**, how one task goes through its **dev-test
loop**, how one agent is **run**, **monitored** and its commands **checked**, and
how its branch passes the **gated merge**.
Paths below are relative to `src/equipa/` unless they say otherwise.

## 1. Inventory

| Component | State | Operations | Interacts with | Hard behaviour | Correct when |
|---|---|---|---|---|---|
| Task flows, `flows.py` | tables flows, flow_tasks, flow_revisions, tasks.status | create, transition, add child, update child, cancel, reconcile | dispatchers and the operator, through SQLite | every operation reads without a lock and writes later | an operation is atomic; the log replays the rows; a cancel is final |
| Parallel dispatch, `dispatch.py` `run_parallel_tasks` | stage of each task, flow id | semaphore, cancel checks, reports, gather, reconcile | flows, tasks rows, gated merge | a cancel between check and use; exceptions swallowed; two writers of one status | flow and tasks say what happened; skipped tasks are cancelled ones; the flow ends |
| Gated merge, `dispatch.py` `_gated_merge_task`, `_merge_task_branch`; `merge_integrity.py` | `DefaultBranchGuard`, `MergeAttempt`, `ReviewerRunRecord`, branches | pin, verify, gate, merge, rebase, record, clean up | git, reviewer, shield, tasks rows | others move either branch between any two steps; git calls time out | only the reviewed commit merges; foreign commits are noticed; done means landed; nothing unmerged is deleted |
| Merge shield, `merge_safety.py` | active shields, displaced handlers, first signal | enter, deliver, exit, abort an unfinished merge | signals, gated merge | nesting; a second signal while aborting | a merge ends before the signal acts; no half merge is left |
| Status writes, `db.py` | tasks.status, merged_sha | `update_task_status` | all of the above | overwrites without looking; SQLite errors are logged | the last writer is the one entitled to write |
| Single-task isolation, `dispatch.py` `run_task_in_isolation` | worktree, branch | as the gated merge, one task | gated merge | other clean-up rule | as the gated merge |
| Autoresearch, `dispatch.py` | attempt counter, worktree, memory of failures | attempt, reset, retry | dev-test loop | retry of what half succeeded; a reset that fails | bounded; nothing of a failed attempt is merged |
| Dev-test loop, `loops.py`, `checkpoints.py`, `sessions.py`, `messages.py`, `hooks/` | cycle, continuation, paralysis and no-progress counters, checkpoint | developer turn, tester turn, compaction, resume | agent runner, database | which of several limits ends it; messages read and then marked by role | terminates; a pass means the tester passed the last code |
| Security review, `security_gate.py`, `loops.py` | review artifact, verdict | run a reviewer, parse, decide | gated merge | artifact of another run; unparseable text | blocks unless a clean review of this commit exists |
| Agent runner, `agent_runner.py`, `agent_launcher.py` | child processes, live agents, configuration directory, retry budgets | start, watch, stop the tree, classify, run again | dev-test loop, abort controllers, signals | an abort, a cancel or a signal at any await; the death of either process | no process outlives its run; the run ends |
| Stream monitor, `agent_runner.py`, `monitoring.py` | counters, warnings, flagged calls, repository state | handle a message, stop the run for a reason | agent runner, hooks | calls run while their messages are read; the stream ends by seven doors | a success ran nothing flagged; nobody is stopped unwarned |
| Abort controllers, `abort_controller.py` | tree of signals, listeners | abort, add and remove listener, child | agent runner | callbacks that change the list, weak references | an abort reaches all descendants; no dead listener stays |
| Reactive checks, `reactive_check.py` | worker process, pending request | ask, deadline, discard, restart | bash checks | a late verdict | an answer belongs to its question |
| Initiatives, `initiative_runner.py`, `initiative.py` | plan, waves, pause marker, host lock, plan file | compute waves, run, halt, resume | parallel dispatch | a crash between waves, two hosts | order respected; nothing marked done that is not |
| Model routing, `routing.py` | breaker per model | record success and failure, choose | dispatch | half-open state | opens on failures, recovers |
| Heartbeat, `heartbeat.py` | agent_runs, container databases, sessions | re-dispatch, time out, prune | dispatch, docker | select, then update | touches only what is dead |
| Config versions, `config_versions.py` | versions, files | snapshot, diff, rollback | file system | an edit between check and write; a crash between two files | a rollback is whole, no edit is lost |
| Bash checks, redaction, prompts, roles, lessons, parsing, output | none shared | pure functions on text | all | text | - |
| Sandbox, git environment, preflight, generated files, scaffold | argument lists, files | command construction | git, docker | I/O | - |
| Command line, configuration, MCP server, plugins, migrations, ForgeSmith, scripts | options, offline reports | entry points, offline analysis | all | - | - |

`PROJECT.json` lists these with their status and, under "hazards", what is hard
to test in them, each at its line, with the properties that cover it.

## 2. The modules

    FlowTypes            states of flows, children and tasks (schema.sql CHECKs)
      FlowLedger         abstract: each flow operation happens at one instant
        Flows            flows.py as it runs: reads, then one write transaction
          FlowsProofs    its theorems, among them: Flows implements FlowLedger
        FanOut           run_parallel_tasks as driver of a flow (uses FlowLedger)
          FanOutProofs
    GatedMerge           run_parallel_tasks on git: worktrees, reviews, merges
      GatedMergeProofs
    Initiative           run_initiative: waves of dispatches, crash and resume
      InitiativeProofs
    TaskRun              abstract: attempts of which only the last may succeed
      DevTestLoop        run_dev_test_loop in its retry loop; implements TaskRun
        DevTestLoopProofs
    AgentRun             one agent: coroutine, launcher, CLI and what it left
      AgentRunProofs
    StreamMonitor        the messages of one streamed agent, and what stops it
      StreamProofs
    ReactiveChecker      threads that share one worker to check Bash commands
      ReactiveProofs

Each specification `M` that TLC runs has a module `MCM` with its small instances.

The modules meet at narrow interfaces. `Initiative` sees the dispatch of a wave
as statuses, branches and rows of cost, as `FanOut` and `GatedMerge` leave them.
`FanOut` sees a task's loop as an outcome, the one `DevTestLoop` returns, and the
merge as a choice, which `GatedMerge` makes. `DevTestLoop` sees an agent as a
report or a failure, which is what `AgentRun` returns. `AgentRun` sees the monitor
as a decision to stop watching, with the result that `StreamMonitor` builds.
`StreamMonitor` sees the check of a command as safe, flagged or undecided, which
is what `ReactiveChecker` answers. Two of these interfaces are modules of their
own with a refinement: `FlowLedger` and `TaskRun`.

### Flows and FlowLedger

`db_conn(write=True)` opens a SQLite connection in Python's deferred mode: the
SELECTs take no lock that outlives them, the first UPDATE or INSERT starts the
write transaction. So `Flows` gives each operation of `flows.py` one step per
read and one step for its write, with the other dispatchers free to commit in
between; `call[d]` is what dispatcher `d` has read and will write.

| `Flows` | code |
|---|---|
| `BeginTransition`, `CommitTransition` | `transition`: guards on the row read; UPDATE with compare-and-swap, its re-read, the log row |
| `BeginAddChild`, `BeginUpdateChild`, `LookUpChild`, `CommitChild` | `add_child`, `update_child_state`: two SELECTs; an unconditional UPDATE |
| `BeginCancel`, `CommitCancel` | `cancel_flow`, with the task rows it settles |
| `BeginReconcile`, `ReconcileChildren`, `ReconcileTransition` | `reconcile_after_restart`: two connections, then `transition` |
| `Unused` | `UNIQUE(flow_id, revision)` of `schema.sql`; a refused write is rolled back whole (`Return`) |
| `Abort` | the caller dies, or SQLite's busy timeout runs out |

The guard of a call is checked on the row it read; `FlowLedger` checks the same
guard on the current row. That `Flows` implements `FlowLedger`, with the three
tables as they are for the refinement mapping, says that no caller ever commits
on a row that another one has replaced. It is what lets `FanOut` use the
ledger's one-step operations for the dispatcher.

### FanOut

`run_parallel_tasks` with a flow: `Attach` and `StartFlow` create it, `Confirm`
is the operator's prompt, `CheckCancelled` stands for both checks (before and
inside the semaphore), `ReportRunning`, `StartLoop`, `EndLoop`, `WriteOutcome`
and `ReportOutcome` are one coroutine, each step between two awaits or two
transactions; `Gather`, `Reconcile`, `WriteStatusAfterMerge` and `EndRun` follow
the gather. `OperatorCancels` is `cancel_flow` from another process, at any
time. `worktrees` is whether the project is a git repository: if not, statuses
are written by the task itself and nothing is deferred. `RefuseTask` is a task
that was left without its worktree; the constant `Refusable` says which may be.
What the merge decides is a choice here, and the subject of `GatedMerge`.

### GatedMerge

One dispatch on a git project, and the next one after it. A branch is the
sequence of commits on it, so a SHA is a sequence and "is an ancestor of" is "is
a prefix of" (`Landed` for a merge). The default branch is a sequence of merges and of
commits by `Nobody`. A commit's content is only whether it is code, which
`is_doc_only_diff` looks at.

| `GatedMerge` | code |
|---|---|
| `PinDefaultBranch`, `Verify`, `RecordMerge`, `VerifyEndOfRun` | `DefaultBranchGuard.snapshot`, `verify`, `record_merge` |
| `CreateWorktree`, `StartTask`, `AgentEnds`, `TaskRaises`, `CheckClaim`, `FinishTask` | `_create_isolation_worktrees`, `run_one_task`, `_no_changes_claim_problem` |
| `SkipReview`, `StartReview`, `EndReview` | `review_task_branch`, `run_security_review`, with `ReviewerRunRecord` |
| `GateTask`, `VerifyBeforeMerge`, `VerifyAfterFailure` | `_gated_merge_task` with `decide_merge_gate` and `reviewed_commit_refusal` |
| `BeginMerge`, `GitMerge`, `Rebase`, `FastForward`, `ReadHead` | `_merge_task_branch`, one step per git call that matters; calls that time out, landed or not |
| `FailCheck`, `FailCheckInMerge` | a check that git does not answer, or a repository that is not the pinned one |
| `WriteStatus`, `CleanUp` | `_write_status_after_merge`, `_cleanup_worktrees` |
| `Signal`, `Crash`, `Dispatch` | the shield's deferred signal; the end of the process; the operator dispatches again |
| `CommitToBranch`, `MoveDefaultBranch` | not this program: an agent's process, another user of the repository |

### Initiative

A run of `--initiative` is a process; `run[r]` is its local state, the database
rows and the branches are shared with the runs before it and with the operator.

| `Initiative` | code, `initiative_runner.py` |
|---|---|
| `Start`, `Lock`, `Leave` | `run_initiative` up to the host lock: the repository is looked for through the first pending task, and without one there is no lock |
| `Plan`, `DependencyGraph`, `HasCycle`, `PlaceWave` with `Ready`, `MarkInProgress` | `select_pending_tasks`, `build_dependency_graph`, `detect_cycle`, `compute_waves`, `mark_in_progress`; a done initiative, an empty one and a cycle end the run |
| `BeginWave` | the wave cap, the pause marker read afresh, the high-water marks of `agent_runs` |
| `RefuseWave`, `StartTask`, `EndTask`, `Gather`, `MergeTask`, `EndDispatch` | `run_parallel_tasks` as seen from outside: refused, or one status, one row of cost and one branch per task |
| `ReadBack` with `IsolationReports`, `Succeeded`, `WaveCost`, `AddCost` with `Charge` | the statuses after the wave, `verify_wave_branch_isolation`, the rows after the mark |
| `MarkPaused`, `MarkDone` | a failure, the cap or a marker pause; a plan worked off closes |
| `Crash`, `CancelInitiative`, `EditTask` | the process dies, its lock with it; the operator's SQL |

`run[r].selected` is the set of tasks the plan was made for and `run[r].waves` the
waves placed so far: `compute_waves` is a loop, and `PlaceWave` is one turn of it,
with its guard against an empty layer. The column `total_cost` is one sum; here
`totalCost` keeps what each task has added to it, so that charging one task's runs
twice is not hidden by another whose runs were not charged.

### DevTestLoop and TaskRun

One task: `Dispatch` gives it a fresh worktree, `BeginAttempt` to `EndAttempt` are
one attempt, `ResetAttempt` clears the way for the next. `git` is whether the
project was a git repository then; without it agents edit the project in place, no
git is run, and a repository that turns up ends the dispatch (`Misplaced`).

| `DevTestLoop` | code |
|---|---|
| `BeginAttempt`, `EndAttempt` | `_run_attempts_with_autoresearch` with `_require_task_branch`, or `_repository_appeared_in_non_git_project`, before and after |
| `StartLoop`, `CheckBuild`, `EndRepair`, `BeginCycle` | `run_dev_test_loop` to its first cycle: status, circuits, newest checkpoint, `preflight_build_check`, and the debuggers and the planner of `_handle_preflight_failure`, which act like any agent and may find every circuit open |
| `DeveloperFails`, `DeveloperParalysed`, `DeveloperNeedsNoChange`, `DeveloperRunsOut`, `DeveloperFinishes` | the ways a developer's turn comes back, with the continuation, paralysis, progress and repeat counters each of them moves |
| `JudgeDeveloper` | blocked in the database, idle, looping, in this order; then the audit's way out on an empty diff |
| `TesterFails`, `TesterReports`, `VerdictOutcome` | the tester's turn and `_dispatch_tester_outcome` |
| `ResetAttempt`, `CleanupFails`, `NextAttempt` | `cleanup_failed_attempt`: every git step checked, then the status; the task is read again, and may be gone |
| `AgentCommits`, `AgentEdits`, `AgentMarksBlocked` | what agents do to the worktree and the row while they run |
| `Crash` | the orchestrator dies; checkpoints stay |

`TaskRun` is what the dispatcher takes all of this to be: attempts, commits, an
end, and that it comes back. The refinement mapping shows the oldest attempt with
commits on the branch as `work`, so implementing it says that a success carries
nothing of an earlier attempt into the merge, and that the loop ends whichever of
its counters gets there first.

### AgentRun

The coroutine of `run_agent` or its streaming twin, the launcher process, the CLI
and what the CLI left behind, with an abort, a cancel, a stop signal and the
deaths of the orchestrator and of the launcher at any moment that the code can
observe them: at an await for the first two, at any step for the others.

| `AgentRun` | code |
|---|---|
| `CheckAbort`, `CreateConfigDir`, `Fork`, `Watch` | the abort check with no await before the spawn; `_create_cli_config_dir` with its deferred signal; `_spawn_agent_process` with `verify`, `_track_live_agent` and the listener on the abort controller |
| `StopWatching`, `Terminated`, `KillTree`, `Release` | the end of the output, a time limit, the result message or the monitor; `_terminate_async`, `terminate_sync` |
| `Classify`, `Awake` | the retry loop with its two budgets |
| `LauncherArms`, `LauncherChecks`, `LauncherSpawns`, `LauncherForwards`, `LauncherReaps`, `LauncherSweeps` | `agent_launcher.py`: block the signals, arm the death signal, look at the parent again, start the CLI, supervise it, sweep as subreaper |
| `CliForks`, `CliExits` | the agent leaves a process in its group or in a session of its own; it exits |
| `Abort`, `Cancel`, `StopSignal`, `HandlerEnds`, `OrchestratorKilled`, `LauncherKilled` | what comes from outside, and the handler that stops all tracked agents |

### StreamMonitor

`_run_agent_streaming_impl` with the detectors of `monitoring.py`, and the
agent's processes beside it. A line of the stream is an assistant message, the
result of a call, or a last message.

| `StreamMonitor` | code |
|---|---|
| `Blocks` with `BlockReason`, `Awaited`, `Issued` | going through the blocks of a message: stuck phrases, completion, the verdict on each call, the counters |
| `TextTurn`, `ExemptTurn`, `WriteTurn`, `ReadTurn` | the four ways a message counts: `_check_monologue`; a role that need not write; a change; a read |
| `RetryGateArms`, `FastEscalation`, `FinalWarningDue` | the three rules that give the final warning |
| `ReadingRatioExceeded`, `RepeatedFailures`, `AlternatingFailures`, `IsLoop` | the detectors, over histories indexed by position as in the code |
| `ToolResult`, `FlaggedReason` | a result: refused commands and strikes, output, change seen by git, a repository that has appeared |
| `Run`, `Refuse`, `GateChanges` | the agent's processes and its PreToolUse hook; the hook's files are edited |
| `ResultMessage`, `EndOfStream`, `Deadline`, `MonitorError`, `Cancelled` | the ways out of the loop |
| `Terminate`, `Finish`, `Succeeds` | the fail-closed check of flagged calls without result, the stop of the tree, the last look for a repository, `_build_streaming_result` |

### ReactiveChecker

| `ReactiveChecker` | code, `reactive_check.py` |
|---|---|
| `Ask`, `Acquire`, `Answer` | `check_blocking` with its size cap, and the lock the threads share |
| `EnsureWorker`, `TakeReady` | `_ensure_worker`, `_start_worker`: a dead worker is replaced and must say it is ready |
| `Send`, `Read`, `EndOfOutput`, `MissDeadline`, `TakeVerdict` | the request, `_read_reply` in chunks against a deadline, the verdict |
| `Fail`, `DiscardWorker`, `Close` | every failure discards the worker with its pipes |
| `WorkerLoads`, `WorkerTakes`, `WorkerReplies`, `WorkerDies` | `_worker_main`, slow, wrong, or dead in the middle of a reply |

Every line of the code a definition stands for is in `PROJECT.json` under "map".

## 3. What TLC checks

| Run | Instance | Checks |
|---|---|---|
| `flows` | 2 dispatchers, 2 tasks, revisions to 3 | `TypeOK`, `DenseLog`, `LogReplaysChildren`, `CancelIsSticky`, `LedgerSpec` |
| `merge` | 2 tasks, no review, 2 commits, 2 foreign moves, 1 dispatch | `TypeOK`, `ChainIsOwnMerges`, `StopsMerging`, `DoneIsLanded` |
| `merge_review` | 1 task, review on, unparseable reviews allowed, 2 commits, 1 foreign move, 2 dispatches with a crash anywhere in the first | `MergesReviewedCommit`, `DeletesMergedOnly`, `EveryTaskIsAnswered` |
| `fanout` | 3 tasks, 2 at a time, each with a worktree or without | `TypeOK`, `FlowTellsOutcomes`, `SkippedIsCancelled`, `FlowEnds` |
| `fanout_cancel` | 2 tasks, none refused for want of a worktree | finds `CancelledTaskStaysCancelled` violated |
| `initiative` | 3 tasks in a chain with a shortcut, a join, a fork or a cycle; 2 processes, 2 waves, 2 starts, 1 edit | `TypeOK`, `WavesInOrder`, `WaveIsLongestChain`, `WavesDoneMeansTasksDone`, `NeverOvercounts`, `DoneTaskStaysDone`, `RunEnds` |
| `initiative_isolation` | the same with one process and no edits | finds `HaltsOnAFailure` violated |
| `initiative_lock` | two processes, no edits, no repository given | finds `OneLiveRun` violated |
| `dev_test` | git or not, 3 cycles, limits of 2 (repeats 3), 1 retry, audit or not, 2 dispatches | `TypeOK`, `SuccessLeavesNoCheckpoint`, `PassedMeansTested`, `ImplementsTaskRun` |
| `agent_run` | waiting and streaming, persistent or not, 3 retries, ceiling 3 | `TypeOK`, `NothingOutlivesTheRun`, `AbortReachesTheAgent`, `StartsAreWanted`, `OrphansStop`, `RunEnds` |
| `reactive` | 3 threads, 2 commands, 5 checks | `TypeOK`, `AnswersItsQuestion`, `KeptWorkerOwesNothing`, `LockIsGivenBack` |
| `stream` | 9 messages, 3 kinds of run, 4 calls, 2 turns of text | `TypeOK`, `SuccessIsClean`, `WarnedBeforeKill` |

**Why the bounds are enough.**

- `MaxRevision = 3`: an operation may start at revision 2 and commit 3, so two
  dispatchers can attach a child, start it and cancel, with one or two commits
  inside another call's window; every race in `flows.py` is between one stale
  call and at most two others. The bound limits where a call may start, so calls
  in flight always finish.
- Two tasks in `merge`: the second merge runs on the expected commit of the
  first, and a foreign move can fall before, between and after them. Two moves
  are a commit and a reset, so that the default branch can leave and come back.
  Two commits give each branch one, or one branch an amendment.
- One task in `merge_review`: reviews of different tasks share nothing but the
  guard, whose sharing `merge` checks. Two dispatches are one crash and
  everything its leftovers can do to the next run.
- Three tasks with two slots in `fanout`: one task waits in the semaphore while
  two run. In `fanout_cancel` no task is refused: a refused task is marked blocked
  whatever its status, and would hide what happens to one that runs.
- `initiative`: four graphs are every shape of three tasks that separates waves
  from an order (one of a kind where tasks are alike), and a cycle. The cap of
  two waves bites for the chain, which needs three. Two starts are a run and its
  resumption after a crash, which may leave the wave half done in every way, or a
  run and a second one that the lock refuses. One edit falls into any step of
  either. `RepoGiven` is the argument `repo_path` of `run_initiative`: with it the
  lock is always taken, and the properties of `initiative` hold for processes side
  by side; without it, as the command line calls it, they hold for one process at
  a time only, and `initiative_lock` shows how two come to run.
- `dev_test`: every limit is at least 2, so that each counter can be moved, reset
  and moved again, and no two limits need be reached in the same cycle; three
  cycles let a counter be reset in between; one retry is an attempt with a reset
  before it; two dispatches are what a checkpoint needs to outlive one.
- `agent_run`: 3 and 3 let failures of both kinds alternate before either budget
  is used up.
- `reactive`: two threads that wait while a third is checking, one command of
  each verdict, and more checks than threads, so that each thread may ask again
  after a worker was discarded under it.
- `stream`: the thresholds keep the order of the real ones at a smaller size.
  Kill is 25 to 31 turns by complexity and scaled, reduced by at most 3 in a
  retry; the final warning is the larger of 20 and 70% of it, thus always below:
  3 and 4 here. The fast rule (2), the strikes (2) and the loop limit (3) can
  each come first; the ratio (turn 3, 2 reads) could, if it ever applied (see 5). Messages are one of each kind that
  the monitor tells apart, among them one with a flagged call hidden before a
  read and one with a flagged call and the claim to be done. `MaxOpen = 0` lets a
  message come only when all calls of the last one are answered; calls of one
  message may still run and end in any order.

Symmetry is used for tasks and dispatchers in runs without liveness properties
only. Deadlock is not checked: a dispatch, a run and a check end, and a bounded
flow has no more revisions to take.

**Fairness.** `Flows` and `StreamMonitor` state none and have no liveness
property. The others assume weak fairness of what the event loop or the kernel
runs, and of nothing else:

- `FanOut` the dispatcher, `GatedMerge` the orchestrator and each task's
  coroutine, `Initiative` each process: an asyncio coroutine that can run does,
  every agent has a time limit and every git call has a `timeout=`, so an await
  ends;
- `DevTestLoop` the loop together with its agents' ends, which have time limits
  (`WF` of the disjunction: the loop is one sequential coroutine);
- `AgentRun` the coroutine, the signal handler and the launcher, each of whose
  waits has a time limit. The CLI need not ever do anything: `OrphansStop` and
  `RunEnds` hold for one that hangs and forks;
- `ReactiveChecker` the thread that has the lock, whose deadline is an action that
  stays possible while no whole line has arrived. The worker need not ever do
  anything, and a waiting thread need not ever get the lock
  (`threading.Lock` is not fair).

Nothing is assumed of agents' late commits, of the other users of the
repository, of the operator, or of crashes.

`TypeOK` is there for the proofs and for what a wrong status word would do
(`schema.sql` has CHECK constraints for flows, and none for `tasks.status`). In
`DevTestLoop` and `StreamMonitor` it holds the ranges of the counters, which are
what bounds the loop and the run.

## 4. What is proved

TLAPS proves the following for every set of tasks, dispatchers, processes and
threads, and every value of the bounds.

**FlowsProofs** (`Invariance`: `Spec => []IInv`).
`IInv == TypeOK /\ DenseLog /\ LogReplaysChildren /\ SnapshotsAgree`.
Neither of the two log properties is inductive alone: a commit uses what its
call read long before. `SnapshotsAgree` is what connects them. It says that the
state and revision a call has read are those of the log row of that revision,
that the revision is at most the flow's, and, for each operation, that the guard
it passed still holds of the state it read. The argument is that of optimistic
concurrency:

1. `FreshCommit`: with a dense log, the revision after the one read is unused
   only if nobody has committed since. So `Unused` alone, the UNIQUE
   constraint, makes a write that commits one on the current row. The code's own
   compare-and-swap is not needed for it.
2. `AppendKeepsDense`, `AppendKeepsReplay`, `CommitKeepsSnapshots`: such a
   commit keeps the parts of the invariant.
3. One lemma per kind of commit, one for the reads, and `StepKeepsIInv` over the
   disjuncts of `Next`.

From it: `TypeCorrect`, `LogIsDense`, `LogReplays`, `StickyCancel` (no step
changes a cancelled flow, its children or its log), and `AtomicOperations`:
every step of `Flows` is a step of `FlowLedger` or leaves its tables alone.

**GatedMergeProofs** (`Invariance`: `Spec => []IInv`).
`IInv == TypeOK /\ GateInv /\ ResultInv /\ ChainIsOwnMerges`.
`GateInv` says what holds while a task is between two steps of the gate: it is
without result, its commit was approved and, once merging, passed the defensive
invariant; and at every step from which a merge may land, the guard has not
tripped and no signal is pending but one that interrupted this merge. `ResultInv` says
what a result means: a merged task's commit is on the expected commit of the
guard, a no-op's was there before, and after the end-of-run check an untripped
guard's expected commit is the branch that the check saw. From it:

- `OwnMergesOnly`: the chain the guard trusts is the pinned commit and this
  run's recorded merges;
- `MergesStop` and `MergesAreReviewed`, through `WhoMerges`: a step that appends
  a merge to the default branch is `GitMerge` or `FastForward` of the task at
  the gate;
- `DoneMeansLanded` and `DeletedWasMerged`: what is marked done, or deleted, was
  on the default branch when the end-of-run check looked.

**ReactiveProofs** (`IInv == TypeOK /\ LockInv /\ WorkerInv /\ PipeInv /\
AnswersItsQuestion`). That an answer belongs to its question is not inductive: a
verdict travels through the worker, two pipes and a buffer, and may stop at each.
`PipeInv` says what is on its way in each phase of the thread that has the lock:
nothing before a request; the request, or the whole or a torn reply to it, while
its answer is awaited; nothing again when the lock is free. `LockInv` says that
only one thread is in such a phase. A thread in the phase "failing" owes nothing to
the invariant, because the only way out of it discards the worker with its pipes.
From it: `TypeCorrect`, `AnswersTheQuestion`, `KeptWorkerIsQuiet`, for any number
of threads, commands and checks.

**StreamProofs** (`IndInv == TypeOK /\ Recorded /\ BelowLimits /\ WarningFirst /\
Awaiting /\ SuccessIsClean`), for every set of messages, of kinds of run and of
thresholds with the final warning below the kill. `Awaiting` is what
`SuccessIsClean` needs: while no reason to stop is known, each flagged call that
is open is among those awaited, and one that ran is still open, so that either its
result or the fail-closed check of `Terminate` finds it. `WarningFirst` is what
`WarnedBeforeKill` needs: the flag that forces a write, the reads counted after
it and a count of idle turns at the warning threshold each imply that the warning
was given. `BelowLimits` says that a monitor still reading has reached no limit.
From it: `CountersStayBounded`, `SuccessMeansClean`, `KillsAreWarned`.

**FanOutProofs** (`FanOutInv == TypeOK /\ FlowOfPhase /\ FlowTellsOutcomes /\ \A t \in
Tasks : TaskInv(t)`). What a flow says is computed from the child rows, so the
invariant makes each row a function of how far the run is with its task, as long
as the run knows its flow and nobody has cancelled it (`ChildOfStage`). A cancel
ends that tie; `CancelSettles` is what it leaves: each task the run has not looked
at yet is settled in `tasks` at that instant, and nothing takes it up again. From
it: `RowsKeepTheirTypes`, `FlowTellsTheOutcomes`, `SkippedTasksAreCancelled`, for
every number of tasks and every width of the semaphore.

**DevTestLoopProofs** (`LoopInv == TypeOK /\ LoopOK(phase, loop) /\ OwnCommits /\
OutcomeOK`). `LoopOK` says which counters are below their limits in which phase:
all of them, except the idle count and the repeats between a developer's report and
its judgement, and a loop that has repeated itself has had a cycle for each
repetition. `OwnCommits` says that a branch holds commits of the running attempt
alone, `OutcomeOK` that what a return says of tests and checkpoints still holds at
the end, for no agent runs in between. From it: `LimitsHold`,
`SuccessClearsCheckpoints`, `TestsPassedWereRun`, and `DispatchIsATaskRun`: under
the refinement mapping of `ImplementsTaskRun` every step of `DevTestLoop` is a step
of `TaskRun` or a stutter, for every limit, number of retries and set of changed
files. That the loop comes back, the other half of `ImplementsTaskRun`, is liveness.

**AgentRunProofs** (`AgentInv == TypeOK /\ HoldsNothing /\ TreeUnderLauncher /\
SpawnsUnaborted /\ ResultOfRun /\ BudgetLeft /\ AbortReachesTheAgent`). The process tree has an
invariant of its own, whatever the coroutine does (`TreeUnderLauncher`): a CLI runs
only under a launcher that supervises it or was killed, and what it left in the
background only until the launcher has swept. `HoldsNothing` says where in the
coroutine a launcher may be up and the handle, the listener and the directory be
held; `SpawnsUnaborted` that no await lies between the check of the abort and the
spawn. From it: `BudgetsHold`, `NothingIsLeftBehind`, `AbortIsNotLost`,
`NoStartInVain`, for all retry budgets and both ways to run an agent.

**InitiativeProofs** has two invariants. `LocalInv` holds of each process by itself,
however many run, whatever they do to the rows and with or without the lock:

- `Layered`: until every task is placed the graph of the selected ones has no cycle,
  and each task that is left has a dependency outside the layers before the last
  one. The first gives `LayersAreFound` (the tasks left would be a cycle if none of
  them were ready); the second gives the lower half of `WavesAreLayers`: a task is
  in no later wave than its chain needs.
- `Cursor` and `JobsOfWave`: the waves before the cursor are completed, and the jobs
  are those of the wave at the cursor, or of the one just completed. With
  `WavesAreLayers` they give `DependenciesComeFirst`.

`SharedInv` is about the rows, and needs `OneAtATime`: `repo_path` is given, or there
is one process, which may crash and be started again. `LockInv` then makes the run at
work the only one (`LockKeepsOneRun`; without the hypothesis, run `initiative_lock`
shows two), and what the operator may edit is in the model. `RowsOfRun` says that
nothing the run has selected and not finished is done, and that everything it has
completed is: this gives `ClosedMeansDone` and `FinishedWorkIsKept`. `CostsOfRun`
says that the high-water marks of a wave lie above everything charged before it and
below the rows that are there now: this gives `EachRunIsChargedOnce`.

The proofs rest on the named assumptions of the modules only
(`MaxRevisionAssumption`, `StatusAssumption`, `FanOutAssumption`, `NobodyAssumption`,
`BoundsAssumption`, `InitiativeAssumption`, `DevTestLoopAssumption`,
`AgentRunAssumption`, `ReactiveCheckerAssumption`, `ThresholdsAssumption`,
`InputsAssumption`), on `OneAtATime` where a theorem names it, and on the library's
facts about sequences and finite sets.

**Only model-checked:** the liveness properties `FlowEnds`, `EveryTaskIsAnswered`,
`LockIsGivenBack`, `RunEnds` (both), `OrphansStop` and the liveness in
`ImplementsTaskRun`: fairness and ENABLED are out of this prover's reach. Every
invariant and every action property of a passing run is stated by a theorem. The
properties found violated are of course not proved; their runs show a
counterexample. `OneLiveRun` is both: it fails without a repository, and is proved
with one.

## 5. Disagreements between the code and its documentation

With a run that shows them:

1. **A cancel does not reach a task that is past its check** (`loops.py:6533`):
   the cancel settles the task's row, then the dev-test loop starts and sets it to
   in_progress whatever it was. Run `fanout_cancel` shows that. Three more ways to
   lose the status are in the model: the report that the task runs raises
   `FlowCancelled`, which is logged with all other exceptions
   (`dispatch.py:5333`), and the task starts; the end of the run overwrites the
   status (`db.py:767`); a task without a worktree is marked blocked before any
   check of the cancel (`dispatch.py:5282`).
2. **A wave that succeeded is taken for a contaminated one**
   (`initiative_runner.py:1341`): the branches of its tasks are looked for after
   the dispatch has merged and deleted them, so the initiative pauses where
   `docs/INITIATIVES.md` says that it goes on. Run `initiative_isolation`.
3. **A second run of an initiative is not always refused**
   (`initiative_runner.py:743`): the repository to lock is looked for through a
   pending task, so a run that starts while another one has every unfinished task
   in progress takes no lock. It marks the initiative done under the live run, or,
   if a task has come back by the time it reads them again, dispatches it. Run
   `initiative_lock`.
4. **`reconcile_after_restart` does not look at `tasks.status`** (`flows.py:730`):
   its docstring (714-717) says that it does, and that the flow is left running
   while a child runs. It looks at the child rows, and in a git project the
   dispatcher that calls it has reported a passed task done and deferred its status
   to after the merge: the flow is done while its tasks are in_progress. A verified
   "no changes needed" is done in `tasks` and makes the flow failed. Run `fanout`,
   where `FlowTellsOutcomes` states what the code does and holds.

Seen in the code while modelling it, and modelled as it is, without a run:

- `transition`'s compare-and-swap (`flows.py:403`) accepts a loser when exactly
  one other commit came in between; the UNIQUE constraint saves the data, and the
  caller gets an `IntegrityError` in place of `FlowRevisionConflict`.
- `reconcile_after_restart` (`flows.py:734`) lists the children, then transitions
  without an expected revision: it may end a flow that has a live child again.
- `_cleanup_worktrees` (`dispatch.py:3656`) deletes a merged task's branch with
  `branch -D`, though the tip may hold commits made after the gate pinned it.
- A child is reported done before its merge, and stays done when the merge is
  refused and the task blocked (`dispatch.py:5418`).
- A tester's pass that names failed tests ends the loop as `tests_passed`
  (`loops.py:6242`), which is why `PassedMeansTested` allows it.
- The stop signal's handler stops the agents that are registered and then removes
  every configuration directory (`agent_runner.py:2552`). An agent whose spawn is
  being awaited is not registered yet, so its CLI may run on without its directory
  until its launcher hears of the orchestrator's death.
- In the monitor, the reading ratio never applies: it looks for signatures that
  start with `Read:`, and they start with `Read|` (`agent_runner.py:3552`). Were it
  to apply, it would stop a reader before any warning, and `WarnedBeforeKill` would
  not hold: the comment at 3544 means it to. The
  loop detectors index the results of all calls by the position of a call in a
  list without the writes, so they may count another call's failures
  (`monitoring.py:493`). The final warning is logged and does not reach the
  agent, and is not given a second time after a write has reset its counter.

## 6. What is abstracted, and what is not modelled

In the modelled components:

- Checks of the repository's identity (inodes, pinned git directories,
  configuration) are one action: a check that fails trips the guard.
- A review's text is a verdict; its artifact's provenance is part of the verdict.
- Merge commits of the default branch into a task's branch by an agent are not
  modelled: a task's branch is its fork point and its own commits. Content is
  not, beyond code or not: a merge whose generated files were regenerated is a
  merge.
- A rebased commit stands for the commit it was rebased from
  (`rebased_range_problem` compares them); the branch in the worktree, which the
  rebase rewrites, keeps its name for it.
- Capturing the running children into `agent_sessions` when a flow is paused or
  cancelled, and the telemetry tables, are left out; so are exceptions in the
  merge loop other than those the gate turns into a result, which end the
  dispatch much as a crash does.
- `FanOut` and `Initiative` have no database errors: a write that fails is logged
  by the code and lost. `Flows` has them (`Abort`).
- `GateTask` is the verdict of the gate in one step: the guard's look at the default
  branch, the pin of the task's branch, the diff and the check for a no-op. The code
  awaits git between them; what moves there and matters is looked at again, by
  `VerifyBeforeMerge` before the merge and by the reviewed commit that is merged
  by its SHA.
- `Initiative` assumes a git project, whose repository the isolation check after a
  wave finds: without it no branch is looked for, as if git had kept them all.
  Which tasks that check reports is a choice that holds all whose branch is gone;
  sharing a HEAD or a commit with another task are the other reasons. Of the plan file only the pause marker is
  modelled, of a pause not the question it files for people. A gate failure never
  reaches its cross-check in the parallel path, so the check is left out.
- `DevTestLoop` leaves out what agents are told: prompts, sessions, messages,
  hooks, turn budgets. `load_checkpoint` takes the file whose name sorts last,
  which is the newest only below ten; the bounds stay below it. `clear_checkpoints`
  passes over an error of `unlink`, and a file it could not delete is loaded again:
  `SuccessLeavesNoCheckpoint` holds if files can be deleted. An attempt in a project
  without git has no branch: its edits stay for the next attempt, and `TaskRun`,
  which is about commits that a merge would take, says nothing of them.
- `AgentRun` is Linux, contained by the launcher and not isolated; the walk over
  the launcher's descendants is complete. A launcher killed by someone else is the
  exception `NothingOutlivesTheRun` names. The two ways to run out of time differ
  as in the code: the waiting run does not try again, the streaming one tries
  again when the reason it gives holds the word "timeout".
- `StreamMonitor` reads a line as soon as it is printed, so `SuccessIsClean` is
  about commands whose message has been read. The text of a message precedes its
  calls, a user message holds one result, and outputs are only ok or bad. Budget
  messages, soft checkpoints and the action log change no decision and are left
  out.
- `ReactiveChecker` has the thread of a caller whose coroutine was cancelled, and
  not the coroutine. `Send` does not block. A command of 16384 bytes may become a
  request longer than a pipe holds, so a write to a worker that does not read would
  wait without a deadline; but a request is written only to a worker that has said
  it is ready or has given its last answer, and so is back at its reads, or dead
  (`KeptWorkerOwesNothing`). Only a worker that someone stops from outside at that
  point is beyond the model. The branch for a forked child is left out: the child
  has none of these threads.

Not modelled at all: pure text functions (the Bash classifier of
`bash_security.py`, the parsing of review reports that makes up most of
`loops.py`, redaction, prompts), command construction and checks on files
(`git_ops.py`, `isolation.py`), I/O, entry points and offline tools (`cli.py`,
`forgesmith.py`, `scripts/`, `tools/`). They are most of the code by lines, and
what could go wrong in them is a string no small set of inputs stands for; what
depends on their answers is modelled, with the answer as a choice. The components
of the plan below have state worth a model and none yet.

## 7. Plan

1. `MergeShield`: shields, displaced handlers, the first and the second signal,
   the abort of an unfinished merge; implements the `shutdown` of `GatedMerge`.
2. `Heartbeat`: timed-out runs that end between the select and the update,
   container databases when docker cannot be asked, against the dispatcher.
3. `AbortTree`, `CircuitBreaker`, `ConfigVersions`: one small module each.
4. ForgeSmith's rollback: what a change records and what undoing it restores.
5. `FanOut` with database errors; `run_task_in_isolation` as a second user of the
   gate in `GatedMerge`.
6. Proofs: the safety half of what the liveness properties rest on, such as that a
   flow which has not ended has a step left in the dispatcher; `FanOut` as a user
   of `FlowLedger`, step by step.
