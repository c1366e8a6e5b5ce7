-------------------------------- MODULE FanOut --------------------------------
(***************************************************************************)
(* run_parallel_tasks of equipa/dispatch.py as the driver of a task flow:  *)
(* it creates the flow, attaches its tasks, runs each under a semaphore,   *)
(* reports what became of it, and reconciles the flow at the end, while an *)
(* operator in another process may cancel the flow.                        *)
(*                                                                         *)
(* The flow operations are those of FlowLedger, which Flows.tla shows the  *)
(* code of flows.py to implement.  tasks.status has two more writers here, *)
(* the dev-test loop and update_task_status.  Whether a passing task ends  *)
(* done or blocked is the gated merge's business (GatedMerge.tla): here it *)
(* is a choice.  Outside git there are no worktrees and nothing to merge.  *)
(***************************************************************************)
EXTENDS FlowTypes, FiniteSets

CONSTANTS
  Tasks,            \* the task ids given to --tasks
  InitialStatuses,  \* the statuses they may have before
  MaxConcurrent,    \* max_concurrent of the dispatch
  Refusable         \* the tasks that may be left without an isolation worktree

ASSUME FanOutAssumption ==
  /\ InitialStatuses \subseteq TaskStatuses
  /\ MaxConcurrent \in Nat \ {0}
  /\ Refusable \subseteq Tasks

VARIABLES
  flow,        \* the flows row: [state, revision]
  children,    \* the flow_tasks rows: task -> state, or "absent"
  taskStatus,  \* tasks.status of every task
  worktrees,   \* the project is a git repository: use_worktrees
  tracked,     \* the dispatcher still holds the flow's id
  phase,       \* where the dispatcher is in run_parallel_tasks
  job          \* its record of each task: [stage, outcome]

Ledger == INSTANCE FlowLedger

rows == <<flow, children, taskStatus>>
vars == <<flow, children, taskStatus, worktrees, tracked, phase, job>>

Phases == {"creating", "confirming", "running", "reconciling", "merging", "over", "aborted"}
Stages == {"queued", "refused", "waiting", "acquired", "starting", "agent", "ended",
           "written", "skipped", "raised", "over", "settled"}
\* A no_changes claim that the branch contradicts is a failure.
Outcomes == {"none", "passed", "no_changes", "failed"}

\* Mutant of Cancelled: the flow is asked for, though the run has lost its id.
CancelledUntracked == flow.state = "cancelled"

Cancelled == tracked /\ flow.state = "cancelled"
InSemaphore == {t \in Tasks :
                  job[t].stage \in {"acquired", "starting", "agent", "ended", "written"}}
GoTo(t, stage) == job' = [job EXCEPT ![t].stage = stage]

Init ==
  /\ Ledger!Init /\ taskStatus \in [Tasks -> InitialStatuses]
  /\ worktrees \in BOOLEAN
  /\ tracked = TRUE
  /\ phase = "creating"
  /\ job = [t \in Tasks |-> [stage |-> "queued", outcome |-> "none"]]

-----------------------------------------------------------------------------
(* Creating the flow; an exception leaves the run without one.             *)

Attach(t) ==
  /\ phase = "creating" /\ tracked /\ children[t] = "absent"
  /\ \/ Ledger!AddChild(t) /\ UNCHANGED tracked
     \/ flow.state = "cancelled" /\ tracked' = FALSE /\ UNCHANGED rows
  /\ UNCHANGED <<worktrees, phase, job>>

StartFlow ==
  /\ phase = "creating"
  /\ \/ ~tracked /\ UNCHANGED <<rows, tracked>>
     \/ /\ tracked /\ \A t \in Tasks : children[t] # "absent"
        /\ \/ Ledger!Transition("running") /\ UNCHANGED tracked
           \/ flow.state = "cancelled" /\ tracked' = FALSE /\ UNCHANGED rows
  /\ phase' = "confirming"
  /\ UNCHANGED <<worktrees, job>>

\* "Proceed? (y/n)": a no returns, and leaves the flow as it is.
Confirm(yes) ==
  /\ phase = "confirming"
  /\ phase' = IF yes THEN "running" ELSE "aborted"
  /\ UNCHANGED <<rows, worktrees, tracked, job>>

-----------------------------------------------------------------------------
(* One task of the gather.                                                 *)

\* _refuse_task_without_worktree: the task does not run, and is not skipped.
RefuseTask(t) ==
  /\ t \in Refusable
  /\ phase = "running" /\ worktrees /\ job[t].stage = "queued"
  /\ taskStatus' = [taskStatus EXCEPT ![t] = "blocked"]
  /\ job' = [job EXCEPT ![t] = [stage |-> "refused", outcome |-> "failed"]]
  /\ UNCHANGED <<flow, children, worktrees, tracked, phase>>

\* is_cancelled, before the semaphore and again inside it.
CheckCancelled(t) ==
  /\ phase = "running"
  /\ \/ /\ job[t].stage = "queued"
        /\ GoTo(t, IF Cancelled THEN "skipped" ELSE "waiting")
     \/ /\ job[t].stage = "waiting" /\ Cardinality(InSemaphore) < MaxConcurrent
        /\ GoTo(t, IF Cancelled THEN "skipped" ELSE "acquired")
  /\ UNCHANGED <<rows, worktrees, tracked, phase>>

\* update_child_state(..., "running"); when it raises, FlowCancelled included,
\* the exception is logged and the task goes on.
ReportRunning(t) ==
  /\ phase = "running" /\ job[t].stage = "acquired"
  /\ IF tracked /\ ~Cancelled THEN Ledger!UpdateChild(t, "running") ELSE UNCHANGED rows
  /\ GoTo(t, "starting")
  /\ UNCHANGED <<worktrees, tracked, phase>>

\* Mutant of StartLoop: the status names the stage.
StartLoopNamed(t) ==
  /\ phase = "running" /\ job[t].stage = "starting"
  /\ taskStatus' = [taskStatus EXCEPT ![t] = "running"]
  /\ GoTo(t, "agent")
  /\ UNCHANGED <<flow, children, worktrees, tracked, phase>>

\* The dev-test loop resets the task's status, whatever it was.
StartLoop(t) ==
  /\ phase = "running" /\ job[t].stage = "starting"
  /\ taskStatus' = [taskStatus EXCEPT ![t] = "in_progress"]
  /\ GoTo(t, "agent")
  /\ UNCHANGED <<flow, children, worktrees, tracked, phase>>

EndLoop(t) ==
  /\ phase = "running" /\ job[t].stage = "agent"
  /\ \/ \E outcome \in Outcomes \ {"none"} :
          job' = [job EXCEPT ![t] = [stage |-> "ended", outcome |-> outcome]]
     \/ GoTo(t, "raised")
  /\ UNCHANGED <<rows, worktrees, tracked, phase>>

\* update_task_status, unless the status waits for the merge.
StatusOf(outcome) == IF outcome = "failed" THEN "blocked" ELSE "done"
Deferred(t) == worktrees /\ job[t].outcome = "passed"

WriteOutcome(t) ==
  /\ phase = "running" /\ job[t].stage = "ended"
  /\ IF Deferred(t) THEN UNCHANGED taskStatus
     ELSE taskStatus' = [taskStatus EXCEPT ![t] = StatusOf(job[t].outcome)]
  /\ GoTo(t, "written")
  /\ UNCHANGED <<flow, children, worktrees, tracked, phase>>

\* Mutant of ReportOutcome: every task that ran to its end is reported done.
ReportEveryOutcomeDone(t) ==
  /\ phase = "running" /\ job[t].stage \in {"written", "refused"}
  /\ IF tracked /\ ~Cancelled THEN Ledger!UpdateChild(t, "done") ELSE UNCHANGED rows
  /\ GoTo(t, "over")
  /\ UNCHANGED <<worktrees, tracked, phase>>

\* A task that needed no change is done, and its child row failed.
ReportOutcome(t) ==
  LET state == IF job[t].outcome = "passed" THEN "done" ELSE "failed" IN
  /\ phase = "running" /\ job[t].stage \in {"written", "refused"}
  /\ IF tracked /\ ~Cancelled THEN Ledger!UpdateChild(t, state) ELSE UNCHANGED rows
  /\ GoTo(t, "over")
  /\ UNCHANGED <<worktrees, tracked, phase>>

-----------------------------------------------------------------------------
(* After the gather.                                                       *)

Gather ==
  /\ phase = "running" /\ \A t \in Tasks : job[t].stage \in {"skipped", "raised", "over"}
  /\ phase' = "reconciling"
  /\ UNCHANGED <<rows, worktrees, tracked, job>>

\* reconcile_after_restart, on the flow as the only dispatcher left it.
Verdict ==
  IF LiveIn(children) # {} THEN flow.state
  ELSE IF \E t \in Tasks : children[t] = "failed" THEN "failed" ELSE "done"

\* Mutant of Reconcile: the flow only moves when it is still queued.
ReconcileQueuedOnly ==
  /\ phase = "reconciling"
  /\ IF tracked /\ ~Cancelled /\ flow.state = "queued"
     THEN Ledger!Transition(Verdict) ELSE UNCHANGED rows
  /\ phase' = "merging"
  /\ UNCHANGED <<worktrees, tracked, job>>

Reconcile ==
  /\ phase = "reconciling"
  /\ IF tracked /\ ~Cancelled /\ flow.state # Verdict
     THEN Ledger!Transition(Verdict) ELSE UNCHANGED rows
  /\ phase' = "merging"
  /\ UNCHANGED <<worktrees, tracked, job>>

\* _write_status_after_merge, for the tasks that passed.
WriteStatusAfterMerge(t) ==
  /\ phase = "merging" /\ Deferred(t) /\ job[t].stage = "over"
  /\ \E status \in {"done", "blocked"} : taskStatus' = [taskStatus EXCEPT ![t] = status]
  /\ GoTo(t, "settled")
  /\ UNCHANGED <<flow, children, worktrees, tracked, phase>>

EndRun ==
  /\ phase = "merging"
  /\ \A t \in Tasks : Deferred(t) => job[t].stage # "over"
  /\ phase' = "over"
  /\ UNCHANGED <<rows, worktrees, tracked, job>>

\* cancel_flow, from another process.
OperatorCancels == Ledger!Cancel /\ UNCHANGED <<worktrees, tracked, phase, job>>

-----------------------------------------------------------------------------
TaskStep(t) ==
  \/ RefuseTask(t)
  \/ CheckCancelled(t)
  \/ ReportRunning(t)
  \/ StartLoop(t)
  \/ EndLoop(t)
  \/ WriteOutcome(t)
  \/ ReportOutcome(t)

Dispatcher ==
  \/ \E t \in Tasks : Attach(t) \/ TaskStep(t) \/ WriteStatusAfterMerge(t)
  \/ StartFlow
  \/ \E yes \in BOOLEAN : Confirm(yes)
  \/ Gather
  \/ Reconcile
  \/ EndRun

Next == Dispatcher \/ OperatorCancels

\* The dispatcher's coroutines run on; every agent has a time limit.
Spec == Init /\ [][Next]_vars /\ WF_vars(Dispatcher)

-----------------------------------------------------------------------------
(* Properties.                                                             *)

\* The tables have their schema's shape, and the dispatcher's record its own.
TypeOK ==
  /\ flow \in [state : FlowStates, revision : Nat]
  /\ children \in [Tasks -> ChildStates \cup {"absent"}]
  /\ taskStatus \in [Tasks -> TaskStatuses]
  /\ worktrees \in BOOLEAN /\ tracked \in BOOLEAN
  /\ phase \in Phases
  /\ job \in [Tasks -> [stage : Stages, outcome : Outcomes]]

\* After the reconcile an uncancelled flow tells what was reported of its agents:
\* done when all of them passed, failed when all ended and some did not pass, and
\* still running exactly when one raised, whatever order they reported in and
\* whatever tasks.status says.  That is what the code decides on, flow_tasks.state;
\* the docstring of reconcile_after_restart (flows.py:714-717) says it inspects
\* tasks.status, where a passing task of a git project is still in_progress at
\* that time and a task that needed no change is done.
FlowTellsOutcomes ==
  phase \in {"merging", "over"} /\ tracked /\ flow.state # "cancelled" =>
    LET raised == \E t \in Tasks : job[t].stage = "raised"
        failed == \E t \in Tasks : job[t].outcome \in {"failed", "no_changes"} IN
    flow.state = IF raised THEN "running" ELSE IF failed THEN "failed" ELSE "done"

\* A task that is skipped because its flow was cancelled is left cancelled in
\* tasks, or with the final status it had: the run does not drop it silently.
SkippedIsCancelled ==
  \A t \in Tasks : job[t].stage = "skipped" => taskStatus[t] \in SettledStatuses

\* A confirmed run that knows its flow ends it, unless a task raised.
FlowEnds ==
  phase = "running" /\ tracked ~>
    flow.state \in TerminalFlowStates \/ \E t \in Tasks : job[t].stage = "raised"

\* flows.py, "Sticky cancel": "Updates each child task's status to cancelled so
\* workers observe the cancellation on the next DB read", and "the cancel is
\* sticky, not a soft pause".  A task the cancel reached stays cancelled, also
\* when its coroutine is already past the last is_cancelled.
CancelledTaskStaysCancelled ==
  [][\A t \in Tasks : taskStatus[t] = "cancelled" => taskStatus'[t] = "cancelled"]_vars
=============================================================================
