------------------------------ MODULE Initiative ------------------------------
(***************************************************************************)
(* initiative_runner.py: a run of `--initiative <id>` layers the           *)
(* unfinished tasks of an initiative into waves, dispatches one wave after *)
(* another and stops at the first failure, at a pause marker or at the     *)
(* wave cap.  Runs are processes: they may crash at any point and be       *)
(* started again, side by side if the lock lets them, while an operator    *)
(* edits the plan file and the rows.                                       *)
(*                                                                         *)
(* The dispatch of a wave is the outside of FanOut.tla: each task is set   *)
(* in_progress, ends, is charged for by an agent_runs row and, if it       *)
(* passed, gets its status and loses its branch in the merge.              *)
(***************************************************************************)
EXTENDS Integers, Sequences

CONSTANTS
  Tasks,      \* the tasks linked to the initiative
  Graphs,     \* the blocked_by graphs to plan: functions from Tasks to SUBSET Tasks
  Runs,       \* the orchestrator processes
  RepoGiven,  \* the caller passes repo_path; the command line does not
  MaxWaves,   \* --max-waves
  MaxStarts,  \* bound: how often a run is started, all processes together
  MaxEdits    \* bound: how many rows the operator edits

ASSUME InitiativeAssumption ==
  /\ Graphs \subseteq [Tasks -> SUBSET Tasks] /\ RepoGiven \in BOOLEAN
  /\ MaxWaves \in Nat /\ MaxStarts \in Nat /\ MaxEdits \in Nat
  /\ "free" \notin Runs

VARIABLES
  blockedBy,   \* tasks.blocked_by, parsed
  initiative,  \* initiatives.status
  taskStatus,  \* tasks.status
  agentRuns,   \* how many agent_runs rows a task has, each of cost 1
  totalCost,   \* initiatives.total_cost, as what each task has added to it
  branches,    \* the tasks with a forge-task-<id> branch
  lock,        \* the run that holds the flock, or "free"
  starts,      \* how many runs were started
  edits,       \* how many rows were edited by hand
  run          \* the local state of each process

database == <<initiative, taskStatus, agentRuns, totalCost>>
outside == <<blockedBy, branches, starts, edits>>
vars == <<blockedBy, initiative, taskStatus, agentRuns, totalCost, branches,
          lock, starts, edits, run>>

InitiativeStatuses == {"active", "in_progress", "paused", "done", "cancelled"}
TaskStatuses == {"todo", "in_progress", "blocked", "done", "cancelled"}
Phases == {"idle", "locking", "planning", "layering", "opening", "checking",
           "dispatching", "merging", "reading", "charging", "failing", "halting", "closing"}
JobStages == {"none", "queued", "running", "passed", "no_changes", "failed", "raised",
              "merged", "unmerged"}

NoJobs == [t \in Tasks |-> "none"]
NoRows == [t \in Tasks |-> 0]
NotStarted ==
  [phase |-> "idle", force |-> FALSE, repo |-> FALSE, selected |-> {}, waves |-> <<>>,
   wave |-> 0, job |-> NoJobs, highWater |-> NoRows, failed |-> {}, completed |-> {},
   cost |-> NoRows]

Init ==
  /\ blockedBy \in Graphs
  /\ initiative = "active"
  /\ taskStatus = [t \in Tasks |-> "todo"]
  /\ agentRuns = NoRows
  /\ totalCost = NoRows
  /\ branches = {}
  /\ lock = "free"
  /\ starts = 0 /\ edits = 0
  /\ run = [r \in Runs |-> NotStarted]

-----------------------------------------------------------------------------
(* Planning.                                                               *)

\* Mutant of PendingStatuses: done tasks are selected as well.
PendingStatusesAndDone(force) ==
  IF force THEN {"todo", "blocked", "in_progress", "done"} ELSE {"todo", "blocked", "done"}

PendingStatuses(force) ==
  IF force THEN {"todo", "blocked", "in_progress"} ELSE {"todo", "blocked"}

Pending(force) == {t \in Tasks : taskStatus[t] \in PendingStatuses(force)}

\* build_dependency_graph: a dependency that is not selected counts as satisfied.
DependencyGraph(selected) == [t \in selected |-> blockedBy[t] \cap selected]

\* detect_cycle: some tasks each wait for another one of them.
HasCycle(graph) ==
  \E C \in SUBSET DOMAIN graph : C # {} /\ \A t \in C : graph[t] \cap C # {}

Before(r, n) == UNION {run[r].waves[m] : m \in 1..(n - 1)}
Placed(r) == Before(r, Len(run[r].waves) + 1)
Remaining(r) == run[r].selected \ Placed(r)

\* Mutant of Ready: a task is placed as soon as one dependency is.
ReadyEager(r) ==
  LET graph == DependencyGraph(run[r].selected) IN
  {t \in Remaining(r) : graph[t] = {} \/ graph[t] \cap Placed(r) # {}}

Ready(r) ==
  LET graph == DependencyGraph(run[r].selected) IN
  {t \in Remaining(r) : graph[t] \subseteq Placed(r)}

Wave(r) == run[r].waves[run[r].wave]
GoTo(r, phase) == run' = [run EXCEPT ![r].phase = phase]

\* The process is over, and the flock goes with it.
Leave(r) ==
  /\ run' = [run EXCEPT ![r] = NotStarted]
  /\ lock' = IF lock = r THEN "free" ELSE lock

\* A repository that is not given is looked for through the first pending task,
\* before the lock.
Start(r, force) ==
  /\ run[r].phase = "idle" /\ starts < MaxStarts
  /\ starts' = starts + 1
  /\ run' = [run EXCEPT ![r] = [NotStarted EXCEPT !.phase = "locking", !.force = force,
                                                  !.repo = RepoGiven \/ Pending(force) # {}]]
  /\ UNCHANGED <<blockedBy, database, branches, edits, lock>>

\* Without a repository there is no lock; a held one refuses the run.
Lock(r) ==
  /\ run[r].phase = "locking"
  /\ IF run[r].repo /\ lock # "free" THEN Leave(r)
     ELSE GoTo(r, "planning") /\ lock' = IF run[r].repo THEN r ELSE lock
  /\ UNCHANGED <<database, outside>>

Plan(r) ==
  LET graph == DependencyGraph(Pending(run[r].force)) IN
  /\ run[r].phase = "planning"
  /\ \/ initiative = "done" /\ Leave(r)
     \/ /\ initiative # "done" /\ DOMAIN graph = {}
        /\ GoTo(r, "closing") /\ UNCHANGED lock
     \/ initiative # "done" /\ HasCycle(graph) /\ Leave(r)
     \/ /\ initiative # "done" /\ DOMAIN graph # {} /\ ~HasCycle(graph)
        /\ run' = [run EXCEPT ![r].phase = "layering", ![r].selected = DOMAIN graph]
        /\ UNCHANGED lock
  /\ UNCHANGED <<database, outside>>

\* The loop of compute_waves, with the guard that should be unreachable.
PlaceWave(r) ==
  /\ run[r].phase = "layering"
  /\ IF Remaining(r) # {} /\ Ready(r) = {} THEN Leave(r)
     ELSE /\ IF Remaining(r) = {} THEN GoTo(r, "opening")
             ELSE run' = [run EXCEPT ![r].waves = Append(@, Ready(r))]
          /\ UNCHANGED lock
  /\ UNCHANGED <<database, outside>>

MarkInProgress(r) ==
  /\ run[r].phase = "opening"
  /\ initiative' = "in_progress"
  /\ run' = [run EXCEPT ![r].phase = "checking", ![r].wave = 1]
  /\ UNCHANGED <<taskStatus, agentRuns, totalCost, outside, lock>>

-----------------------------------------------------------------------------
(* One wave.                                                               *)

\* Mutant of BeginWave: at the cap the waves count as done.
BeginWaveCapCloses(r, marker) ==
  /\ run[r].phase = "checking"
  /\ \/ run[r].wave > Len(run[r].waves) /\ GoTo(r, "closing")
     \/ run[r].wave > MaxWaves /\ GoTo(r, "closing")
     \/ run[r].wave <= Len(run[r].waves) /\ marker /\ GoTo(r, "halting")
     \/ /\ run[r].wave <= Len(run[r].waves) /\ run[r].wave <= MaxWaves /\ ~marker
        /\ run' = [run EXCEPT ![r].phase = "dispatching", ![r].highWater = agentRuns,
                     ![r].job = [t \in Tasks |-> IF t \in Wave(r) THEN "queued" ELSE "none"]]
  /\ UNCHANGED <<database, outside, lock>>

\* The cap, then the pause marker, then the high-water marks.  The plan file is
\* read afresh, and an operator may have put a marker there at any time.
BeginWave(r, marker) ==
  /\ run[r].phase = "checking"
  /\ \/ run[r].wave > Len(run[r].waves) /\ GoTo(r, "closing")
     \/ /\ run[r].wave <= Len(run[r].waves) /\ (run[r].wave > MaxWaves \/ marker)
        /\ GoTo(r, "halting")
     \/ /\ run[r].wave <= Len(run[r].waves) /\ run[r].wave <= MaxWaves /\ ~marker
        /\ run' = [run EXCEPT ![r].phase = "dispatching", ![r].highWater = agentRuns,
                     ![r].job = [t \in Tasks |-> IF t \in Wave(r) THEN "queued" ELSE "none"]]
  /\ UNCHANGED <<database, outside, lock>>

\* DispatchRefused, or the operator answers no: no task of the wave runs.
RefuseWave(r) ==
  /\ run[r].phase = "dispatching" /\ \A t \in Wave(r) : run[r].job[t] = "queued"
  /\ GoTo(r, "reading")
  /\ UNCHANGED <<database, outside, lock>>

StartTask(r, t) ==
  /\ run[r].phase = "dispatching" /\ run[r].job[t] = "queued"
  /\ taskStatus' = [taskStatus EXCEPT ![t] = "in_progress"]
  /\ branches' = branches \cup {t}
  /\ run' = [run EXCEPT ![r].job[t] = "running"]
  /\ UNCHANGED <<blockedBy, initiative, agentRuns, totalCost, lock, starts, edits>>

\* A task that passed waits for the merge with its status; one that raised has
\* no row.
EndTask(r, t, stage) ==
  /\ run[r].phase = "dispatching" /\ run[r].job[t] = "running"
  /\ stage \in {"passed", "no_changes", "failed", "raised"}
  /\ run' = [run EXCEPT ![r].job[t] = stage]
  /\ taskStatus' = CASE stage = "no_changes" -> [taskStatus EXCEPT ![t] = "done"]
                     [] stage = "failed" -> [taskStatus EXCEPT ![t] = "blocked"]
                     [] OTHER -> taskStatus
  /\ agentRuns' = IF stage = "raised" THEN agentRuns
                  ELSE [agentRuns EXCEPT ![t] = @ + 1]
  /\ UNCHANGED <<initiative, totalCost, outside, lock>>

\* Mutant of Gather: an exception of one task is never collected.
GatherWithoutExceptions(r) ==
  /\ run[r].phase = "dispatching"
  /\ \A t \in Wave(r) : run[r].job[t] \in {"passed", "no_changes", "failed"}
  /\ GoTo(r, "merging")
  /\ UNCHANGED <<database, outside, lock>>

Gather(r) ==
  /\ run[r].phase = "dispatching"
  /\ \A t \in Wave(r) : run[r].job[t] \in {"passed", "no_changes", "failed", "raised"}
  /\ GoTo(r, "merging")
  /\ UNCHANGED <<database, outside, lock>>

\* The gated merge and the clean-up after it: a merged branch is deleted, unless
\* git keeps its worktree.
MergeTask(r, t) ==
  /\ run[r].phase = "merging" /\ run[r].job[t] = "passed"
  /\ \/ /\ taskStatus' = [taskStatus EXCEPT ![t] = "done"]
        /\ run' = [run EXCEPT ![r].job[t] = "merged"]
        /\ branches' \in {branches, branches \ {t}}
     \/ /\ taskStatus' = [taskStatus EXCEPT ![t] = "blocked"]
        /\ run' = [run EXCEPT ![r].job[t] = "unmerged"]
        /\ UNCHANGED branches
  /\ UNCHANGED <<blockedBy, initiative, agentRuns, totalCost, lock, starts, edits>>

EndDispatch(r) ==
  /\ run[r].phase = "merging" /\ \A t \in Wave(r) : run[r].job[t] # "passed"
  /\ GoTo(r, "reading")
  /\ UNCHANGED <<database, outside, lock>>

\* What verify_wave_branch_isolation may report: each task without a branch, and of
\* the others those whose branch git cannot read, or that shares its head or a commit
\* with another one's (which commits a branch holds is not modelled).
IsolationReports(r) == {V \in SUBSET Wave(r) : Wave(r) \ branches \subseteq V}

\* A wave's task succeeded when its row is done and it is not reported.
Succeeded(r, violations) == {t \in Wave(r) : taskStatus[t] = "done" /\ t \notin violations}

\* Mutant of WaveCost: the rows of earlier attempts are added again.
WaveCostOfAll(r) == [t \in Tasks |-> IF t \in Wave(r) THEN agentRuns[t] ELSE 0]

\* Only rows after the high-water mark.
WaveCost(r) ==
  [t \in Tasks |-> IF t \in Wave(r) THEN agentRuns[t] - run[r].highWater[t] ELSE 0]
Charge(r) == totalCost' = [t \in Tasks |-> totalCost[t] + run[r].cost[t]]

ReadBack(r, violations) ==
  /\ run[r].phase = "reading" /\ violations \in IsolationReports(r)
  /\ run' = [run EXCEPT ![r].phase = "charging", ![r].cost = WaveCost(r),
                        ![r].failed = Wave(r) \ Succeeded(r, violations),
                        ![r].completed = @ \cup Succeeded(r, violations)]
  /\ UNCHANGED <<database, outside, lock>>

\* Mutant of AddCost: the run goes on after a failure.
AddCostAndGoOn(r) ==
  /\ run[r].phase = "charging"
  /\ Charge(r)
  /\ run' = [run EXCEPT ![r].phase = "checking", ![r].wave = @ + 1]
  /\ UNCHANGED <<initiative, taskStatus, agentRuns, outside, lock>>

\* The cost counts whatever became of the wave.
AddCost(r) ==
  /\ run[r].phase = "charging"
  /\ Charge(r)
  /\ run' = IF run[r].failed = {}
            THEN [run EXCEPT ![r].phase = "checking", ![r].wave = @ + 1]
            ELSE [run EXCEPT ![r].phase = "failing"]
  /\ UNCHANGED <<initiative, taskStatus, agentRuns, outside, lock>>

-----------------------------------------------------------------------------
(* The ends of a run.                                                      *)

\* Mutant of MarkPaused: the initiative gets the status of a task.
MarkPausedBlocked(r) ==
  /\ run[r].phase \in {"failing", "halting"}
  /\ initiative' = "blocked"
  /\ Leave(r)
  /\ UNCHANGED <<taskStatus, agentRuns, totalCost, outside>>

\* mark_paused; the open question it files is read by people only.
MarkPaused(r) ==
  /\ run[r].phase \in {"failing", "halting"}
  /\ initiative' = "paused"
  /\ Leave(r)
  /\ UNCHANGED <<taskStatus, agentRuns, totalCost, outside>>

MarkDone(r) ==
  /\ run[r].phase = "closing"
  /\ initiative' = "done"
  /\ Leave(r)
  /\ UNCHANGED <<taskStatus, agentRuns, totalCost, outside>>

Crash(r) ==
  /\ run[r].phase # "idle"
  /\ Leave(r)
  /\ UNCHANGED <<database, outside>>

-----------------------------------------------------------------------------
(* The operator edits the rows by SQL.                                     *)

CancelInitiative ==
  /\ edits < MaxEdits /\ edits' = edits + 1
  /\ initiative # "done" /\ initiative' = "cancelled"
  /\ UNCHANGED <<blockedBy, taskStatus, agentRuns, totalCost, branches, lock, starts, run>>

\* A stuck task goes back to todo, an unfinished one is given up.
EditTask(t, status) ==
  /\ edits < MaxEdits /\ edits' = edits + 1
  /\ \/ status = "todo" /\ taskStatus[t] = "in_progress"
     \/ status = "cancelled" /\ taskStatus[t] # "done"
  /\ taskStatus' = [taskStatus EXCEPT ![t] = status]
  /\ UNCHANGED <<blockedBy, initiative, agentRuns, totalCost, branches, lock, starts, run>>

Operator ==
  \/ CancelInitiative
  \/ \E t \in Tasks, status \in {"todo", "cancelled"} : EditTask(t, status)

-----------------------------------------------------------------------------
Step(r) ==
  \/ Lock(r)
  \/ Plan(r)
  \/ PlaceWave(r)
  \/ MarkInProgress(r)
  \/ \E marker \in BOOLEAN : BeginWave(r, marker)
  \/ RefuseWave(r)
  \/ \E t \in Tasks : StartTask(r, t)
  \/ \E t \in Tasks, stage \in JobStages : EndTask(r, t, stage)
  \/ Gather(r)
  \/ \E t \in Tasks : MergeTask(r, t)
  \/ EndDispatch(r)
  \/ \E violations \in SUBSET Tasks : ReadBack(r, violations)
  \/ AddCost(r)
  \/ MarkPaused(r)
  \/ MarkDone(r)

Next ==
  \/ \E r \in Runs : Step(r) \/ Crash(r) \/ \E force \in BOOLEAN : Start(r, force)
  \/ Operator

\* A process runs on until it ends: an agent of the wave has a time limit.
Spec == Init /\ [][Next]_vars /\ \A r \in Runs : WF_vars(Step(r))

-----------------------------------------------------------------------------
(* Properties.                                                             *)

\* The rows have the values the code writes, and a run its own shape.
TypeOK ==
  /\ blockedBy \in Graphs
  /\ initiative \in InitiativeStatuses
  /\ taskStatus \in [Tasks -> TaskStatuses]
  /\ agentRuns \in [Tasks -> Nat] /\ totalCost \in [Tasks -> Nat]
  /\ branches \subseteq Tasks
  /\ lock \in Runs \cup {"free"}
  /\ starts \in 0..MaxStarts /\ edits \in 0..MaxEdits
  /\ run \in [Runs -> [phase : Phases, force : BOOLEAN, repo : BOOLEAN,
                       selected : SUBSET Tasks, waves : Seq(SUBSET Tasks), wave : Nat,
                       job : [Tasks -> JobStages], highWater : [Tasks -> Nat],
                       failed : SUBSET Tasks, completed : SUBSET Tasks,
                       cost : [Tasks -> Nat]]]

\* The tasks a run has given to an agent.
Dispatched(r) == {t \in Tasks : run[r].job[t] \notin {"none", "queued"}}

\* A run gives a task to an agent only when every dependency it selected with it
\* came back done in an earlier wave of this same run, whatever the graph, and
\* however statuses moved since the plan was made.
WavesInOrder ==
  \A r \in Runs : \A t \in Dispatched(r) :
    blockedBy[t] \cap run[r].selected \subseteq run[r].completed

\* compute_waves puts every selected task into exactly one wave, and that is the
\* longest chain of selected dependencies it stands at the end of: all of its
\* dependencies are in earlier waves, one of them in the wave just before.
WaveIsLongestChain ==
  \A r \in Runs :
    /\ Placed(r) \subseteq run[r].selected
    /\ run[r].phase # "layering" => Remaining(r) = {}
    /\ \A n \in DOMAIN run[r].waves : \A t \in run[r].waves[n] :
         /\ t \notin Before(r, n)
         /\ blockedBy[t] \cap run[r].selected \subseteq Before(r, n)
         /\ n > 1 => blockedBy[t] \cap run[r].waves[n - 1] # {}

\* A run that closes after its waves leaves no task it selected short of done,
\* whatever the operator edited meanwhile: neither the cap nor a failure is ever
\* taken for the end of the plan.
WavesDoneMeansTasksDone ==
  \A r \in Runs : run[r].phase = "closing" =>
    \A t \in run[r].selected : taskStatus[t] = "done"

\* The cost of an initiative never exceeds what its agents cost, task by task: one
\* that is dispatched again after a failure or a crash adds only its new runs.
NeverOvercounts == \A t \in Tasks : totalCost[t] <= agentRuns[t]

\* Work that is done is not done again: no wave of this or a later run takes a
\* done task, however often runs crash and resume.
DoneTaskStaysDone ==
  [][\A t \in Tasks : taskStatus[t] = "done" => taskStatus'[t] = "done"]_vars

\* A run that has begun comes to an end, by itself or by a crash.
RunEnds == \A r \in Runs : run[r].phase # "idle" ~> run[r].phase = "idle"

\* INITIATIVES.md, "Completion": "when every wave succeeds, the initiative is
\* marked done".  A run that halts on the results of a wave has a task in it whose
\* work was not merged and needed to be, or one whose branch is there and was found
\* contaminated or unreadable.
HaltsOnAFailure ==
  \A r \in Runs : run[r].phase = "failing" =>
    \E t \in Wave(r) :
      run[r].job[t] \notin {"merged", "no_changes"} \/ t \in run[r].failed \cap branches

\* INITIATIVES.md, "Concurrency": "A second concurrent run of the same id on the same
\* host refuses to start rather than double-dispatching a wave."
OneLiveRun ==
  \A r, s \in Runs :
    r # s => run[r].phase \in {"idle", "locking"} \/ run[s].phase \in {"idle", "locking"}
=============================================================================
