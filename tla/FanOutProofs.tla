----------------------------- MODULE FanOutProofs -----------------------------
(***************************************************************************)
(* Proofs about FanOut: what a flow that was not cancelled says of its     *)
(* agents, and what becomes of the tasks a cancel skips, for every set of  *)
(* tasks, every semaphore and every order of the tasks' reports.           *)
(*                                                                         *)
(* While the run holds the flow's id and nobody has cancelled it, each     *)
(* flow_tasks row is a function of how far the run is with its task; the   *)
(* verdict of the reconcile, read off the rows, is then one about the      *)
(* outcomes.  A cancel breaks that tie for good, but at the instant it     *)
(* comes the rows of the tasks not yet started are all live, so it settles *)
(* every one of them in tasks, before the run can read it and skip them.   *)
(***************************************************************************)
EXTENDS FanOut, TLAPS

\* The run knows its flow and nobody has cancelled it.
Active == tracked /\ flow.state # "cancelled"

NotStarted == {"queued", "refused", "waiting", "acquired"}
Underway == {"starting", "agent", "ended", "written", "raised"}
Reported == {"over", "settled"}

\* The outcome is there from the end of the loop, or from the refusal.
OutcomeOfStage(t) ==
  /\ job[t].stage = "refused" => job[t].outcome = "failed"
  /\ job[t].stage \in {"ended", "written"} \cup Reported => job[t].outcome # "none"
  /\ job[t].stage \in {"queued", "waiting", "acquired", "starting", "agent",
                       "raised", "skipped"} => job[t].outcome = "none"

\* The run starts no task before the confirmation and leaves none behind.
StageOfPhase(t) ==
  /\ phase \in {"creating", "confirming", "aborted"} => job[t].stage = "queued"
  /\ phase \in {"reconciling", "merging", "over"} =>
       job[t].stage \in {"skipped", "raised"} \cup Reported

\* The flow_tasks row of an active run, stage by stage.
ChildOfStage(t) ==
  Active =>
    /\ phase = "creating" => children[t] \in {"absent", "pending"}
    /\ phase # "creating" =>
         /\ job[t].stage \in NotStarted => children[t] = "pending"
         /\ job[t].stage \in Underway => children[t] = "running"
         /\ job[t].stage \in Reported =>
              children[t] = IF job[t].outcome = "passed" THEN "done" ELSE "failed"

\* Only a cancel of a flow the run still knows makes it skip a task.
SkippedKnowing(t) == job[t].stage = "skipped" => Cancelled

\* The cancel has settled each task the run has yet to look at.
CancelSettles(t) ==
  Cancelled /\ phase # "creating" /\ job[t].stage \in {"queued", "waiting", "skipped"} =>
    taskStatus[t] \in SettledStatuses

TaskInv(t) == /\ OutcomeOfStage(t) /\ StageOfPhase(t) /\ ChildOfStage(t)
              /\ SkippedKnowing(t) /\ CancelSettles(t)

\* The flow of an active run, phase by phase.
FlowOfPhase ==
  Active =>
    /\ phase = "creating" => flow.state = "queued"
    /\ phase \in {"confirming", "running", "reconciling", "aborted"} =>
         flow.state = "running"

FanOutInv == TypeOK /\ FlowOfPhase /\ FlowTellsOutcomes /\ \A t \in Tasks : TaskInv(t)

-----------------------------------------------------------------------------
LEMMA Initially == ASSUME Init PROVE FanOutInv
<1>1. /\ flow = [state |-> "queued", revision |-> 0]
      /\ children = [t \in Tasks |-> "absent"]
      /\ taskStatus \in [Tasks -> TaskStatuses] /\ worktrees \in BOOLEAN
      /\ tracked = TRUE /\ phase = "creating"
      /\ job = [t \in Tasks |-> [stage |-> "queued", outcome |-> "none"]]
  BY FanOutAssumption DEF Init, Ledger!Init
<1>2. TypeOK
  BY <1>1 DEF TypeOK, FlowStates, Phases, Stages, Outcomes
<1>3. FlowOfPhase /\ FlowTellsOutcomes
  BY <1>1 DEF FlowOfPhase, FlowTellsOutcomes
<1>4. ASSUME NEW t \in Tasks PROVE TaskInv(t)
  BY <1>1 DEF TaskInv, OutcomeOfStage, StageOfPhase, ChildOfStage, SkippedKnowing,
     CancelSettles, Cancelled, NotStarted, Underway, Reported
<1> QED BY <1>2, <1>3, <1>4 DEF FanOutInv

-----------------------------------------------------------------------------
(* The steps that move the flow as a whole.                                *)

\* A task whose own state a step leaves alone keeps its invariant when the run
\* and the flow are where they were.
LEMMA TaskFrame ==
    ASSUME NEW t \in Tasks, TaskInv(t),
           job'[t] = job[t], children'[t] = children[t], taskStatus'[t] = taskStatus[t],
           phase' = phase, tracked' = tracked, flow'.state = flow.state
    PROVE  TaskInv(t)'
BY DEF TaskInv, OutcomeOfStage, StageOfPhase, ChildOfStage, SkippedKnowing,
   CancelSettles, Active, Cancelled, NotStarted, Underway, Reported

LEMMA AttachStep ==
    ASSUME FanOutInv, NEW t \in Tasks, Attach(t) PROVE FanOutInv'
<1>1. /\ TypeOK /\ FlowOfPhase /\ phase = "creating" /\ tracked
      /\ phase' = phase /\ job' = job /\ worktrees' = worktrees
  BY DEF FanOutInv, Attach
<1>2. \A u \in Tasks : TaskInv(u) /\ job[u].stage = "queued"
  BY <1>1 DEF FanOutInv, TaskInv, StageOfPhase
<1>3. CASE Ledger!AddChild(t) /\ UNCHANGED tracked
  <2>1. /\ flow' = [state |-> flow.state, revision |-> flow.revision + 1]
        /\ children' = [children EXCEPT ![t] = "pending"]
        /\ taskStatus' = taskStatus /\ tracked' = tracked
    BY <1>3 DEF Ledger!AddChild, Ledger!Bump
  <2>2. TypeOK' BY <1>1, <2>1 DEF TypeOK, ChildStates
  <2>3. FlowOfPhase' /\ FlowTellsOutcomes'
    BY <1>1, <2>1 DEF FlowOfPhase, FlowTellsOutcomes, Active
  <2>4. ASSUME NEW u \in Tasks PROVE TaskInv(u)'
    BY <1>1, <1>2, <2>1 DEF TypeOK, TaskInv, OutcomeOfStage, StageOfPhase, ChildOfStage,
       SkippedKnowing, CancelSettles, Active, Cancelled, Reported
  <2> QED BY <2>2, <2>3, <2>4 DEF FanOutInv
<1>4. CASE flow.state = "cancelled" /\ tracked' = FALSE /\ UNCHANGED rows
  <2>1. flow' = flow /\ children' = children /\ taskStatus' = taskStatus /\ ~tracked'
    BY <1>4 DEF rows
  <2>2. TypeOK' BY <1>1, <1>4, <2>1 DEF TypeOK
  <2>3. FlowOfPhase' /\ FlowTellsOutcomes'
    BY <2>1 DEF FlowOfPhase, FlowTellsOutcomes, Active
  <2>4. ASSUME NEW u \in Tasks PROVE TaskInv(u)'
    BY <1>1, <1>2, <2>1 DEF TaskInv, OutcomeOfStage, StageOfPhase, ChildOfStage,
       SkippedKnowing, CancelSettles, Active, Cancelled, Reported
  <2> QED BY <2>2, <2>3, <2>4 DEF FanOutInv
<1> QED BY <1>3, <1>4 DEF Attach

LEMMA StartFlowStep ==
    ASSUME FanOutInv, StartFlow PROVE FanOutInv'
<1>1. /\ TypeOK /\ FlowOfPhase /\ phase = "creating" /\ phase' = "confirming"
      /\ job' = job /\ worktrees' = worktrees
  BY DEF FanOutInv, StartFlow
<1>2. \A u \in Tasks : TaskInv(u) /\ job[u].stage = "queued"
  BY <1>1 DEF FanOutInv, TaskInv, StageOfPhase
<1>3. CASE /\ tracked /\ \A t \in Tasks : children[t] # "absent"
           /\ Ledger!Transition("running") /\ UNCHANGED tracked
  <2>1. /\ flow' = [state |-> "running", revision |-> flow.revision + 1]
        /\ children' = children /\ taskStatus' = taskStatus /\ tracked' = tracked
        /\ flow.state # "cancelled"
    BY <1>3 DEF Ledger!Transition, Ledger!Bump
  <2>2. TypeOK' BY <1>1, <2>1 DEF TypeOK, FlowStates, Phases
  <2>3. FlowOfPhase' /\ FlowTellsOutcomes'
    BY <1>1, <2>1 DEF FlowOfPhase, FlowTellsOutcomes
  <2>4. ASSUME NEW u \in Tasks PROVE TaskInv(u)'
    <3>1. children[u] = "pending"
      BY <1>1, <1>2, <1>3, <2>1 DEF TaskInv, ChildOfStage, Active
    <3> QED
      BY <1>1, <1>2, <2>1, <3>1 DEF TaskInv, OutcomeOfStage, StageOfPhase, ChildOfStage,
         SkippedKnowing, CancelSettles, Active, Cancelled, NotStarted, Underway, Reported
  <2> QED BY <2>2, <2>3, <2>4 DEF FanOutInv
<1>4. CASE ~tracked' /\ UNCHANGED rows
  <2>1. flow' = flow /\ children' = children /\ taskStatus' = taskStatus
    BY <1>4 DEF rows
  <2>2. tracked' \in BOOLEAN BY <1>1, <1>4 DEF StartFlow, TypeOK
  <2>3. TypeOK' BY <1>1, <2>1, <2>2 DEF TypeOK, Phases
  <2>4. FlowOfPhase' /\ FlowTellsOutcomes'
    BY <1>4, <1>1 DEF FlowOfPhase, FlowTellsOutcomes, Active
  <2>5. ASSUME NEW u \in Tasks PROVE TaskInv(u)'
    BY <1>1, <1>2, <1>4, <2>1 DEF TaskInv, OutcomeOfStage, StageOfPhase, ChildOfStage,
       SkippedKnowing, CancelSettles, Active, Cancelled, Reported
  <2> QED BY <2>3, <2>4, <2>5 DEF FanOutInv
<1> QED BY <1>3, <1>4 DEF StartFlow

LEMMA PhaseStep ==
    ASSUME FanOutInv, (\E yes \in BOOLEAN : Confirm(yes)) \/ Gather \/ EndRun
    PROVE  FanOutInv'
<1>1. /\ TypeOK /\ FlowOfPhase /\ FlowTellsOutcomes
      /\ flow' = flow /\ children' = children /\ taskStatus' = taskStatus
      /\ job' = job /\ worktrees' = worktrees /\ tracked' = tracked
  BY DEF FanOutInv, Confirm, Gather, EndRun, rows
<1>2. \A u \in Tasks : TaskInv(u) BY DEF FanOutInv
<1>3. \/ phase = "confirming" /\ phase' \in {"running", "aborted"}
      \/ /\ phase = "running" /\ phase' = "reconciling"
         /\ \A t \in Tasks : job[t].stage \in {"skipped", "raised", "over"}
      \/ phase = "merging" /\ phase' = "over"
  BY DEF Confirm, Gather, EndRun
<1>4. TypeOK' BY <1>1, <1>3 DEF TypeOK, Phases
<1>5. FlowOfPhase' /\ FlowTellsOutcomes'
  BY <1>1, <1>3 DEF FlowOfPhase, FlowTellsOutcomes, Active
<1>6. ASSUME NEW u \in Tasks PROVE TaskInv(u)'
  <2>1. TaskInv(u) BY <1>2
  <2> QED
    BY <1>1, <1>3, <2>1 DEF TaskInv, OutcomeOfStage, StageOfPhase, ChildOfStage,
       SkippedKnowing, CancelSettles, Active, Cancelled, NotStarted, Underway, Reported
<1> QED BY <1>4, <1>5, <1>6 DEF FanOutInv

\* When the flow is cancelled, every task of a running flow that the run has yet
\* to look at has a live row, and so gets its final status from the cancel.
LEMMA CancelStep ==
    ASSUME FanOutInv, OperatorCancels PROVE FanOutInv'
<1> DEFINE live == LiveIn(children)
<1>1. /\ TypeOK /\ FlowOfPhase /\ flow.state # "cancelled"
      /\ flow' = [state |-> "cancelled", revision |-> flow.revision + 1]
      /\ children' = [u \in Tasks |-> IF u \in live THEN "cancelled" ELSE children[u]]
      /\ taskStatus' = [u \in Tasks |->
                          IF u \in live /\ taskStatus[u] \notin SettledStatuses
                          THEN "cancelled" ELSE taskStatus[u]]
      /\ worktrees' = worktrees /\ tracked' = tracked /\ phase' = phase /\ job' = job
  BY DEF FanOutInv, OperatorCancels, Ledger!Cancel, Ledger!Bump, Ledger!LiveIn, LiveIn,
     Ledger!SettledStatuses, SettledStatuses, Ledger!TerminalChildStates,
     TerminalChildStates
<1>2. \A u \in Tasks : TaskInv(u) BY DEF FanOutInv
<1>3. TypeOK'
  <2>1. flow' \in [state : FlowStates, revision : Nat]
    BY <1>1 DEF TypeOK, FlowStates
  <2>2. children' \in [Tasks -> ChildStates \cup {"absent"}]
    BY <1>1 DEF TypeOK, ChildStates
  <2>3. taskStatus' \in [Tasks -> TaskStatuses]
    BY <1>1 DEF TypeOK, TaskStatuses
  <2> QED BY <1>1, <2>1, <2>2, <2>3 DEF TypeOK
<1>4. FlowOfPhase' /\ FlowTellsOutcomes'
  BY <1>1 DEF FlowOfPhase, FlowTellsOutcomes, Active
<1>5. ASSUME NEW u \in Tasks PROVE TaskInv(u)'
  <2>1. TaskInv(u) BY <1>2
  <2>2. OutcomeOfStage(u)' /\ StageOfPhase(u)' /\ ChildOfStage(u)' /\ SkippedKnowing(u)'
    BY <1>1, <2>1 DEF TaskInv, OutcomeOfStage, StageOfPhase, ChildOfStage,
       SkippedKnowing, Active, Cancelled, Reported
  <2>3. CancelSettles(u)'
    <3>1. SUFFICES ASSUME tracked, phase # "creating",
                          job[u].stage \in {"queued", "waiting", "skipped"}
                   PROVE  taskStatus'[u] \in SettledStatuses
      BY <1>1 DEF CancelSettles, Cancelled
    <3>2. job[u].stage # "skipped"
      BY <1>1, <2>1 DEF TaskInv, SkippedKnowing, Cancelled
    <3>3. children[u] = "pending"
      BY <1>1, <2>1, <3>1, <3>2 DEF TaskInv, ChildOfStage, Active, NotStarted
    <3>4. u \in live
      BY <1>1, <3>3 DEF TypeOK, LiveIn, TerminalChildStates
    <3> QED BY <1>1, <3>4 DEF SettledStatuses
  <2> QED BY <2>2, <2>3 DEF TaskInv
<1> QED BY <1>3, <1>4, <1>5 DEF FanOutInv

\* The reconcile reads its verdict off the flow_tasks rows; in an active run the
\* live rows are those of the tasks that raised, the failed ones those of the
\* tasks whose agent did not pass.
LEMMA VerdictTellsOutcomes ==
    ASSUME FanOutInv, phase = "reconciling", Active
    PROVE  Verdict = IF \E t \in Tasks : job[t].stage = "raised" THEN "running"
                     ELSE IF \E t \in Tasks : job[t].outcome \in {"failed", "no_changes"}
                     THEN "failed" ELSE "done"
<1>1. TypeOK /\ flow.state = "running" BY DEF FanOutInv, FlowOfPhase
<1>2. ASSUME NEW t \in Tasks
      PROVE  /\ t \in LiveIn(children) <=> job[t].stage = "raised"
             /\ children[t] = "failed" <=> job[t].outcome \in {"failed", "no_changes"}
  <2>1. TaskInv(t) /\ job[t].outcome \in Outcomes BY <1>1 DEF FanOutInv, TypeOK
  <2>2. CASE job[t].stage = "skipped"
    BY <2>1, <2>2 DEF TaskInv, SkippedKnowing, Active, Cancelled
  <2>3. CASE job[t].stage = "raised"
    <3>1. children[t] = "running" /\ job[t].outcome = "none"
      BY <2>1, <2>3 DEF TaskInv, ChildOfStage, OutcomeOfStage, Underway
    <3> QED BY <1>1, <2>3, <3>1 DEF TypeOK, LiveIn, TerminalChildStates
  <2>4. CASE job[t].stage \in Reported
    <3>1. /\ children[t] = IF job[t].outcome = "passed" THEN "done" ELSE "failed"
          /\ job[t].outcome \in {"passed", "no_changes", "failed"}
      BY <2>1, <2>4 DEF TaskInv, ChildOfStage, OutcomeOfStage, Outcomes
    <3> QED BY <1>1, <2>4, <3>1 DEF TypeOK, LiveIn, TerminalChildStates, Reported
  <2> QED BY <2>1, <2>2, <2>3, <2>4 DEF TaskInv, StageOfPhase
<1>3. LiveIn(children) \subseteq Tasks BY <1>1 DEF LiveIn, TypeOK
<1>4. LiveIn(children) # {} <=> \E t \in Tasks : job[t].stage = "raised"
  BY <1>2, <1>3
<1> QED BY <1>1, <1>2, <1>4 DEF Verdict

LEMMA ReconcileStep ==
    ASSUME FanOutInv, Reconcile PROVE FanOutInv'
<1>1. /\ TypeOK /\ phase = "reconciling" /\ phase' = "merging"
      /\ worktrees' = worktrees /\ tracked' = tracked /\ job' = job
  BY DEF FanOutInv, Reconcile
<1>2. \A u \in Tasks : TaskInv(u) BY DEF FanOutInv
<1>3. /\ children' = children /\ taskStatus' = taskStatus
      /\ flow' \in [state : FlowStates, revision : Nat]
      /\ ~Active => flow' = flow
      /\ Active => flow'.state = Verdict
  <2>1. CASE Active
    <3>1. Verdict \in FlowStates
      BY <1>1, <2>1, VerdictTellsOutcomes DEF FlowStates
    <3>2. CASE flow.state # Verdict
      <4>1. Ledger!Transition(Verdict)
        BY <2>1, <3>2 DEF Reconcile, Active, Cancelled
      <4>2. /\ flow' = [state |-> Verdict, revision |-> flow.revision + 1]
            /\ children' = children /\ taskStatus' = taskStatus
        BY <4>1 DEF Ledger!Transition, Ledger!Bump
      <4> QED BY <1>1, <2>1, <3>1, <4>2 DEF TypeOK
    <3>3. CASE flow.state = Verdict
      BY <1>1, <2>1, <3>3 DEF Reconcile, rows, TypeOK
    <3> QED BY <3>2, <3>3
  <2>2. CASE ~Active
    BY <1>1, <2>2 DEF Reconcile, rows, TypeOK, Active, Cancelled
  <2> QED BY <2>1, <2>2
<1>4. Active' => Active /\ flow'.state = Verdict
  BY <1>1, <1>3 DEF Active
<1>5. Cancelled' => Cancelled
  <2>1. Active => Verdict # "cancelled" BY <1>1, VerdictTellsOutcomes
  <2> QED BY <1>1, <1>3, <2>1 DEF Active, Cancelled
<1>6. Cancelled => Cancelled' BY <1>1, <1>3 DEF Active, Cancelled
<1>7. TypeOK' BY <1>1, <1>3 DEF TypeOK, Phases
<1>8. FlowOfPhase' BY <1>1 DEF FlowOfPhase
<1>9. FlowTellsOutcomes'
  BY <1>1, <1>4, VerdictTellsOutcomes DEF FlowTellsOutcomes, Active
<1>10. ASSUME NEW u \in Tasks PROVE TaskInv(u)'
  <2>1. TaskInv(u) BY <1>2
  <2>2. OutcomeOfStage(u)' /\ StageOfPhase(u)' /\ SkippedKnowing(u)' /\ CancelSettles(u)'
    BY <1>1, <1>3, <1>5, <1>6, <2>1 DEF TaskInv, OutcomeOfStage, StageOfPhase,
       SkippedKnowing, CancelSettles, Reported
  <2>3. ChildOfStage(u)'
    BY <1>1, <1>3, <1>4, <2>1 DEF TaskInv, ChildOfStage
  <2> QED BY <2>2, <2>3 DEF TaskInv
<1> QED BY <1>7, <1>8, <1>9, <1>10 DEF FanOutInv

-----------------------------------------------------------------------------
(* The steps of one task.                                                  *)

\* A step of task t that leaves the rows of the others, the state of the flow
\* and the phase alone: what is left to show is about t.
LEMMA TaskMoves ==
    ASSUME FanOutInv, NEW t \in Tasks,
           phase \in {"running", "merging"}, phase' = phase, tracked' = tracked,
           worktrees' = worktrees, flow'.state = flow.state,
           flow' \in [state : FlowStates, revision : Nat],
           \E new \in [stage : Stages, outcome : Outcomes] : job' = [job EXCEPT ![t] = new],
           \E new \in ChildStates \cup {"absent"} :
             children' = [children EXCEPT ![t] = new],
           \E new \in TaskStatuses : taskStatus' = [taskStatus EXCEPT ![t] = new],
           TaskInv(t)', FlowTellsOutcomes'
    PROVE  FanOutInv'
<1>1. TypeOK /\ FlowOfPhase BY DEF FanOutInv
<1>2. TypeOK' BY <1>1 DEF TypeOK
<1>3. FlowOfPhase' BY <1>1 DEF FlowOfPhase, Active
<1>4. ASSUME NEW u \in Tasks, u # t PROVE TaskInv(u)'
  <2>1. job'[u] = job[u] /\ children'[u] = children[u] /\ taskStatus'[u] = taskStatus[u]
    BY <1>1, <1>4 DEF TypeOK
  <2> QED BY <2>1, TaskFrame DEF FanOutInv
<1> QED BY <1>2, <1>3, <1>4 DEF FanOutInv

LEMMA GoToStage ==
    ASSUME TypeOK, NEW t \in Tasks, NEW stage \in Stages, GoTo(t, stage)
    PROVE  job' = [job EXCEPT ![t] = [stage |-> stage, outcome |-> job[t].outcome]]
<1>1. \A r \in [stage : Stages, outcome : Outcomes] :
        [r EXCEPT !.stage = stage] = [stage |-> stage, outcome |-> r.outcome]
  OBVIOUS
<1>2. job[t] \in [stage : Stages, outcome : Outcomes] BY DEF TypeOK
<1>3. [job[t] EXCEPT !.stage = stage] = [stage |-> stage, outcome |-> job[t].outcome]
  BY <1>1, <1>2
<1>4. job' = [job EXCEPT ![t] = [job[t] EXCEPT !.stage = stage]] BY Zenon DEF GoTo
<1> QED BY <1>3, <1>4

LEMMA BeforeLoopStep ==
    ASSUME FanOutInv, NEW t \in Tasks, RefuseTask(t) \/ CheckCancelled(t)
    PROVE  FanOutInv'
<1>1. /\ TypeOK /\ TaskInv(t) /\ phase = "running" /\ phase' = phase /\ tracked' = tracked
      /\ worktrees' = worktrees /\ flow' = flow /\ children' = children
  BY DEF FanOutInv, RefuseTask, CheckCancelled, rows
<1>2. FlowTellsOutcomes' BY <1>1 DEF FlowTellsOutcomes
<1>3. children' = [children EXCEPT ![t] = children[t]] BY <1>1 DEF TypeOK
<1>4. CASE RefuseTask(t)
  <2>1. /\ job[t].stage = "queued"
        /\ taskStatus' = [taskStatus EXCEPT ![t] = "blocked"]
        /\ job' = [job EXCEPT ![t] = [stage |-> "refused", outcome |-> "failed"]]
    BY <1>4 DEF RefuseTask
  <2>2. TaskInv(t)'
    BY <1>1, <2>1 DEF TypeOK, TaskInv, OutcomeOfStage, StageOfPhase, ChildOfStage,
       SkippedKnowing, CancelSettles, Active, Cancelled, NotStarted, Underway, Reported
  <2> QED BY <1>1, <1>2, <1>3, <2>1, <2>2, TaskMoves
             DEF TypeOK, Stages, Outcomes, TaskStatuses
<1>5. CASE CheckCancelled(t)
  <2>1. /\ job[t].stage \in {"queued", "waiting"} /\ taskStatus' = taskStatus
    BY <1>5 DEF CheckCancelled, rows
  <2>5. PICK stage \in {"waiting", "acquired", "skipped"} :
          GoTo(t, stage) /\ (stage = "skipped" <=> Cancelled)
    <3>1. CASE Cancelled BY <1>5, <3>1 DEF CheckCancelled
    <3>2. CASE ~Cancelled BY <1>5, <3>2 DEF CheckCancelled
    <3> QED BY <3>1, <3>2
  <2>2. job' = [job EXCEPT ![t] = [stage |-> stage, outcome |-> job[t].outcome]]
    BY <1>1, <2>5, GoToStage DEF Stages
  <2>3. TaskInv(t)'
    BY <1>1, <2>1, <2>2, <2>5 DEF TypeOK, TaskInv, OutcomeOfStage, StageOfPhase,
       ChildOfStage, SkippedKnowing, CancelSettles, Active, Cancelled, NotStarted,
       Underway, Reported
  <2>4. taskStatus' = [taskStatus EXCEPT ![t] = taskStatus[t]] BY <1>1, <2>1 DEF TypeOK
  <2> QED BY <1>1, <1>2, <1>3, <2>1, <2>2, <2>3, <2>4, TaskMoves DEF TypeOK, Stages
<1> QED BY <1>4, <1>5

\* What the two reports share: they rewrite the row of a task that has one, and
\* only while the flow is not cancelled.
LEMMA ReportStep ==
    ASSUME FanOutInv, NEW t \in Tasks, NEW state \in ChildStates, NEW stage \in Stages,
           phase = "running", phase' = phase, tracked' = tracked, worktrees' = worktrees,
           IF tracked /\ ~Cancelled THEN Ledger!UpdateChild(t, state) ELSE UNCHANGED rows,
           GoTo(t, stage),
           \/ job[t].stage = "acquired" /\ stage = "starting" /\ state = "running"
           \/ /\ job[t].stage \in {"written", "refused"} /\ stage = "over"
              /\ state = IF job[t].outcome = "passed" THEN "done" ELSE "failed"
    PROVE  FanOutInv'
<1>1. TypeOK /\ TaskInv(t) BY DEF FanOutInv
<1>2. job' = [job EXCEPT ![t] = [stage |-> stage, outcome |-> job[t].outcome]]
  BY <1>1, GoToStage
<1>3. /\ taskStatus' = taskStatus /\ flow'.state = flow.state
      /\ flow' \in [state : FlowStates, revision : Nat]
      /\ children' = [children EXCEPT ![t] = IF Active THEN state ELSE children[t]]
  <2>1. CASE Active
    <3>1. Ledger!UpdateChild(t, state) BY <2>1 DEF Active, Cancelled
    <3> QED BY <1>1, <2>1, <3>1 DEF Ledger!UpdateChild, Ledger!Bump, TypeOK
  <2>2. CASE ~Active
    <3>1. UNCHANGED rows BY <2>2 DEF Active, Cancelled
    <3> QED BY <1>1, <2>2, <3>1 DEF rows, TypeOK
  <2> QED BY <2>1, <2>2
<1>4. FlowTellsOutcomes' BY DEF FlowTellsOutcomes
<1>5. TaskInv(t)'
  BY <1>1, <1>2, <1>3 DEF TypeOK, TaskInv, OutcomeOfStage, StageOfPhase, ChildOfStage,
     SkippedKnowing, CancelSettles, Active, Cancelled, NotStarted, Underway, Reported
<1>6. job' = [job EXCEPT ![t] = job'[t]] /\ job'[t] \in [stage : Stages, outcome : Outcomes]
  BY <1>1, <1>2 DEF TypeOK
<1>7. /\ children' = [children EXCEPT ![t] = children'[t]]
      /\ children'[t] \in ChildStates \cup {"absent"}
  BY <1>1, <1>3 DEF TypeOK
<1>8. taskStatus' = [taskStatus EXCEPT ![t] = taskStatus[t]] /\ taskStatus[t] \in TaskStatuses
  BY <1>1, <1>3 DEF TypeOK
<1> QED BY <1>3, <1>4, <1>5, <1>6, <1>7, <1>8, TaskMoves

LEMMA LoopStep ==
    ASSUME FanOutInv, NEW t \in Tasks, StartLoop(t) \/ EndLoop(t) \/ WriteOutcome(t)
    PROVE  FanOutInv'
<1>1. /\ TypeOK /\ TaskInv(t) /\ phase = "running" /\ phase' = phase /\ tracked' = tracked
      /\ worktrees' = worktrees /\ flow' = flow /\ children' = children
  BY DEF FanOutInv, StartLoop, EndLoop, WriteOutcome, rows
<1>2. FlowTellsOutcomes' BY <1>1 DEF FlowTellsOutcomes
<1>3. children' = [children EXCEPT ![t] = children[t]] BY <1>1 DEF TypeOK
<1>4. PICK stage \in Underway, outcome \in Outcomes :
        /\ job' = [job EXCEPT ![t] = [stage |-> stage, outcome |-> outcome]]
        /\ job[t].stage \in {"starting", "agent", "ended"}
        /\ outcome # "none" <=> stage \in {"ended", "written"}
  <2>1. CASE StartLoop(t)
    <3>1. job[t].stage = "starting" /\ GoTo(t, "agent") BY <2>1 DEF StartLoop
    <3>2. job' = [job EXCEPT ![t] = [stage |-> "agent", outcome |-> job[t].outcome]]
      BY <1>1, <3>1, GoToStage DEF Stages
    <3> QED BY <1>1, <3>1, <3>2 DEF TypeOK, TaskInv, OutcomeOfStage, Underway
  <2>2. CASE job[t].stage = "agent" /\ GoTo(t, "raised")
    <3>1. job' = [job EXCEPT ![t] = [stage |-> "raised", outcome |-> job[t].outcome]]
      BY <1>1, <2>2, GoToStage DEF Stages
    <3> QED BY <1>1, <2>2, <3>1 DEF TypeOK, TaskInv, OutcomeOfStage, Underway
  <2>3. CASE /\ job[t].stage = "agent"
             /\ \E outcome \in Outcomes \ {"none"} :
                  job' = [job EXCEPT ![t] = [stage |-> "ended", outcome |-> outcome]]
    BY <2>3 DEF Underway
  <2>4. CASE WriteOutcome(t)
    <3>1. job[t].stage = "ended" /\ GoTo(t, "written") BY <2>4 DEF WriteOutcome
    <3>2. job' = [job EXCEPT ![t] = [stage |-> "written", outcome |-> job[t].outcome]]
      BY <1>1, <3>1, GoToStage DEF Stages
    <3> QED BY <1>1, <3>1, <3>2 DEF TypeOK, TaskInv, OutcomeOfStage, Underway
  <2> QED BY <2>1, <2>2, <2>3, <2>4 DEF EndLoop
<1>5. PICK status \in TaskStatuses : taskStatus' = [taskStatus EXCEPT ![t] = status]
  <2>1. CASE StartLoop(t) BY <2>1 DEF StartLoop, TaskStatuses
  <2>2. CASE EndLoop(t) BY <1>1, <2>2 DEF EndLoop, rows, TypeOK
  <2>3. CASE WriteOutcome(t)
    BY <1>1, <2>3 DEF WriteOutcome, StatusOf, TaskStatuses, TypeOK
  <2> QED BY <2>1, <2>2, <2>3
<1>6. TaskInv(t)'
  BY <1>1, <1>4, <1>5 DEF TypeOK, TaskInv, OutcomeOfStage, StageOfPhase, ChildOfStage,
     SkippedKnowing, CancelSettles, Active, Cancelled, NotStarted, Underway, Reported
<1>7. stage \in Stages BY DEF Underway, Stages
<1>8. [stage |-> stage, outcome |-> outcome] \in [stage : Stages, outcome : Outcomes]
  BY <1>7
<1> QED BY <1>1, <1>2, <1>3, <1>4, <1>5, <1>6, <1>8, TaskMoves DEF TypeOK

LEMMA MergeStatusStep ==
    ASSUME FanOutInv, NEW t \in Tasks, WriteStatusAfterMerge(t) PROVE FanOutInv'
<1>1. /\ TypeOK /\ TaskInv(t) /\ phase = "merging" /\ phase' = phase /\ tracked' = tracked
      /\ worktrees' = worktrees /\ flow' = flow /\ children' = children
      /\ job[t].stage = "over" /\ GoTo(t, "settled")
  BY DEF FanOutInv, WriteStatusAfterMerge
<1>2. job' = [job EXCEPT ![t] = [stage |-> "settled", outcome |-> job[t].outcome]]
  BY <1>1, GoToStage DEF Stages
<1>3. \E status \in TaskStatuses : taskStatus' = [taskStatus EXCEPT ![t] = status]
  BY DEF WriteStatusAfterMerge, TaskStatuses
<1>4. TaskInv(t)'
  BY <1>1, <1>2, <1>3 DEF TypeOK, TaskInv, OutcomeOfStage, StageOfPhase, ChildOfStage,
     SkippedKnowing, CancelSettles, Active, Cancelled, NotStarted, Underway, Reported
<1>5. \A u \in Tasks : /\ job'[u].stage = "raised" <=> job[u].stage = "raised"
                       /\ job'[u].outcome = job[u].outcome
  BY <1>1, <1>2 DEF TypeOK
<1>6. FlowTellsOutcomes' BY <1>1, <1>5 DEF FanOutInv, FlowTellsOutcomes
<1>7. [stage |-> "settled", outcome |-> job[t].outcome] \in [stage : Stages, outcome : Outcomes]
  BY <1>1 DEF TypeOK, Stages
<1>8. children' = [children EXCEPT ![t] = children[t]] BY <1>1 DEF TypeOK
<1> QED BY <1>1, <1>2, <1>3, <1>4, <1>6, <1>7, <1>8, TaskMoves DEF TypeOK

-----------------------------------------------------------------------------
(* The theorems.                                                           *)

LEMMA Invariance ==
    ASSUME FanOutInv, [Next]_vars PROVE FanOutInv'
<1>1. CASE UNCHANGED vars
  <2>1. ASSUME NEW u \in Tasks PROVE TaskInv(u)'
    BY <1>1, TaskFrame DEF FanOutInv, vars
  <2>2. TypeOK' /\ FlowOfPhase' /\ FlowTellsOutcomes'
    BY <1>1 DEF vars, FanOutInv, TypeOK, FlowOfPhase, FlowTellsOutcomes, Active
  <2> QED BY <2>1, <2>2 DEF FanOutInv
<1>2. ASSUME NEW t \in Tasks, TaskStep(t) PROVE FanOutInv'
  <2>1. CASE ReportRunning(t)
    BY <2>1, ReportStep DEF ReportRunning, ChildStates, Stages
  <2>2. CASE ReportOutcome(t)
    BY <2>2, ReportStep DEF ReportOutcome, ChildStates, Stages
  <2> QED BY <1>2, <2>1, <2>2, BeforeLoopStep, LoopStep DEF TaskStep
<1>3. CASE Dispatcher
  BY <1>2, <1>3, AttachStep, MergeStatusStep, StartFlowStep, PhaseStep, ReconcileStep
     DEF Dispatcher
<1>4. CASE OperatorCancels BY <1>4, CancelStep
<1> QED BY <1>1, <1>3, <1>4 DEF Next

LEMMA Always == Spec => []FanOutInv
BY Initially, Invariance, PTL DEF Spec

\* The flow row, its flow_tasks rows and tasks.status stay within the CHECK
\* constraints of schema.sql whatever the dispatcher and the operator do.
THEOREM RowsKeepTheirTypes == Spec => []TypeOK
<1>1. FanOutInv => TypeOK BY DEF FanOutInv
<1> QED BY <1>1, Always, PTL

\* After the reconcile a flow nobody cancelled tells what was reported of its
\* agents' outcomes, whatever tasks.status says, for any number of tasks
\* (reconcile_after_restart at the end of run_parallel_tasks).
THEOREM FlowTellsTheOutcomes == Spec => []FlowTellsOutcomes
<1>1. FanOutInv => FlowTellsOutcomes BY DEF FanOutInv
<1> QED BY <1>1, Always, PTL

\* A task the run skips because its flow was cancelled is left cancelled, or as
\* final as it was (is_cancelled in _run_with_semaphore, and cancel_flow).
THEOREM SkippedTasksAreCancelled == Spec => []SkippedIsCancelled
<1>1. FanOutInv => SkippedIsCancelled
  <2> SUFFICES ASSUME FanOutInv, NEW t \in Tasks, job[t].stage = "skipped"
               PROVE  taskStatus[t] \in SettledStatuses
    BY DEF SkippedIsCancelled
  <2>1. TaskInv(t) BY DEF FanOutInv
  <2>2. phase # "creating" BY <2>1 DEF TaskInv, StageOfPhase
  <2> QED BY <2>1, <2>2 DEF TaskInv, SkippedKnowing, CancelSettles
<1> QED BY <1>1, Always, PTL
=============================================================================
