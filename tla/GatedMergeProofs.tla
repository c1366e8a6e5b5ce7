--------------------------- MODULE GatedMergeProofs ---------------------------
(***************************************************************************)
(* The gated merge, for every set of tasks, every concurrency, both        *)
(* feature flags and every bound on what the other writers do.             *)
(*                                                                         *)
(* The invariants follow the two things _gated_merge_task knows.  While a  *)
(* task is in the gate (GateInv) the commit it pinned was approved and no  *)
(* later commit can take its place, the artifact has been checked again by *)
(* the time git runs, and neither a trip nor a shutdown has come before    *)
(* the merge it stops.  Once tasks have results (ResultInv) each merged    *)
(* commit is in the guard's chain, and the chain is what the end-of-run    *)
(* check saw unless the guard tripped.  ChainIsOwnMerges closes the        *)
(* induction: the chain grows only in RecordMerge, by the merge just       *)
(* concluded.  The action properties then follow from one step under the   *)
(* invariant.                                                              *)
(***************************************************************************)
EXTENDS GatedMerge, SequenceTheorems, TLAPS

\* What holds of the task in the gate, whatever the other writers do meanwhile.
GateInv ==
  gate.step # "idle" =>
    /\ gate.task \in Tasks
    /\ phase \in {"merging", "dead"}
    /\ job[gate.task].result = "none"
    /\ Approves(gate.task, gate.sha)
    /\ gate.step \in {"merging", "merged", "conflicted", "rebased", "forwarded", "landed"} =>
         (ExpectArtifact(gate.task, gate.sha) => job[gate.task].review.verdict = "clean")
    /\ gate.step \in {"verified", "merging", "conflicted", "rebased"} =>
         ~guard.tripped /\ shutdown \subseteq {gate.task}

\* What a result says: only a pinned run has results, a done one is in the
\* guard's chain, and the statuses are written about the branch that chain ends.
ResultInv ==
  /\ phase = "merging" => guard.pinned
  /\ \A t \in Tasks :
       job[t].result # "none" =>
         guard.pinned /\ phase \in {"merging", "writing", "cleaning", "over", "dead"}
  /\ \A t \in Tasks :
       job[t].result \in {"merged", "noop"} => Landed(t, job[t].sha, guard.expected)
  /\ phase \in {"writing", "cleaning"} /\ guard.pinned /\ ~guard.tripped =>
       seen = guard.expected

\* The inductive invariant.
IInv == TypeOK /\ GateInv /\ ResultInv /\ ChainIsOwnMerges

\* The assumptions on the constants, one by one.
LEMMA BoundTypes ==
  /\ MaxCommits \in Nat /\ MaxMoves \in Nat /\ MaxRuns \in Nat
  /\ Nobody \notin Tasks
BY BoundsAssumption, NobodyAssumption

\* No commits and no entries are a branch and a history.
LEMMA EmptyTypes ==
  /\ <<>> \in Seq(Commit) /\ <<>> \in Seq(Entry)
OBVIOUS

\* A merge makes a history one entry longer.
LEMMA MergeType ==
  ASSUME NEW h \in Seq(Entry), NEW t \in Tasks, NEW sha \in Seq(Commit)
  PROVE  /\ Merge(h, t, sha) \in Seq(Entry)
         /\ Len(Merge(h, t, sha)) = Len(h) + 1
<1>1. [by |-> t, sha |-> sha, number |-> 0] \in Entry
  BY BoundTypes DEF Entry
<1> QED
  BY <1>1 DEF Merge

\* The records a run starts with have their types.
LEMMA InitialTypes ==
  /\ NewJob \in Job /\ IdleGate \in Gate /\ NoGuard \in Guard /\ NoBranch \in Branch
BY EmptyTypes DEF NewJob, NoReview, Stages, Outcomes, Results, Verdicts, Job, Review,
  IdleGate, GateSteps, Gate, NoGuard, Guard, NoBranch, Branch

\* The first dispatch finds well-formed tables and branches.
LEMMA InitTypes == Init => TypeOK
<1> SUFFICES ASSUME Init PROVE TypeOK
  OBVIOUS
<1>1. row \in [Tasks -> Row]
  BY EmptyTypes DEF Init, Row, Statuses
<1>2. spent \in [commits : 0 .. MaxCommits, moves : 0 .. MaxMoves, runs : Nat]
  BY BoundTypes DEF Init
<1> QED
  BY <1>1, <1>2, EmptyTypes, InitialTypes DEF Init, TypeOK, Phases

\* What the code writes into a job, a row, a gate and the guard has its type.
LEMMA JobStage ==
  ASSUME job \in [Tasks -> Job], NEW t \in Tasks, NEW stage \in Stages
  PROVE  [job EXCEPT ![t].stage = stage] \in [Tasks -> Job]
BY DEF Job

\* A job whose stage and outcome are set is a job.
LEMMA JobOutcome ==
  ASSUME job \in [Tasks -> Job], NEW t \in Tasks, NEW stage \in Stages,
         NEW outcome \in Outcomes
  PROVE  [job EXCEPT ![t].stage = stage, ![t].outcome = outcome] \in [Tasks -> Job]
BY DEF Job

\* A job that is given a review is a job.
LEMMA JobReview ==
  ASSUME job \in [Tasks -> Job], NEW t \in Tasks, NEW stage \in Stages,
         NEW review \in Review
  PROVE  [job EXCEPT ![t].stage = stage, ![t].review = review] \in [Tasks -> Job]
BY DEF Job

\* A job whose review has ended is a job.
LEMMA JobEndsReview ==
  ASSUME job \in [Tasks -> Job], NEW t \in Tasks, NEW stage \in Stages,
         NEW verdict \in Verdicts, NEW end \in Seq(Commit), NEW outcome \in Outcomes
  PROVE  [job EXCEPT ![t].stage = stage, ![t].review.verdict = verdict,
                     ![t].review.end = end, ![t].outcome = outcome] \in [Tasks -> Job]
<1>1. [job[t].review EXCEPT !.verdict = verdict, !.end = end] \in Review
  BY DEF Job, Review
<1>2. [job[t] EXCEPT !.stage = stage, !.review.verdict = verdict, !.review.end = end,
                     !.outcome = outcome] \in Job
  BY <1>1 DEF Job, Review
<1> QED
  BY <1>2

\* Concluding a merge leaves well-formed jobs and the idle gate.
LEMMA ConcludeTypes ==
  ASSUME TypeOK, NEW t \in Tasks, NEW result \in Results, NEW sha \in Seq(Commit),
         Conclude(t, result, sha)
  PROVE  job' \in [Tasks -> Job] /\ gate' \in Gate
BY InitialTypes DEF Conclude, Job, TypeOK

\* A branch with other commits is a branch.
LEMMA BranchCommits ==
  ASSUME branch \in [Tasks -> Branch], NEW t \in Tasks, NEW c \in Seq(Commit)
  PROVE  [branch EXCEPT ![t].commits = c] \in [Tasks -> Branch]
BY DEF Branch

\* A gate at another step is a gate.
LEMMA GateStep ==
  ASSUME gate \in Gate, NEW step \in GateSteps
  PROVE  [gate EXCEPT !.step = step] \in Gate
BY DEF Gate

\* A gate that has noted HEAD is a gate.
LEMMA GateHead ==
  ASSUME gate \in Gate, NEW step \in GateSteps, NEW h \in Seq(Entry)
  PROVE  /\ [gate EXCEPT !.step = step, !.pre = h] \in Gate
         /\ [gate EXCEPT !.step = step, !.post = h] \in Gate
BY DEF Gate

\* A tripped guard is a guard.
LEMMA GuardTrips ==
  ASSUME guard \in Guard
  PROVE  [guard EXCEPT !.tripped = TRUE] \in Guard
BY DEF Guard

\* A guard that expects another commit is a guard.
LEMMA GuardAdvances ==
  ASSUME guard \in Guard, NEW h \in Seq(Entry)
  PROVE  [guard EXCEPT !.expected = h] \in Guard
BY DEF Guard

\* A check of the default branch leaves a guard.
LEMMA VerifyTypes ==
  ASSUME guard \in Guard, Verify
  PROVE  guard' \in Guard
BY DEF Guard, Verify

\* A row written with its merged commit is a row.
LEMMA RowWritten ==
  ASSUME row \in [Tasks -> Row], NEW t \in Tasks, NEW status \in Statuses,
         NEW sha \in Seq(Commit)
  PROVE  [row EXCEPT ![t] = [status |-> status, merged |-> sha]] \in [Tasks -> Row]
BY DEF Row

\* A row with another status is a row.
LEMMA RowStatus ==
  ASSUME row \in [Tasks -> Row], NEW t \in Tasks, NEW status \in Statuses
  PROVE  [row EXCEPT ![t].status = status] \in [Tasks -> Row]
BY DEF Row

\* Every step keeps the types.
LEMMA StepTypes == TypeOK /\ GateInv /\ [Next]_vars => TypeOK'
<1> SUFFICES ASSUME TypeOK, GateInv, [Next]_vars PROVE TypeOK'
  OBVIOUS
<1> USE DEF TypeOK, repository
<1>1. CASE UNCHANGED vars
  BY <1>1 DEF vars
<1>2. ASSUME NEW pinned \in BOOLEAN, PinDefaultBranch(pinned) PROVE TypeOK'
  <2>1. guard' \in Guard
    BY <1>2, InitialTypes DEF PinDefaultBranch, Guard
  <2> QED
    BY <1>2, <2>1 DEF PinDefaultBranch, Phases
<1>3. ASSUME NEW t \in Tasks, CreateWorktree(t) PROVE TypeOK'
  <2>1. branch' \in [Tasks -> Branch]
    <3>1. [exists |-> TRUE, fork |-> main, commits |-> <<>>] \in Branch
      BY EmptyTypes DEF Branch
    <3>2. [branch EXCEPT ![t] = [exists |-> TRUE, fork |-> main, commits |-> <<>>]]
            \in [Tasks -> Branch]
      BY <3>1
    <3> QED
      BY <1>3, <3>2 DEF CreateWorktree
  <2>2. job' \in [Tasks -> Job]
    <3>1. {"waiting", "refused"} \subseteq Stages
      BY DEF Stages
    <3>2. \E stage \in {"waiting", "refused"} : job' = [job EXCEPT ![t].stage = stage]
      BY <1>3 DEF CreateWorktree
    <3> QED
      BY <3>1, <3>2, JobStage
  <2> QED
    BY <1>3, <2>1, <2>2 DEF CreateWorktree
<1>4. CASE StartAgents
  BY <1>4 DEF StartAgents, Phases
<1>5. ASSUME NEW t \in Tasks, StartTask(t) PROVE TypeOK'
  <2>1. job' \in [Tasks -> Job]
    <3>1. {"settled", "agent"} \subseteq Stages
      BY DEF Stages
    <3>2. \E stage \in {"settled", "agent"} : job' = [job EXCEPT ![t].stage = stage]
      BY <1>5 DEF StartTask
    <3> QED
      BY <3>1, <3>2, JobStage
  <2>2. row' \in [Tasks -> Row]
    <3>1. {"blocked", "in_progress"} \subseteq Statuses
      BY DEF Statuses
    <3>2. \/ row' = [row EXCEPT ![t] = [status |-> "blocked", merged |-> <<>>]]
          \/ row' = [row EXCEPT ![t].status = "in_progress"]
      BY <1>5 DEF StartTask
    <3>3. [row EXCEPT ![t] = [status |-> "blocked", merged |-> <<>>]] \in [Tasks -> Row]
      BY <3>1, RowWritten, EmptyTypes
    <3>4. [row EXCEPT ![t].status = "in_progress"] \in [Tasks -> Row]
      BY <3>1, RowStatus
    <3> QED
      BY <3>2, <3>3, <3>4
  <2> QED
    BY <1>5, <2>1, <2>2 DEF StartTask
<1>6. ASSUME NEW t \in Tasks, NEW o \in {"tests_passed", "no_changes", "failed"},
             AgentEnds(t, o)
      PROVE  TypeOK'
  <2>1. job' \in [Tasks -> Job]
    BY <1>6, JobOutcome DEF AgentEnds, Stages, Outcomes
  <2> QED
    BY <1>6, <2>1 DEF AgentEnds
<1>7. ASSUME NEW t \in Tasks, TaskRaises(t) PROVE TypeOK'
  BY <1>7, JobStage DEF TaskRaises, Stages
<1>8. ASSUME NEW t \in Tasks, NEW dirty \in BOOLEAN, CheckClaim(t, dirty) PROVE TypeOK'
  <2>1. job' \in [Tasks -> Job]
    <3>1. "reviewed" \in Stages /\ "no_changes_contradicted" \in Outcomes
      BY DEF Stages, Outcomes
    <3>2. job[t].outcome \in Outcomes
      BY DEF Job
    <3>3. PICK o \in Outcomes :
            job' = [job EXCEPT ![t].stage = "reviewed", ![t].outcome = o]
      BY <1>8, <3>1, <3>2 DEF CheckClaim
    <3> QED
      BY <3>1, <3>3, JobOutcome
  <2> QED
    BY <1>8, <2>1 DEF CheckClaim
<1>9. ASSUME NEW t \in Tasks, SkipReview(t) PROVE TypeOK'
  BY <1>9, JobStage DEF SkipReview, Stages
<1>10. ASSUME NEW t \in Tasks, NEW clean \in BOOLEAN, StartReview(t, clean) PROVE TypeOK'
  <2>1. [verdict |-> "running", sha |-> branch[t].commits, end |-> <<>>, clean |-> clean]
          \in Review
    BY EmptyTypes DEF Review, Verdicts, Branch
  <2>2. job' \in [Tasks -> Job]
    BY <1>10, <2>1, JobReview DEF StartReview, Stages
  <2> QED
    BY <1>10, <2>2 DEF StartReview
<1>11. ASSUME NEW t \in Tasks, NEW v \in Verdicts \ {"none", "running"}, EndReview(t, v)
       PROVE  TypeOK'
  <2>1. branch[t].commits \in Seq(Commit)
    BY DEF Branch
  <2>2. job' \in [Tasks -> Job]
    <3>1. "reviewed" \in Stages /\ "security_review_blocked" \in Outcomes
      BY DEF Stages, Outcomes
    <3>2. job[t].outcome \in Outcomes
      BY DEF Job
    <3>3. PICK o \in Outcomes :
            job' = [job EXCEPT ![t].stage = "reviewed", ![t].review.verdict = v,
                               ![t].review.end = branch[t].commits, ![t].outcome = o]
      BY <1>11, <3>1, <3>2 DEF EndReview
    <3> QED
      BY <2>1, <3>1, <3>3, JobEndsReview
  <2> QED
    BY <1>11, <2>2 DEF EndReview
<1>12. ASSUME NEW t \in Tasks, FinishTask(t) PROVE TypeOK'
  <2>1. guard' \in Guard
    BY <1>12, VerifyTypes DEF FinishTask
  <2>2. job' \in [Tasks -> Job]
    <3>1. {"deferred", "over"} \subseteq Stages
      BY DEF Stages
    <3>2. \E stage \in {"deferred", "over"} : job' = [job EXCEPT ![t].stage = stage]
      BY <1>12 DEF FinishTask
    <3> QED
      BY <3>1, <3>2, JobStage
  <2>3. row' \in [Tasks -> Row]
    <3>1. {"blocked", "done"} \subseteq Statuses
      BY DEF Statuses
    <3>2. \/ UNCHANGED row
          \/ row' = [row EXCEPT ![t] = [status |-> "blocked", merged |-> <<>>]]
          \/ row' = [row EXCEPT ![t].status = "done"]
      BY <1>12 DEF FinishTask
    <3>3. [row EXCEPT ![t] = [status |-> "blocked", merged |-> <<>>]] \in [Tasks -> Row]
      BY <3>1, RowWritten, EmptyTypes
    <3>4. [row EXCEPT ![t].status = "done"] \in [Tasks -> Row]
      BY <3>1, RowStatus
    <3> QED
      BY <3>2, <3>3, <3>4
  <2> QED
    BY <1>12, <2>1, <2>2, <2>3 DEF FinishTask
<1>13. CASE Gather
  BY <1>13 DEF Gather, Phases
<1>14. ASSUME NEW t \in Tasks, NEW hazard \in BOOLEAN, GateTask(t, hazard) PROVE TypeOK'
  <2>1. guard' \in Guard
    BY <1>14, VerifyTypes DEF GateTask
  <2>2. branch[t].commits \in Seq(Commit)
    BY DEF Branch
  <2>3. [IdleGate EXCEPT !.task = t, !.step = "approved", !.sha = branch[t].commits] \in Gate
    BY <2>2, InitialTypes DEF Gate, GateSteps
  <2>4. job' \in [Tasks -> Job] /\ gate' \in Gate
    BY <1>14, <2>2, <2>3, ConcludeTypes, EmptyTypes DEF GateTask, Results
  <2> QED
    BY <1>14, <2>1, <2>4 DEF GateTask
<1>15. ASSUME NEW t \in Tasks, VerifyBeforeMerge(t) PROVE TypeOK'
  <2>1. guard' \in Guard
    BY <1>15, VerifyTypes DEF VerifyBeforeMerge
  <2>2. job' \in [Tasks -> Job] /\ gate' \in Gate
    BY <1>15, ConcludeTypes, EmptyTypes, GateStep, GateHead
    DEF VerifyBeforeMerge, Results, GateSteps
  <2> QED
    BY <1>15, <2>1, <2>2 DEF VerifyBeforeMerge
<1>16. ASSUME NEW t \in Tasks, NEW ready \in BOOLEAN, BeginMerge(t, ready) PROVE TypeOK'
  <2>1. job' \in [Tasks -> Job] /\ gate' \in Gate
    BY <1>16, ConcludeTypes, EmptyTypes, GateStep, GateHead DEF BeginMerge, Results, GateSteps
  <2> QED
    BY <1>16, <2>1 DEF BeginMerge
<1> gate.sha \in Seq(Commit)
  BY DEF Gate
<1>17. ASSUME NEW t \in Tasks, NEW lands \in BOOLEAN, NEW step \in GateSteps,
              GitMerge(t, lands, step)
       PROVE  TypeOK'
  <2>1. main' \in Seq(Entry) /\ gate' \in Gate
    BY <1>17, MergeType, GateStep, GateHead DEF GitMerge
  <2> QED
    BY <1>17, <2>1 DEF GitMerge
<1>18. ASSUME NEW t \in Tasks, NEW works \in BOOLEAN, Rebase(t, works) PROVE TypeOK'
  <2>1. gate' \in Gate
    BY <1>18, GateStep, GateHead DEF Rebase, GateSteps
  <2> QED
    BY <1>18, <2>1 DEF Rebase
<1>19. ASSUME NEW t \in Tasks, NEW lands \in BOOLEAN, NEW step \in GateSteps,
              FastForward(t, lands, step)
       PROVE  TypeOK'
  <2>1. main' \in Seq(Entry) /\ gate' \in Gate
    BY <1>19, MergeType, GateStep, GateHead DEF FastForward
  <2> QED
    BY <1>19, <2>1 DEF FastForward
<1>20. ASSUME NEW t \in Tasks, NEW answers \in BOOLEAN, ReadHead(t, answers) PROVE TypeOK'
  <2>1. gate' \in Gate
    BY <1>20, GateStep, GateHead DEF ReadHead, GateSteps
  <2> QED
    BY <1>20, <2>1 DEF ReadHead
<1>21. ASSUME NEW t \in Tasks, RecordMerge(t) PROVE TypeOK'
  <2>1. guard' \in Guard
    BY <1>21, GuardTrips, GuardAdvances DEF RecordMerge
  <2>2. job' \in [Tasks -> Job] /\ gate' \in Gate
    BY <1>21, ConcludeTypes, EmptyTypes DEF RecordMerge, Results
  <2> QED
    BY <1>21, <2>1, <2>2 DEF RecordMerge
<1>22. ASSUME NEW t \in Tasks, VerifyAfterFailure(t) PROVE TypeOK'
  <2>1. guard' \in Guard
    BY <1>22, VerifyTypes DEF VerifyAfterFailure
  <2>2. job' \in [Tasks -> Job] /\ gate' \in Gate
    BY <1>22, ConcludeTypes, EmptyTypes DEF VerifyAfterFailure, Results
  <2> QED
    BY <1>22, <2>1, <2>2 DEF VerifyAfterFailure
<1>23. CASE VerifyEndOfRun
  <2>1. guard' \in Guard
    BY <1>23, VerifyTypes DEF VerifyEndOfRun
  <2> QED
    BY <1>23, <2>1 DEF VerifyEndOfRun, Phases
<1>24. ASSUME NEW t \in Tasks, WriteStatus(t) PROVE TypeOK'
  <2>1. job[t].sha \in Seq(Commit)
    BY DEF Job
  <2>2. row' \in [Tasks -> Row]
    BY <1>24, <2>1, RowWritten, RowStatus, EmptyTypes DEF WriteStatus, Statuses
  <2>3. job' \in [Tasks -> Job]
    BY <1>24, JobStage DEF WriteStatus, Stages
  <2> QED
    BY <1>24, <2>2, <2>3 DEF WriteStatus
<1>25. CASE StartCleanup
  BY <1>25 DEF StartCleanup, Phases
<1>26. ASSUME NEW t \in Tasks, NEW removed \in BOOLEAN, CleanUp(t, removed) PROVE TypeOK'
  <2>1. branch' \in [Tasks -> Branch]
    BY <1>26, InitialTypes DEF CleanUp
  <2>2. job' \in [Tasks -> Job]
    BY <1>26, JobStage DEF CleanUp, Stages
  <2> QED
    BY <1>26, <2>1, <2>2 DEF CleanUp
<1>27. CASE EndRun
  BY <1>27 DEF EndRun, Phases
<1>28. ASSUME NEW t \in Tasks, NEW keep \in 0 .. MaxCommits, NEW code \in BOOLEAN,
              CommitToBranch(t, keep, code)
       PROVE  TypeOK'
  <2>1. [number |-> spent.commits + 1, code |-> code] \in Commit
    BY <1>28, BoundTypes DEF CommitToBranch, Commit
  <2>2. branch[t].commits \in Seq(Commit)
    BY DEF Branch
  <2>3. SubSeq(branch[t].commits, 1, keep) \in Seq(Commit)
    BY <1>28, <2>2 DEF CommitToBranch
  <2>4. branch' \in [Tasks -> Branch]
    <3>1. Append(SubSeq(branch[t].commits, 1, keep),
                 [number |-> spent.commits + 1, code |-> code]) \in Seq(Commit)
      BY <2>1, <2>3
    <3>2. branch' = [branch EXCEPT ![t].commits =
                       Append(SubSeq(branch[t].commits, 1, keep),
                              [number |-> spent.commits + 1, code |-> code])]
      BY <1>28 DEF CommitToBranch
    <3> QED
      BY <3>1, <3>2, BranchCommits
  <2>5. spent' \in [commits : 0 .. MaxCommits, moves : 0 .. MaxMoves, runs : Nat]
    <3>1. spent.commits + 1 \in 0 .. MaxCommits
      BY <1>28, BoundTypes DEF CommitToBranch
    <3>2. spent' = [spent EXCEPT !.commits = spent.commits + 1]
      BY <1>28 DEF CommitToBranch
    <3> QED
      BY <3>1, <3>2
  <2> QED
    BY <1>28, <2>4, <2>5 DEF CommitToBranch, memory
<1>29. CASE MoveDefaultBranch
  <2>1. [by |-> Nobody, sha |-> <<>>, number |-> spent.moves + 1] \in Entry
    BY <1>29, BoundTypes, EmptyTypes DEF MoveDefaultBranch, Entry
  <2>2. main' \in Seq(Entry)
    <3>1. Append(main, [by |-> Nobody, sha |-> <<>>, number |-> spent.moves + 1])
            \in Seq(Entry)
      BY <2>1
    <3>2. main # <<>> => SubSeq(main, 1, Len(main) - 1) \in Seq(Entry)
      OBVIOUS
    <3> QED
      BY <1>29, <3>1, <3>2 DEF MoveDefaultBranch
  <2>3. spent' \in [commits : 0 .. MaxCommits, moves : 0 .. MaxMoves, runs : Nat]
    <3>1. spent.moves + 1 \in 0 .. MaxMoves
      BY <1>29, BoundTypes DEF MoveDefaultBranch
    <3>2. spent' = [spent EXCEPT !.moves = spent.moves + 1]
      BY <1>29 DEF MoveDefaultBranch
    <3> QED
      BY <3>1, <3>2
  <2> QED
    BY <1>29, <2>2, <2>3 DEF MoveDefaultBranch, memory
<1>30. CASE FailCheck
  BY <1>30, GuardTrips, GuardAdvances DEF FailCheck
<1>31. ASSUME NEW t \in Tasks, FailCheckInMerge(t) PROVE TypeOK'
  <2>1. job' \in [Tasks -> Job] /\ gate' \in Gate
    BY <1>31, ConcludeTypes, EmptyTypes DEF FailCheckInMerge, Results
  <2>2. guard' \in Guard
    BY <1>31, GuardTrips, GuardAdvances DEF FailCheckInMerge
  <2> QED
    BY <1>31, <2>1, <2>2 DEF FailCheckInMerge
<1>32. CASE Signal
  <2>1. gate.task \in Tasks
    BY <1>32 DEF Signal, GateInv
  <2> QED
    BY <1>32, <2>1 DEF Signal
<1>33. CASE Crash
  BY <1>33 DEF Crash, Phases
<1>34. CASE Dispatch
  <2>1. spent' \in [commits : 0 .. MaxCommits, moves : 0 .. MaxMoves, runs : Nat]
    BY <1>34 DEF Dispatch
  <2> QED
    BY <1>34, <2>1, InitialTypes, EmptyTypes DEF Dispatch, Phases
<1> QED
  BY <1>1, <1>2, <1>3, <1>4, <1>5, <1>6, <1>7, <1>8, <1>9, <1>10, <1>11, <1>12, <1>13,
     <1>14, <1>15, <1>16, <1>17, <1>18, <1>19, <1>20, <1>21, <1>22, <1>23, <1>24, <1>25,
     <1>26, <1>27, <1>28, <1>29, <1>30, <1>31, <1>32, <1>33, <1>34
  DEF Next, Orchestrator, Environment, TaskStep, MergeStep

-----------------------------------------------------------------------------
(* Prefixes and landed commits.                                            *)

\* A history is a prefix of itself.
LEMMA PrefixRefl ==
  ASSUME NEW S, NEW h \in Seq(S)
  PROVE  IsPrefix(h, h)
BY DEF IsPrefix

\* Nothing is a prefix of every history.
LEMMA PrefixEmpty ==
  ASSUME NEW S, NEW h \in Seq(S)
  PROVE  IsPrefix(<<>>, h)
BY DEF IsPrefix

\* A commit on top loses no ancestor.
LEMMA PrefixAppend ==
  ASSUME NEW S, NEW b \in Seq(S), NEW h \in Seq(S), NEW x \in S, IsPrefix(b, h)
  PROVE  IsPrefix(b, Append(h, x))
<1>1. Len(b) <= Len(h) /\ SubSeq(b, 1, Len(b)) = SubSeq(h, 1, Len(b))
  BY DEF IsPrefix
<1>2. Len(Append(h, x)) = Len(h) + 1
  OBVIOUS
<1>3. SubSeq(Append(h, x), 1, Len(b)) = SubSeq(h, 1, Len(b))
  BY <1>1
<1> QED
  BY <1>1, <1>2, <1>3 DEF IsPrefix

\* What has landed stays landed under a commit on top.
LEMMA LandedAppend ==
  ASSUME TypeOK, NEW t \in Tasks, NEW sha, NEW h \in Seq(Entry), NEW x \in Entry,
         Landed(t, sha, h)
  PROVE  Landed(t, sha, Append(h, x))
<1>1. branch[t].fork \in Seq(Entry)
  BY DEF TypeOK, Branch
<1>2. CASE sha = <<>> /\ IsPrefix(branch[t].fork, h)
  BY <1>1, <1>2, PrefixAppend DEF Landed
<1>3. CASE ~(sha = <<>> /\ IsPrefix(branch[t].fork, h))
  <2>1. PICK i \in DOMAIN h : /\ h[i].by = t /\ IsPrefix(sha, h[i].sha)
                              /\ sha = <<>> => h[i].sha = <<>>
    BY <1>3 DEF Landed
  <2> DEFINE g == Append(h, x)
  <2>2. i \in DOMAIN g
    OBVIOUS
  <2>3. g[i] = h[i]
    OBVIOUS
  <2> HIDE DEF g
  <2>4. Landed(t, sha, g)
    BY <2>1, <2>2, <2>3 DEF Landed
  <2> QED
    BY <2>4 DEF g
<1> QED
  BY <1>2, <1>3

\* A commit has landed after its merge.
LEMMA LandedMerge ==
  ASSUME NEW t \in Tasks, NEW sha \in Seq(Commit), NEW h \in Seq(Entry)
  PROVE  Landed(t, sha, Merge(h, t, sha))
<1>1. [by |-> t, sha |-> sha, number |-> 0] \in Entry
  BY BoundTypes DEF Entry
<1>2. Len(h) + 1 \in DOMAIN Merge(h, t, sha)
  BY <1>1 DEF Merge
<1>3. Merge(h, t, sha)[Len(h) + 1] = [by |-> t, sha |-> sha, number |-> 0]
  BY <1>1 DEF Merge
<1>4. IsPrefix(sha, sha)
  BY PrefixRefl
<1> QED
  BY <1>2, <1>3, <1>4 DEF Landed

-----------------------------------------------------------------------------
(* Steps that leave the results and the guard's chain alone.               *)

\* The phases from the first merge on.
Later == {"merging", "writing", "cleaning", "over", "dead"}

\* The guard keeps its pin and its chain, and never untrips.
GuardKept ==
  /\ guard'.pinned = guard.pinned
  /\ guard'.baseline = guard.baseline
  /\ guard'.expected = guard.expected
  /\ guard.tripped => guard'.tripped

\* The step concludes no merge and moves no merge on.
Quiet ==
  /\ gate' = gate /\ seen' = seen
  /\ \A t \in Tasks : /\ job'[t].result = job[t].result
                      /\ job'[t].sha = job[t].sha
                      /\ branch'[t].fork = branch[t].fork
  /\ GuardKept

\* The run enters the merges with a pinned branch, and the writing only from
\* the writing or without one.
PhaseMoves ==
  /\ phase \in Later => phase' \in Later
  /\ phase' = "merging" => guard.pinned
  /\ phase' \in {"writing", "cleaning"} => phase \in {"writing", "cleaning"} \/ ~guard.pinned

\* Merges stay merged, so the chain stays theirs.
LEMMA ChainKept ==
  ASSUME IInv, GuardKept,
         \A t \in Tasks : job[t].result = "merged" =>
           job'[t].result = "merged" /\ job'[t].sha = job[t].sha
  PROVE  ChainIsOwnMerges'
<1> SUFFICES ASSUME guard.pinned
             PROVE  /\ IsPrefix(guard.baseline, guard.expected)'
                    /\ \A i \in Len(guard.baseline) + 1 .. Len(guard.expected) :
                         \E t \in Tasks : /\ job'[t].result = "merged"
                                          /\ guard'.expected[i] = Merge(<<>>, t, job'[t].sha)[1]
  BY DEF ChainIsOwnMerges, GuardKept
<1>1. IsPrefix(guard.baseline, guard.expected)'
  BY DEF IInv, ChainIsOwnMerges, GuardKept
<1>2. ASSUME NEW i \in Len(guard.baseline) + 1 .. Len(guard.expected)
      PROVE  \E t \in Tasks : /\ job'[t].result = "merged"
                              /\ guard'.expected[i] = Merge(<<>>, t, job'[t].sha)[1]
  <2>1. PICK t \in Tasks : /\ job[t].result = "merged"
                          /\ guard.expected[i] = Merge(<<>>, t, job[t].sha)[1]
    BY DEF IInv, ChainIsOwnMerges
  <2>2. job'[t].result = "merged" /\ job'[t].sha = job[t].sha
    BY <2>1
  <2> QED
    BY <2>1, <2>2 DEF GuardKept
<1> QED
  BY <1>1, <1>2

\* A quiet step keeps the results and the chain.
LEMMA QuietResults ==
  ASSUME IInv, Quiet, PhaseMoves
  PROVE  ResultInv' /\ ChainIsOwnMerges'
<1>1. ResultInv'
  BY DEF IInv, ResultInv, Quiet, GuardKept, PhaseMoves, Later, Landed
<1>2. ChainIsOwnMerges'
  BY ChainKept DEF Quiet
<1> QED
  BY <1>1, <1>2

\* Of an idle gate nothing is required.
LEMMA IdleGateInv ==
  ASSUME gate'.step = "idle"
  PROVE  GateInv'
BY DEF GateInv

\* The gate is idle outside the merges, or the process died in one.
LEMMA IdleOutsideMerging ==
  ASSUME IInv, phase \notin {"merging", "dead"}
  PROVE  gate.step = "idle"
BY DEF IInv, GateInv

\* A quiet step that leaves guard, shutdown and reviews alone keeps the gate.
LEMMA QuietGate ==
  ASSUME IInv, Quiet, guard' = guard, shutdown' = shutdown,
         phase \in {"merging", "dead"} => phase' \in {"merging", "dead"},
         \A t \in Tasks : job'[t].review = job[t].review
  PROVE  GateInv'
<1> SUFFICES ASSUME gate.step # "idle"
             PROVE  GateInv'
  BY DEF Quiet, GateInv
<1>1. gate.task \in Tasks
  BY DEF IInv, GateInv
<1>2. Approves(gate.task, gate.sha)'
  BY <1>1 DEF IInv, GateInv, Quiet, GuardKept, Approves, ExpectArtifact, ReviewPasses, ReviewedCommit,
              DocOnly
<1>3. ExpectArtifact(gate.task, gate.sha)' = ExpectArtifact(gate.task, gate.sha)
  BY <1>1 DEF Quiet, GuardKept, ExpectArtifact, DocOnly
<1> QED
  BY <1>1, <1>2, <1>3 DEF IInv, GateInv, Quiet

-----------------------------------------------------------------------------
(* Steps that check the guard or conclude a merge.                         *)

\* A check keeps the chain, and does not trip only on the expected commit.
LEMMA VerifyKeeps ==
  ASSUME TypeOK, Verify
  PROVE  /\ GuardKept
         /\ guard.pinned /\ ~guard'.tripped => main = guard.expected
         /\ Intact => ~guard'.tripped
BY DEF TypeOK, Guard, Verify, GuardKept, Intact

\* A trip keeps the chain.
LEMMA TripKeeps ==
  ASSUME TypeOK, guard' = [guard EXCEPT !.tripped = TRUE]
  PROVE  GuardKept
BY DEF TypeOK, Guard, GuardKept

\* Concluding one task's merge leaves the other tasks alone.
LEMMA Concluded ==
  ASSUME TypeOK, NEW t \in Tasks, NEW result, NEW sha, Conclude(t, result, sha)
  PROVE  /\ gate'.step = "idle"
         /\ job'[t].result = result /\ job'[t].sha = sha
         /\ \A u \in Tasks : u # t => job'[u] = job[u]
BY DEF TypeOK, Job, Conclude, IdleGate

\* A merge that is given up changes nothing the invariant speaks of.
LEMMA GivesUp ==
  ASSUME IInv, NEW t \in Tasks, NEW result \in {"blocked", "merge_failed"},
         Conclude(t, result, <<>>), job[t].result = "none", phase = "merging",
         GuardKept, UNCHANGED <<phase, branch, seen>>
  PROVE  GateInv' /\ ResultInv' /\ ChainIsOwnMerges'
<1>1. GateInv'
  BY Concluded, IdleGateInv DEF IInv
<1>2. /\ \A u \in Tasks : u # t => job'[u] = job[u]
      /\ job'[t].result = result
  BY Concluded DEF IInv
<1>3. ResultInv'
  BY <1>2 DEF IInv, ResultInv, GuardKept, Landed
<1>4. ChainIsOwnMerges'
  BY <1>2, ChainKept
<1> QED
  BY <1>1, <1>3, <1>4

\* A step of the merge in progress that only moves its gate on.
LEMMA MovesOn ==
  ASSUME IInv, gate.step # "idle", phase = "merging",
         gate'.task = gate.task, gate'.sha = gate.sha,
         UNCHANGED <<job, branch, seen, phase, shutdown>>, GuardKept,
         gate'.step \in {"merging", "merged", "conflicted", "rebased", "forwarded", "landed"} =>
           \/ gate.step \in {"merging", "merged", "conflicted", "rebased", "forwarded", "landed"}
           \/ ExpectArtifact(gate.task, gate.sha) =>
                 job[gate.task].review.verdict = "clean",
         gate'.step \in {"verified", "merging", "conflicted", "rebased"} =>
           ~guard'.tripped /\ shutdown \subseteq {gate.task}
  PROVE  GateInv' /\ ResultInv' /\ ChainIsOwnMerges'
<1>1. gate.task \in Tasks
  BY DEF IInv, GateInv
<1>2. Approves(gate.task, gate.sha)'
  BY <1>1 DEF IInv, GateInv, GuardKept, Approves, ExpectArtifact, ReviewPasses, ReviewedCommit,
              DocOnly
<1>3. ExpectArtifact(gate.task, gate.sha)' = ExpectArtifact(gate.task, gate.sha)
  BY <1>1 DEF GuardKept, ExpectArtifact, DocOnly
<1>4. GateInv'
  BY <1>1, <1>2, <1>3 DEF IInv, GateInv
<1>5. ResultInv'
  BY DEF IInv, ResultInv, GuardKept, Landed
<1>6. ChainIsOwnMerges'
  BY ChainKept
<1> QED
  BY <1>4, <1>5, <1>6

-----------------------------------------------------------------------------
(* The invariant is inductive.                                             *)

\* The invariant holds at the first dispatch.
LEMMA InitInv == Init => IInv
<1> SUFFICES ASSUME Init PROVE IInv
  OBVIOUS
<1>1. TypeOK
  BY InitTypes
<1>2. GateInv
  BY DEF Init, GateInv, IdleGate
<1>3. ResultInv
  BY DEF Init, ResultInv, NewJob
<1>4. ChainIsOwnMerges
  BY DEF Init, ChainIsOwnMerges, NoGuard
<1> QED
  BY <1>1, <1>2, <1>3, <1>4 DEF IInv

\* The invariant after a step, its types apart.
Kept == GateInv' /\ ResultInv' /\ ChainIsOwnMerges'

\* Before the merges the gate is idle and no task has a result.
LEMMA EarlyStep ==
  ASSUME IInv, Quiet, PhaseMoves, phase \notin {"merging", "dead"}
  PROVE  Kept
BY QuietResults, IdleOutsideMerging, IdleGateInv DEF Quiet, Kept

\* A step of a task's coroutine keeps the invariant.
LEMMA TaskStepKeeps ==
  ASSUME IInv, NEW t \in Tasks, TaskStep(t)
  PROVE  Kept
<1>1. TypeOK
  BY DEF IInv
<1>2. phase = "running" /\ phase' = "running" /\ UNCHANGED <<branch, gate, seen>>
  BY DEF TaskStep, StartTask, AgentEnds, TaskRaises, CheckClaim, SkipReview, StartReview,
         EndReview, FinishTask, repository
<1>3. GuardKept
  <2>1. CASE FinishTask(t)
    BY <1>1, <2>1, VerifyKeeps DEF FinishTask
  <2>2. CASE UNCHANGED guard
    BY <2>2 DEF GuardKept
  <2> QED
    BY <2>1, <2>2 DEF TaskStep, StartTask, AgentEnds, TaskRaises, CheckClaim, SkipReview,
       StartReview, EndReview
<1>4. \A u \in Tasks : job'[u].result = job[u].result /\ job'[u].sha = job[u].sha
  <2> DEFINE Same == \A u \in Tasks : job'[u].result = job[u].result /\ job'[u].sha = job[u].sha
  <2> USE <1>1 DEF TypeOK, Job
  <2>1. CASE StartTask(t)
    <3>1. PICK stage \in {"settled", "agent"} : job' = [job EXCEPT ![t].stage = stage]
      BY <2>1 DEF StartTask
    <3> QED
      BY <3>1
  <2>2. CASE TaskRaises(t)
    BY <2>2 DEF TaskRaises
  <2>3. CASE SkipReview(t)
    BY <2>3 DEF SkipReview
  <2>4. CASE FinishTask(t)
    <3>1. PICK stage \in {"deferred", "over"} : job' = [job EXCEPT ![t].stage = stage]
      BY <2>4 DEF FinishTask
    <3> QED
      BY <3>1
  <2>5. ASSUME NEW o \in {"tests_passed", "no_changes", "failed"}, AgentEnds(t, o)
        PROVE  Same
    BY <2>5 DEF AgentEnds
  <2>6. ASSUME NEW dirty \in BOOLEAN, CheckClaim(t, dirty)
        PROVE  Same
    BY <2>6 DEF CheckClaim
  <2>7. ASSUME NEW clean \in BOOLEAN, StartReview(t, clean)
        PROVE  Same
    BY <2>7 DEF StartReview
  <2>8. ASSUME NEW v \in Verdicts \ {"none", "running"}, EndReview(t, v)
        PROVE  Same
    BY <2>8 DEF EndReview
  <2> QED
    BY <2>1, <2>2, <2>3, <2>4, <2>5, <2>6, <2>7, <2>8 DEF TaskStep
<1> QED
  BY <1>2, <1>3, <1>4, EarlyStep DEF Quiet, GuardKept, PhaseMoves, Later

\* A step of _gated_merge_task keeps the invariant: the heart of the argument.
LEMMA MergeStepKeeps ==
  ASSUME IInv, NEW t \in Tasks, MergeStep(t)
  PROVE  Kept
<1> USE DEF Kept
<1>0. TypeOK /\ GateInv /\ gate.sha \in Seq(Commit) /\ guard.expected \in Seq(Entry)
  BY DEF IInv, TypeOK, Gate, Guard
<1>1. ASSUME NEW hazard \in BOOLEAN, GateTask(t, hazard) PROVE Kept
  <2> DEFINE sha == branch[t].commits
  <2>0. /\ phase = "merging" /\ phase' = phase /\ UNCHANGED <<branch, seen, shutdown>>
        /\ job[t].result = "none" /\ gate.step = "idle" /\ GuardKept
    BY <1>0, <1>1, VerifyKeeps DEF GateTask, repository, GuardKept
  <2>1. CASE Conclude(t, "blocked", <<>>)
    BY <2>0, <2>1, GivesUp
  <2>2. CASE Conclude(t, "noop", sha) /\ Landed(t, sha, guard.expected)
    <3>1. /\ gate'.step = "idle" /\ job'[t].result = "noop" /\ job'[t].sha = sha
          /\ \A u \in Tasks : u # t => job'[u] = job[u]
      BY <1>0, <2>2, Concluded
    <3>2. GateInv'
      BY <3>1, IdleGateInv
    <3>3. ResultInv'
      BY <2>0, <2>2, <3>1 DEF IInv, ResultInv, GuardKept, Landed
    <3>4. ChainIsOwnMerges'
      BY <2>0, <3>1, ChainKept
    <3> QED
      BY <3>2, <3>3, <3>4
  <2>3. CASE /\ UNCHANGED job /\ Approves(t, sha)
             /\ gate' = [IdleGate EXCEPT !.task = t, !.step = "approved", !.sha = sha]
    <3>1. gate'.task = t /\ gate'.step = "approved" /\ gate'.sha = sha
      BY <2>3 DEF IdleGate
    <3>2. Approves(gate.task, gate.sha)'
      BY <2>0, <2>3, <3>1 DEF GuardKept, Approves, ExpectArtifact, ReviewPasses,
         ReviewedCommit, DocOnly
    <3>3. GateInv'
      BY <2>0, <2>3, <3>1, <3>2 DEF GateInv
    <3>4. ResultInv'
      BY <2>0, <2>3 DEF IInv, ResultInv, GuardKept, Landed
    <3>5. ChainIsOwnMerges'
      BY <2>0, <2>3, ChainKept
    <3> QED
      BY <3>3, <3>4, <3>5
  <2> QED
    BY <1>1, <2>1, <2>2, <2>3 DEF GateTask
<1>2. CASE VerifyBeforeMerge(t)
  <2>0. /\ phase = "merging" /\ phase' = phase /\ UNCHANGED <<branch, seen, shutdown>>
        /\ gate.task = t /\ gate.step = "approved"
    BY <1>2 DEF VerifyBeforeMerge, repository
  <2>1. GuardKept /\ (Intact => ~guard'.tripped) /\ job[t].result = "none"
    BY <1>0, <1>2, <2>0, VerifyKeeps DEF VerifyBeforeMerge, GateInv
  <2>2. CASE \E result \in {"blocked", "merge_failed"} : Conclude(t, result, <<>>)
    BY <2>0, <2>1, <2>2, GivesUp
  <2>3. CASE Intact /\ shutdown = {} /\ gate' = [gate EXCEPT !.step = "verified"] /\ UNCHANGED job
    <3>1. gate'.task = gate.task /\ gate'.sha = gate.sha /\ gate'.step = "verified"
      BY <1>0, <2>3 DEF TypeOK, Gate
    <3> QED
      BY <2>0, <2>1, <2>3, <3>1, MovesOn
  <2> QED
    BY <1>2, <2>2, <2>3 DEF VerifyBeforeMerge
<1>3. ASSUME NEW ready \in BOOLEAN, BeginMerge(t, ready) PROVE Kept
  <2>0. /\ phase = "merging" /\ phase' = phase /\ UNCHANGED <<branch, seen, shutdown, guard>>
        /\ gate.task = t /\ gate.step = "verified" /\ GuardKept /\ job[t].result = "none"
        /\ ~guard.tripped /\ shutdown \subseteq {t}
    BY <1>0, <1>3 DEF BeginMerge, repository, GuardKept, GateInv
  <2>2. CASE Conclude(t, "blocked", <<>>)
    BY <2>0, <2>2, GivesUp
  <2>3. CASE /\ ExpectArtifact(t, gate.sha) => job[t].review.verdict = "clean"
             /\ UNCHANGED job
             /\ \/ gate' = [gate EXCEPT !.step = "merging", !.pre = main]
                \/ gate' = [gate EXCEPT !.step = "unlanded"]
    <3>1. /\ gate'.task = gate.task /\ gate'.sha = gate.sha
          /\ gate'.step \in {"merging", "unlanded"}
      BY <1>0, <2>3 DEF TypeOK, Gate
    <3> QED
      BY <2>0, <2>3, <3>1, MovesOn
  <2> QED
    BY <1>3, <2>2, <2>3 DEF BeginMerge
<1>4. ASSUME NEW lands \in BOOLEAN, NEW step \in GateSteps, GitMerge(t, lands, step)
      PROVE  Kept
  <2>0. /\ phase = "merging" /\ UNCHANGED <<phase, branch, seen, shutdown, guard, job>>
        /\ gate.task = t /\ gate.step = "merging" /\ GuardKept
        /\ ~guard.tripped /\ shutdown \subseteq {t}
    BY <1>0, <1>4 DEF GitMerge, GuardKept, GateInv
  <2>1. gate'.task = gate.task /\ gate'.sha = gate.sha /\ gate'.step = step
    BY <1>0, <1>4 DEF GitMerge, TypeOK, Gate
  <2> QED
    BY <2>0, <2>1, MovesOn
<1>5. ASSUME NEW works \in BOOLEAN, Rebase(t, works) PROVE Kept
  <2>0. /\ phase = "merging" /\ UNCHANGED <<phase, branch, seen, shutdown, guard, job>>
        /\ gate.task = t /\ gate.step = "conflicted" /\ GuardKept
        /\ ~guard.tripped /\ shutdown \subseteq {t}
    BY <1>0, <1>5 DEF Rebase, GuardKept, GateInv, repository
  <2>1. gate'.task = gate.task /\ gate'.sha = gate.sha
    BY <1>0, <1>5 DEF Rebase, TypeOK, Gate
  <2> QED
    BY <2>0, <2>1, MovesOn
<1>6. ASSUME NEW lands \in BOOLEAN, NEW step \in GateSteps, FastForward(t, lands, step)
      PROVE  Kept
  <2>0. /\ phase = "merging" /\ UNCHANGED <<phase, branch, seen, shutdown, guard, job>>
        /\ gate.task = t /\ gate.step = "rebased" /\ GuardKept
        /\ ~guard.tripped /\ shutdown \subseteq {t}
    BY <1>0, <1>6 DEF FastForward, GuardKept, GateInv
  <2>1. gate'.task = gate.task /\ gate'.sha = gate.sha
    BY <1>0, <1>6 DEF FastForward, TypeOK, Gate
  <2> QED
    BY <2>0, <2>1, MovesOn
<1>7. ASSUME NEW answers \in BOOLEAN, ReadHead(t, answers) PROVE Kept
  <2>0. /\ phase = "merging" /\ UNCHANGED <<phase, branch, seen, shutdown, guard, job>>
        /\ gate.task = t /\ gate.step \in {"merged", "forwarded"} /\ GuardKept
    BY <1>0, <1>7 DEF ReadHead, GuardKept, repository
  <2>1. /\ gate'.task = gate.task /\ gate'.sha = gate.sha
        /\ gate'.step \in {"landed", "unlanded"}
    BY <1>0, <1>7 DEF ReadHead, TypeOK, Gate
  <2> QED
    BY <2>0, <2>1, MovesOn
<1>8. CASE RecordMerge(t)
  <2>0. /\ phase = "merging" /\ UNCHANGED <<phase, branch, seen>>
        /\ gate.task = t /\ gate.step = "landed" /\ job[t].result = "none"
    BY <1>0, <1>8 DEF RecordMerge, repository, GateInv
  <2>1. CASE Conclude(t, "blocked", <<>>) /\ guard' = [guard EXCEPT !.tripped = TRUE]
    BY <1>0, <2>0, <2>1, TripKeeps, GivesUp
  <2>2. CASE /\ Conclude(t, "merged", gate.sha)
             /\ guard' = [guard EXCEPT !.expected = Merge(guard.expected, t, gate.sha)]
    <3> DEFINE x == [by |-> t, sha |-> gate.sha, number |-> 0]
    <3>1. x \in Entry
      BY <1>0, BoundTypes DEF Entry
    <3>2. /\ guard'.expected = Append(guard.expected, x)
          /\ guard'.pinned = guard.pinned /\ guard'.baseline = guard.baseline
          /\ guard'.tripped = guard.tripped /\ guard.baseline \in Seq(Entry)
      BY <1>0, <2>2 DEF TypeOK, Guard, Merge
    <3>3. /\ gate'.step = "idle" /\ job'[t].result = "merged" /\ job'[t].sha = gate.sha
          /\ \A u \in Tasks : u # t => job'[u] = job[u]
      BY <1>0, <2>2, Concluded
    <3>4. GateInv'
      BY <3>3, IdleGateInv
    <3>5. ASSUME NEW u \in Tasks, job'[u].result \in {"merged", "noop"}
          PROVE  Landed(u, job[u].sha, guard.expected)'
      <4>1. CASE u = t
        <5>1. Landed(t, gate.sha, Append(guard.expected, x))
          BY <1>0, LandedMerge DEF Merge
        <5> QED
          BY <2>0, <3>2, <3>3, <4>1, <5>1 DEF Landed
      <4>2. CASE u # t
        <5>1. Landed(u, job[u].sha, guard.expected)
          BY <3>3, <3>5, <4>2 DEF IInv, ResultInv
        <5>2. Landed(u, job[u].sha, Append(guard.expected, x))
          BY <1>0, <3>1, <5>1, LandedAppend
        <5> QED
          BY <2>0, <3>2, <3>3, <4>2, <5>2 DEF Landed
      <4> QED
        BY <4>1, <4>2
    <3>6. ResultInv'
      BY <2>0, <3>2, <3>3, <3>5 DEF IInv, ResultInv
    <3>7. ASSUME guard.pinned
          PROVE  /\ IsPrefix(guard.baseline, guard.expected)'
                 /\ \A i \in Len(guard.baseline) + 1 .. Len(guard'.expected) :
                      \E u \in Tasks : /\ job'[u].result = "merged"
                                       /\ guard'.expected[i] = Merge(<<>>, u, job'[u].sha)[1]
      <4>1. IsPrefix(guard.baseline, Append(guard.expected, x))
        BY <1>0, <3>1, <3>2, <3>7, PrefixAppend DEF IInv, ChainIsOwnMerges
      <4>2. ASSUME NEW i \in Len(guard.baseline) + 1 .. Len(guard.expected)
            PROVE  \E u \in Tasks : /\ job'[u].result = "merged"
                                    /\ guard'.expected[i] = Merge(<<>>, u, job'[u].sha)[1]
        <5>1. PICK u \in Tasks : /\ job[u].result = "merged"
                                /\ guard.expected[i] = Merge(<<>>, u, job[u].sha)[1]
          BY <3>7 DEF IInv, ChainIsOwnMerges
        <5>2. job'[u] = job[u]
          BY <2>0, <3>3, <5>1
        <5>3. guard'.expected[i] = guard.expected[i]
          BY <1>0, <3>1, <3>2
        <5> QED
          BY <5>1, <5>2, <5>3
      <4>3. guard'.expected[Len(guard.expected) + 1] = Merge(<<>>, t, job'[t].sha)[1]
        BY <1>0, <3>1, <3>2, <3>3 DEF Merge
      <4>4. Len(guard'.expected) = Len(guard.expected) + 1 /\ Len(guard.baseline) \in Nat
        BY <1>0, <3>1, <3>2
      <4> QED
        BY <1>0, <3>2, <3>3, <4>1, <4>2, <4>3, <4>4
    <3>8. ChainIsOwnMerges'
      BY <3>2, <3>7 DEF ChainIsOwnMerges
    <3> QED
      BY <3>4, <3>6, <3>8
  <2> QED
    BY <1>8, <2>1, <2>2 DEF RecordMerge
<1>9. CASE VerifyAfterFailure(t)
  <2>0. /\ phase = "merging" /\ UNCHANGED <<phase, branch, seen>>
        /\ job[t].result = "none" /\ GuardKept
    BY <1>0, <1>9, VerifyKeeps DEF VerifyAfterFailure, repository, GateInv
  <2>1. \E result \in {"blocked", "merge_failed"} : Conclude(t, result, <<>>)
    BY <1>9 DEF VerifyAfterFailure
  <2> QED
    BY <2>0, <2>1, GivesUp
<1> QED
  BY <1>1, <1>2, <1>3, <1>4, <1>5, <1>6, <1>7, <1>8, <1>9 DEF MergeStep

\* The rest of the run, and the other writers, keep the invariant.
LEMMA OtherStepKeeps ==
  ASSUME IInv, Next,
         ~\E t \in Tasks : TaskStep(t) \/ MergeStep(t)
  PROVE  Kept
<1> USE DEF Kept
<1>0. /\ TypeOK /\ GateInv /\ ResultInv /\ main \in Seq(Entry) /\ guard.expected \in Seq(Entry)
      /\ gate.step # "idle" => phase \in {"merging", "dead"}
  BY DEF IInv, TypeOK, Guard, GateInv
<1>1. ASSUME NEW pinned \in BOOLEAN, PinDefaultBranch(pinned) PROVE Kept
  <2>1. /\ phase = "start" /\ phase' = "worktrees" /\ UNCHANGED <<branch, job, gate, seen>>
        /\ gate.step = "idle" /\ \A t \in Tasks : job[t].result = "none"
    BY <1>0, <1>1 DEF PinDefaultBranch, repository, ResultInv
  <2>2. GateInv' /\ ResultInv'
    BY <2>1, IdleGateInv DEF ResultInv
  <2>3. guard'.pinned => guard'.baseline = main /\ guard'.expected = main
    BY <1>1 DEF PinDefaultBranch, NoGuard
  <2>4. guard'.pinned => IsPrefix(guard'.baseline, guard'.expected)
    BY <1>0, <2>3, PrefixRefl
  <2>5. ChainIsOwnMerges'
    BY <1>0, <2>3, <2>4 DEF ChainIsOwnMerges
  <2> QED
    BY <2>2, <2>5
<1>2. ASSUME NEW t \in Tasks, CreateWorktree(t) PROVE Kept
  <2>1. /\ phase = "worktrees" /\ UNCHANGED <<phase, guard, gate, seen>>
        /\ gate.step = "idle" /\ \A u \in Tasks : job[u].result = "none"
    BY <1>0, <1>2 DEF CreateWorktree, ResultInv
  <2>2. \E stage \in {"waiting", "refused"} : job' = [job EXCEPT ![t].stage = stage]
    BY <1>2 DEF CreateWorktree
  <2>3. \A u \in Tasks : job'[u].result = job[u].result /\ job'[u].sha = job[u].sha
    BY <1>0, <2>2 DEF TypeOK, Job
  <2>4. GateInv' /\ ResultInv'
    BY <2>1, <2>3, IdleGateInv DEF ResultInv
  <2>5. ChainIsOwnMerges'
    BY <2>1, <2>3 DEF IInv, ChainIsOwnMerges
  <2> QED
    BY <2>4, <2>5
<1>3. CASE StartAgents \/ Gather
  <2>1. Quiet /\ PhaseMoves /\ phase \notin {"merging", "dead"}
    BY <1>3 DEF StartAgents, Gather, Quiet, GuardKept, PhaseMoves, Later, repository
  <2> QED
    BY <2>1, EarlyStep
<1>4. CASE VerifyEndOfRun
  <2>1. /\ phase = "merging" /\ phase' = "writing" /\ UNCHANGED <<branch, job, gate>>
        /\ gate.step = "idle" /\ seen' = main
    BY <1>4 DEF VerifyEndOfRun, repository
  <2>2. GuardKept /\ (guard.pinned /\ ~guard'.tripped => main = guard.expected)
    BY <1>0, <1>4, VerifyKeeps DEF VerifyEndOfRun
  <2>3. GateInv'
    BY <2>1, IdleGateInv
  <2>4. ResultInv'
    BY <1>0, <2>1, <2>2 DEF ResultInv, GuardKept, Landed
  <2>5. ChainIsOwnMerges'
    BY <2>1, <2>2, ChainKept
  <2> QED
    BY <2>3, <2>4, <2>5
<1>5. ASSUME NEW t \in Tasks, WriteStatus(t) PROVE Kept
  <2>1. \A u \in Tasks : job'[u].result = job[u].result /\ job'[u].sha = job[u].sha
    BY <1>0, <1>5 DEF WriteStatus, TypeOK, Job
  <2>2. Quiet /\ PhaseMoves /\ phase \notin {"merging", "dead"}
    BY <1>5, <2>1 DEF WriteStatus, Quiet, GuardKept, PhaseMoves, Later, repository
  <2> QED
    BY <2>2, EarlyStep
<1>6. CASE StartCleanup \/ EndRun
  <2>1. Quiet /\ PhaseMoves /\ phase \notin {"merging", "dead"}
    BY <1>6 DEF StartCleanup, EndRun, Quiet, GuardKept, PhaseMoves, Later, repository
  <2> QED
    BY <2>1, EarlyStep
<1>7. ASSUME NEW t \in Tasks, NEW removed \in BOOLEAN, CleanUp(t, removed) PROVE Kept
  <2>1. /\ phase = "cleaning" /\ UNCHANGED <<phase, guard, gate, seen>> /\ gate.step = "idle"
    BY <1>0, <1>7 DEF CleanUp
  <2>2. \A u \in Tasks : job'[u].result = job[u].result /\ job'[u].sha = job[u].sha
    BY <1>0, <1>7 DEF CleanUp, TypeOK, Job
  <2>3. \A u \in Tasks : branch'[u].fork \in {branch[u].fork, <<>>}
    BY <1>0, <1>7 DEF CleanUp, TypeOK, Branch, NoBranch
  <2>4. ASSUME NEW u \in Tasks, job'[u].result \in {"merged", "noop"}
        PROVE  Landed(u, job[u].sha, guard.expected)'
    <3>1. Landed(u, job[u].sha, guard.expected)
      BY <1>0, <2>2, <2>4 DEF ResultInv
    <3>2. IsPrefix(<<>>, guard.expected)
      BY <1>0, PrefixEmpty
    <3> QED
      BY <2>1, <2>2, <2>3, <3>1, <3>2 DEF Landed
  <2>5. GateInv' /\ ResultInv'
    BY <1>0, <2>1, <2>2, <2>4, IdleGateInv DEF ResultInv
  <2>6. ChainIsOwnMerges'
    BY <2>1, <2>2, ChainKept DEF GuardKept
  <2> QED
    BY <2>5, <2>6
<1>8. ASSUME NEW t \in Tasks, NEW keep \in 0 .. MaxCommits, NEW code \in BOOLEAN,
             CommitToBranch(t, keep, code)
      PROVE  Kept
  <2>1. \A u \in Tasks : branch'[u].fork = branch[u].fork
    BY <1>0, <1>8 DEF CommitToBranch, TypeOK, Branch
  <2>2. UNCHANGED memory
    BY <1>8 DEF CommitToBranch
  <2>3. Quiet /\ PhaseMoves
    BY <1>0, <2>1, <2>2 DEF memory, Quiet, GuardKept, PhaseMoves, Later, ResultInv
  <2> QED
    BY <2>2, <2>3, QuietGate, QuietResults DEF memory
<1>9. CASE MoveDefaultBranch
  <2>1. Quiet /\ PhaseMoves /\ UNCHANGED memory
    BY <1>0, <1>9
    DEF MoveDefaultBranch, memory, Quiet, GuardKept, PhaseMoves, Later, ResultInv
  <2> QED
    BY <2>1, QuietGate, QuietResults DEF memory
<1>10. CASE FailCheck
  <2>1. Quiet /\ PhaseMoves /\ gate'.step = "idle"
    BY <1>0, <1>10, TripKeeps
    DEF FailCheck, repository, Quiet, PhaseMoves, Later, ResultInv
  <2> QED
    BY <2>1, QuietResults, IdleGateInv
<1>11. ASSUME NEW t \in Tasks, FailCheckInMerge(t) PROVE Kept
  <2>1. /\ phase = "merging" /\ UNCHANGED <<phase, branch, seen>>
        /\ job[t].result = "none" /\ GuardKept /\ Conclude(t, "blocked", <<>>)
    BY <1>0, <1>11, TripKeeps DEF FailCheckInMerge, repository, GateInv
  <2> QED
    BY <2>1, GivesUp
<1>12. CASE Signal
  <2>1. Quiet /\ PhaseMoves
    BY <1>0, <1>12 DEF Signal, repository, Quiet, GuardKept, PhaseMoves, Later, ResultInv
  <2>2. UNCHANGED <<branch, phase, guard, job, gate>> /\ shutdown' = {gate.task}
    BY <1>12 DEF Signal, repository
  <2>3. GateInv'
    BY <1>0, <2>2 DEF GateInv, Approves, ExpectArtifact, ReviewPasses, ReviewedCommit, DocOnly
  <2> QED
    BY <2>1, <2>3, QuietResults
<1>13. CASE Crash
  <2>1. Quiet /\ PhaseMoves /\ phase' = "dead" /\ UNCHANGED <<guard, shutdown, job>>
    BY <1>13 DEF Crash, repository, Quiet, GuardKept, PhaseMoves, Later
  <2> QED
    BY <2>1, QuietGate, QuietResults
<1>14. CASE Dispatch
  <2>1. /\ gate'.step = "idle" /\ ~guard'.pinned /\ phase' = "start"
        /\ \A t \in Tasks : job'[t].result = "none"
    BY <1>14 DEF Dispatch, IdleGate, NoGuard, NewJob
  <2> QED
    BY <2>1, IdleGateInv DEF ResultInv, ChainIsOwnMerges
<1> QED
  BY <1>1, <1>2, <1>3, <1>4, <1>5, <1>6, <1>7, <1>8, <1>9, <1>10, <1>11, <1>12, <1>13, <1>14
  DEF Next, Orchestrator, Environment

\* The invariant is inductive.
LEMMA StepInv == IInv /\ [Next]_vars => IInv'
<1> SUFFICES ASSUME IInv, [Next]_vars PROVE IInv'
  OBVIOUS
<1>1. TypeOK'
  BY StepTypes DEF IInv
<1>2. Kept
  <2>1. CASE UNCHANGED vars
    BY <2>1 DEF vars, Kept, IInv, GateInv, ResultInv, ChainIsOwnMerges, Approves,
       ExpectArtifact, ReviewPasses, ReviewedCommit, DocOnly, Landed, Merge
  <2>2. CASE Next
    BY <2>2, TaskStepKeeps, MergeStepKeeps, OtherStepKeeps
  <2> QED
    BY <2>1, <2>2
<1> QED
  BY <1>1, <1>2 DEF IInv, Kept

\* The inductive invariant holds in every state of every run.
THEOREM Invariance == Spec => []IInv
BY InitInv, StepInv, PTL DEF Spec

-----------------------------------------------------------------------------
(* The theorems.                                                           *)

\* The invariant gives the two that the runs check.
LEMMA InvImplies == IInv => TypeOK /\ ChainIsOwnMerges
BY DEF IInv

\* Tables, branches and the dispatcher's records keep their shapes.
THEOREM TypeCorrect == Spec => []TypeOK
BY Invariance, InvImplies, PTL

\* DefaultBranchGuard: whoever moved the default branch and whenever, the commit
\* the guard expects is the pinned one plus this run's recorded merges.
THEOREM OwnMergesOnly == Spec => []ChainIsOwnMerges
BY Invariance, InvImplies, PTL

\* Only the git merge and the fast-forward of the gate's task extend the default
\* branch by a merge of that task.
LEMMA WhoMerges ==
  ASSUME IInv, [Next]_vars, NEW t \in Tasks, Merges(t)
  PROVE  gate.task = t /\ gate.step \in {"merging", "rebased"}
<1>0. main \in Seq(Entry) /\ gate.sha \in Seq(Commit) /\ spent.moves \in Nat
  BY BoundTypes DEF IInv, TypeOK, Gate
<1>1. main' # main
  BY <1>0, MergeType DEF Merges
<1>2. ~MoveDefaultBranch
  <2> SUFFICES ASSUME MoveDefaultBranch PROVE FALSE
    OBVIOUS
  <2> DEFINE other == [by |-> Nobody, sha |-> <<>>, number |-> spent.moves + 1]
  <2> DEFINE merge == [by |-> t, sha |-> gate.sha, number |-> 0]
  <2>1. other # merge
    BY BoundTypes
  <2>2. other \in Entry /\ merge \in Entry
    BY <1>0, BoundTypes, EmptyTypes DEF Entry, MoveDefaultBranch
  <2> HIDE DEF other, merge
  <2>3. main' = Append(main, merge)
    BY DEF Merges, Merge, merge
  <2>4. CASE main' = Append(main, other)
    <3>1. Append(main, other) = Append(main, merge)
      BY <2>3, <2>4
    <3>2. other = merge
      BY <1>0, <2>2, <3>1
    <3> QED
      BY <2>1, <3>2
  <2>5. CASE main # <<>> /\ main' = SubSeq(main, 1, Len(main) - 1)
    <3>1. Len(Append(main, merge)) = Len(main) + 1 /\ Len(main) \in Nat
      BY <1>0, <2>2
    <3>0. Len(main) # 0
      BY <1>0, <2>5, EmptySeq
    <3>2. Len(SubSeq(main, 1, Len(main) - 1)) = Len(main) - 1
      <4> DEFINE n == Len(main) - 1
      <4>1. n \in Nat /\ n <= Len(main)
        BY <3>0, <3>1
      <4>2. 1 .. n \subseteq 1 .. Len(main)
        BY <3>1, <4>1
      <4> HIDE DEF n
      <4>3. Len(SubSeq(main, 1, n)) = n
        BY <1>0, <3>1, <4>1, <4>2
      <4> QED
        BY <4>3 DEF n
    <3>3. Append(main, merge) = SubSeq(main, 1, Len(main) - 1)
      BY <2>3, <2>5
    <3>4. Len(main) + 1 = Len(main) - 1
      BY <3>1, <3>2, <3>3
    <3> QED
      BY <3>1, <3>4
  <2> QED
    BY <2>4, <2>5 DEF MoveDefaultBranch, other
<1>3. \E u \in Tasks : /\ gate.task = u /\ gate.step \in {"merging", "rebased"}
                      /\ main' = Merge(main, u, gate.sha)
  BY <1>1, <1>2
  DEF Next, Orchestrator, Environment, TaskStep, MergeStep, vars, repository, memory,
      PinDefaultBranch, CreateWorktree, StartAgents, StartTask, AgentEnds, TaskRaises,
      CheckClaim, SkipReview, StartReview, EndReview, FinishTask, Gather, GateTask,
      VerifyBeforeMerge, BeginMerge, GitMerge, Rebase, FastForward, ReadHead, RecordMerge,
      VerifyAfterFailure, VerifyEndOfRun, WriteStatus, StartCleanup, CleanUp, EndRun,
      CommitToBranch, FailCheck, FailCheckInMerge, Signal, Crash, Dispatch
<1>4. PICK u \in Tasks : /\ gate.task = u /\ gate.step \in {"merging", "rebased"}
                        /\ main' = Merge(main, u, gate.sha)
  BY <1>3
<1>5. u = t
  <2> DEFINE mine == [by |-> u, sha |-> gate.sha, number |-> 0]
  <2> DEFINE merge == [by |-> t, sha |-> gate.sha, number |-> 0]
  <2>1. mine \in Entry /\ merge \in Entry
    BY <1>0, BoundTypes DEF Entry
  <2>2. Append(main, mine) = Append(main, merge)
    BY <1>4 DEF Merges, Merge
  <2>3. mine = merge
    <3> HIDE DEF mine, merge
    <3> QED
      BY <1>0, <2>1, <2>2
  <2> QED
    BY <2>3
<1> QED
  BY <1>4, <1>5

\* dispatch-06: no merge lands after the guard has tripped, nor, once a signal has
\* been put off, any but the one it interrupted.
THEOREM MergesStop == Spec => StopsMerging
<1>1. IInv /\ [Next]_vars =>
        [\A t \in Tasks : Merges(t) => ~guard.tripped /\ shutdown \subseteq {t}]_vars
  <2> SUFFICES ASSUME IInv, [Next]_vars, NEW t \in Tasks, Merges(t)
               PROVE  ~guard.tripped /\ shutdown \subseteq {t}
    OBVIOUS
  <2> QED
    BY WhoMerges DEF IInv, GateInv
<1> QED
  BY <1>1, Invariance, PTL DEF Spec, StopsMerging

\* What is merged is the commit the reviewer approved.
THEOREM MergesAreReviewed == Spec => MergesReviewedCommit
<1> DEFINE Reviewed(t) ==
      LET r == job[t].review IN
      \/ ~SecurityReviewEnabled
      \/ DocOnly(t, gate.sha, guard.expected)
      \/ r.verdict = "clean" /\ r.clean /\ r.sha = gate.sha /\ r.end = gate.sha
<1>1. IInv /\ [Next]_vars => [\A t \in Tasks : Merges(t) => Reviewed(t)]_vars
  <2> SUFFICES ASSUME IInv, [Next]_vars, NEW t \in Tasks, Merges(t)
               PROVE  Reviewed(t)
    OBVIOUS
  <2>1. gate.task = t /\ gate.step \in {"merging", "rebased"}
    BY WhoMerges
  <2>2. /\ ExpectArtifact(t, gate.sha) => job[t].review.verdict = "clean"
        /\ Approves(t, gate.sha)
    BY <2>1 DEF IInv, GateInv
  <2> QED
    BY <2>2 DEF Approves, ExpectArtifact, ReviewedCommit
<1> QED
  BY <1>1, Invariance, PTL DEF Spec, MergesReviewedCommit

\* dispatch-05: a task's row says done after a merge only for a commit that the
\* end-of-run check saw on the default branch, among the orchestrator's merges.
THEOREM DoneMeansLanded == Spec => DoneIsLanded
<1> DEFINE Proper(t) ==
      /\ Landed(t, row'[t].merged, seen)
      /\ \A i \in Len(guard.baseline) + 1 .. Len(seen) : seen[i].by \in Tasks
<1> DEFINE Written(t) ==
      job[t].outcome = "tests_passed" /\ row'[t] # row[t] /\ row'[t].status = "done"
<1>1. IInv /\ [Next]_vars => [\A t \in Tasks : Written(t) => Proper(t)]_vars
  <2> SUFFICES ASSUME IInv, [Next]_vars, NEW t \in Tasks, Written(t)
               PROVE  Proper(t)
    OBVIOUS
  <2>0. TypeOK /\ row'[t] # row[t]
    BY DEF IInv
  <2>1. \E u \in Tasks : StartTask(u) \/ FinishTask(u) \/ WriteStatus(u)
    BY <2>0
    DEF Next, Orchestrator, Environment, TaskStep, MergeStep, vars, repository, memory,
        PinDefaultBranch, CreateWorktree, StartAgents, AgentEnds, TaskRaises, CheckClaim,
        SkipReview, StartReview, EndReview, Gather, GateTask, VerifyBeforeMerge, BeginMerge,
        GitMerge, Rebase, FastForward, ReadHead, RecordMerge, VerifyAfterFailure,
        VerifyEndOfRun, StartCleanup, CleanUp, EndRun, CommitToBranch, MoveDefaultBranch,
        FailCheck, FailCheckInMerge, Signal, Crash, Dispatch
  <2>2. ASSUME NEW u \in Tasks, StartTask(u) PROVE FALSE
    <3>1. \/ row' = [row EXCEPT ![u] = [status |-> "blocked", merged |-> <<>>]]
          \/ row' = [row EXCEPT ![u].status = "in_progress"]
      BY <2>2 DEF StartTask
    <3> QED
      BY <2>0, <3>1 DEF TypeOK, Row
  <2>3. ASSUME NEW u \in Tasks, FinishTask(u) PROVE FALSE
    <3>1. \/ row' = [row EXCEPT ![u] = [status |-> "blocked", merged |-> <<>>]]
          \/ job[u].outcome = "no_changes" /\ row' = [row EXCEPT ![u].status = "done"]
      BY <2>0, <2>3 DEF FinishTask
    <3> QED
      BY <2>0, <3>1 DEF TypeOK, Row
  <2>4. PICK u \in Tasks : WriteStatus(u)
    BY <2>1, <2>2, <2>3
  <2>5. /\ u = t /\ IsDone(t) /\ row'[t].merged = job[t].sha
        /\ phase = "writing"
    BY <2>0, <2>4 DEF WriteStatus, TypeOK
  <2>6. Landed(t, job[t].sha, guard.expected) /\ seen = guard.expected /\ guard.pinned
    BY <2>5 DEF IInv, ResultInv, IsDone
  <2>7. ASSUME NEW i \in Len(guard.baseline) + 1 .. Len(guard.expected)
        PROVE  guard.expected[i].by \in Tasks
    <3>1. PICK v \in Tasks : guard.expected[i] = Merge(<<>>, v, job[v].sha)[1]
      BY <2>6 DEF IInv, ChainIsOwnMerges
    <3>2. Merge(<<>>, v, job[v].sha)[1].by = v
      BY DEF Merge
    <3> QED
      BY <3>1, <3>2
  <2> QED
    BY <2>5, <2>6, <2>7
<1> QED
  BY <1>1, Invariance, PTL DEF Spec, DoneIsLanded

\* The clean-up deletes a branch only when its approved commit was on the default
\* branch at the end of the run.
THEOREM DeletedWasMerged == Spec => DeletesMergedOnly
<1> DEFINE Deleted(t) == branch[t].exists /\ ~branch'[t].exists
<1>1. IInv /\ [Next]_vars =>
        [\A t \in Tasks : Deleted(t) =>
           job[t].result = "merged" /\ Landed(t, job[t].sha, seen)]_vars
  <2> SUFFICES ASSUME IInv, [Next]_vars, NEW t \in Tasks, Deleted(t)
               PROVE  job[t].result = "merged" /\ Landed(t, job[t].sha, seen)
    OBVIOUS
  <2>0. TypeOK /\ branch' # branch
    BY DEF IInv
  <2>1. \/ \E u \in Tasks : CreateWorktree(u)
        \/ \E u \in Tasks, removed \in BOOLEAN : CleanUp(u, removed)
        \/ \E u \in Tasks, keep \in 0 .. MaxCommits, code \in BOOLEAN :
             CommitToBranch(u, keep, code)
    BY <2>0
    DEF Next, Orchestrator, Environment, TaskStep, MergeStep, vars, repository, memory,
        PinDefaultBranch, StartAgents, StartTask, AgentEnds, TaskRaises, CheckClaim,
        SkipReview, StartReview, EndReview, FinishTask, Gather, GateTask, VerifyBeforeMerge,
        BeginMerge, GitMerge, Rebase, FastForward, ReadHead, RecordMerge, VerifyAfterFailure,
        VerifyEndOfRun, WriteStatus, StartCleanup, EndRun, MoveDefaultBranch,
        FailCheck, FailCheckInMerge, Signal, Crash, Dispatch
  <2>2. ASSUME NEW u \in Tasks, CreateWorktree(u) PROVE FALSE
    BY <2>0, <2>2 DEF CreateWorktree, TypeOK, Branch
  <2>3. ASSUME NEW u \in Tasks, NEW keep \in 0 .. MaxCommits, NEW code \in BOOLEAN,
               CommitToBranch(u, keep, code)
        PROVE  FALSE
    BY <2>0, <2>3 DEF CommitToBranch, TypeOK, Branch
  <2>4. PICK u \in Tasks, removed \in BOOLEAN : CleanUp(u, removed)
    BY <2>1, <2>2, <2>3
  <2>5. u = t /\ job[t].result = "merged" /\ ~guard.tripped /\ phase = "cleaning"
    BY <2>0, <2>4 DEF CleanUp, TypeOK
  <2>6. Landed(t, job[t].sha, guard.expected) /\ seen = guard.expected
    BY <2>5 DEF IInv, ResultInv
  <2> QED
    BY <2>5, <2>6
<1> QED
  BY <1>1, Invariance, PTL DEF Spec, DeletesMergedOnly
=============================================================================
