--------------------------- MODULE DevTestLoopProofs ---------------------------
(***************************************************************************)
(* Proofs about DevTestLoop: the counters of a cycle, what a success says  *)
(* of the tests and of the checkpoints, and that every step of a dispatch  *)
(* is a step or a stutter of TaskRun, for every limit of the configuration *)
(* and every number of retries.                                            *)
(*                                                                         *)
(* While the loop runs its limits are not reached, except between the      *)
(* developer's report and its judgement; a branch holds commits of the     *)
(* running attempt alone; and what a return says of the tests still holds  *)
(* when the dispatch is over, for no agent runs in between.                *)
(***************************************************************************)
EXTENDS DevTestLoop, TLAPS

Loops ==
  [cycle : 0..MaxCycles, previous : Nat, idle : 0..NoProgressLimit,
   continued : 0..(MaxContinuations - 1), paralysed : 0..(ParalysisCap - 1),
   files : SUBSET UNION FileSets, last : FileSets \cup {{}}, repeats : 0..MaxCycles]

\* The limits of a loop l that is in phase p.
LoopOK(p, l) ==
  /\ l \in Loops
  /\ p # "judging" => l.idle < NoProgressLimit
  /\ IF p = "developer" THEN l.repeats < l.cycle ELSE l.repeats <= l.cycle

Inside == phase \notin {"outside", "over"}

\* Only the running attempt has commits on the branch.
OwnCommits == Inside => attempt >= 1 /\ branch.commits \in {0, attempt}

Answered == {"returned", "resetting", "over"}

\* From the return to the end of the dispatch the outcome means what it says.
OutcomeOK ==
  /\ phase \in Answered => outcome \in Successes \cup Failures
  /\ phase = "resetting" => outcome \in Failures /\ attempt <= MaxRetries
  /\ phase \in Answered /\ outcome \in Successes => checkpoint = 0
  /\ phase \in Answered /\ outcome = "tests_passed" =>
       reported \in {Honest, Contradictory} \/ (audit /\ git /\ ~branch.differs)

LoopInv == TypeOK /\ LoopOK(phase, loop) /\ OwnCommits /\ OutcomeOK

LEMMA LimitTypes ==
  /\ MaxCycles \in Nat \ {0} /\ NoProgressLimit \in Nat \ {0}
  /\ MaxContinuations \in Nat \ {0} /\ ParalysisCap \in Nat \ {0}
  /\ MaxRetries \in Nat /\ MaxDispatches \in Nat
BY DevTestLoopAssumption

-----------------------------------------------------------------------------
(* The loop's local state.                                                 *)

LEMMA FreshLoop ==
    ASSUME NEW prev \in Nat PROVE NewLoop(prev) \in Loops /\ NewLoop(prev).cycle = 0
                                  /\ NewLoop(prev).idle = 0 /\ NewLoop(prev).repeats = 0
BY LimitTypes DEF NewLoop, Loops

LEMMA FreshLoopOK ==
    ASSUME NEW prev \in Nat, NEW p, p # "developer" PROVE LoopOK(p, NewLoop(prev))
BY FreshLoop, LimitTypes DEF LoopOK

\* Recording a fingerprint keeps the repeats within the cycles begun so far.
LEMMA RecordKeepsLimits ==
    ASSUME LoopOK("developer", loop), NEW same \in BOOLEAN,
           NEW files \in FileSets \cup {{}}
    PROVE  /\ Record(same, files) \in Loops
           /\ Record(same, files).repeats <= loop.cycle
           /\ Record(same, files).cycle = loop.cycle
           /\ Record(same, files).previous = loop.previous
           /\ Record(same, files).idle = loop.idle
           /\ Record(same, files).continued = loop.continued
           /\ Record(same, files).paralysed = loop.paralysed
           /\ Record(same, files).files = loop.files
<1> DEFINE n == IF same /\ (files = {} \/ files = loop.last) THEN loop.repeats + 1 ELSE 1
<1>1. /\ loop \in Loops /\ loop.cycle \in 0..MaxCycles /\ loop.repeats \in 0..MaxCycles
      /\ loop.repeats < loop.cycle
  BY DEF LoopOK, Loops
<1>2. n \in 0..MaxCycles /\ n <= loop.cycle
  BY <1>1, LimitTypes
<1>3. Record(same, files) = [loop EXCEPT !.repeats = n, !.last = files]
  BY DEF Record
<1> HIDE DEF n
<1> QED BY <1>1, <1>2, <1>3 DEF Loops

-----------------------------------------------------------------------------
(* What the actions share: the loop goes on, or it returns.                *)

\* Where the loop runs.
LoopPhases == {"building", "repairing", "cycling", "developer", "judging", "tester"}

LEMMA ContinueStep ==
    ASSUME LoopInv, phase \in LoopPhases \cup {"starting"}, NEW p \in LoopPhases, NEW next,
           Continue(p, next), LoopOK(p, next),
           UNCHANGED <<audit, git, dispatches, attempt>>,
           taskStatus' \in Statuses,
           checkpoint' \in Nat,
           branch' \in {branch, [branch EXCEPT !.differs = TRUE],
                        [branch EXCEPT !.differs = FALSE]},
           reported' \in Verdicts \cup {NothingReported}
    PROVE  LoopInv'
<1>1. TypeOK BY DEF LoopInv
<1>2. phase' = p /\ loop' = next /\ outcome' = outcome BY DEF Continue
<1>3. /\ branch' \in [commits : 0..(MaxRetries + 1), differs : BOOLEAN]
      /\ branch'.commits = branch.commits
  <2>1. branch \in [commits : 0..(MaxRetries + 1), differs : BOOLEAN] BY <1>1 DEF TypeOK
  <2> QED BY <2>1
<1>4. TypeOK'
  <2>1. p \in Phases BY DEF LoopPhases, Phases
  <2>2. next \in Loops BY DEF LoopOK
  <2> QED BY <1>1, <1>2, <1>3, <2>1, <2>2 DEF TypeOK, Loops
<1>5. LoopOK(phase, loop)' BY <1>2 DEF LoopOK, Loops
<1>6. OwnCommits'
  BY <1>2, <1>3 DEF LoopInv, OwnCommits, Inside, LoopPhases
<1>7. OutcomeOK' BY <1>2 DEF OutcomeOK, Answered, LoopPhases
<1> QED BY <1>4, <1>5, <1>6, <1>7 DEF LoopInv

LEMMA ReturnStep ==
    ASSUME LoopInv, phase \in LoopPhases,
           NEW result \in Successes \cup Failures, Return(result),
           UNCHANGED <<audit, git, dispatches, attempt, branch>>,
           taskStatus' \in Statuses,
           checkpoint' \in Nat, result \in Successes => checkpoint' = 0,
           reported' \in Verdicts \cup {NothingReported},
           result = "tests_passed" =>
             reported' \in {Honest, Contradictory} \/ (audit /\ git /\ ~branch.differs)
    PROVE  LoopInv'
<1>1. TypeOK BY DEF LoopInv
<1>2. phase' = "returned" /\ loop' = NewLoop(0) /\ outcome' = result BY DEF Return
<1>3. LoopOK(phase', loop') BY <1>2, FreshLoopOK
<1>4. TypeOK'
  <2>1. loop' \in Loops BY <1>3 DEF LoopOK
  <2>2. phase' \in Phases BY <1>2 DEF Phases
  <2> QED BY <1>1, <1>2, <2>1, <2>2 DEF TypeOK, Loops
<1>5. LoopOK(phase, loop)' BY <1>3 DEF LoopOK, Loops
<1>6. OwnCommits' BY <1>2 DEF LoopInv, OwnCommits, Inside, LoopPhases
<1>7. OutcomeOK' BY <1>2 DEF OutcomeOK, Answered
<1> QED BY <1>4, <1>5, <1>6, <1>7 DEF LoopInv

\* A step outside the loop: the loop's state is fresh or stays unused.
LEMMA AttemptStep ==
    ASSUME LoopInv, NEW p \in {"outside", "attempting", "starting", "returned", "resetting",
                               "over"},
           phase' = p, UNCHANGED <<audit, git>>, loop' = loop \/ loop' = NewLoop(0),
           phase \in {"outside", "attempting", "starting", "returned", "resetting", "over"}
             \/ loop' = NewLoop(0),
           taskStatus' \in Statuses, checkpoint' = checkpoint,
           reported' \in {reported, NothingReported}, dispatches' \in 0..MaxDispatches,
           attempt' \in 0..(MaxRetries + 1),
           branch' = Clean \/ branch' = branch,
           p \notin {"outside", "over"} => attempt' >= 1,
           p \notin {"outside", "over"} /\ branch' # Clean =>
             branch.commits \in {0, attempt'},
           outcome' \in Successes \cup Failures \cup {"none"},
           OutcomeOK'
    PROVE  LoopInv'
<1>1. TypeOK BY DEF LoopInv
<1>2. LoopOK(p, loop')
  <2>1. CASE loop' = NewLoop(0) BY <2>1, FreshLoopOK
  <2>2. CASE loop' = loop /\ phase \in {"outside", "attempting", "starting", "returned",
                                        "resetting", "over"}
    BY <2>2 DEF LoopInv, LoopOK
  <2> QED BY <2>1, <2>2
<1>3. LoopOK(phase, loop)' BY <1>2 DEF LoopOK, Loops
<1>4. branch' \in [commits : 0..(MaxRetries + 1), differs : BOOLEAN]
  <2>1. 0 \in 0..(MaxRetries + 1) BY LimitTypes
  <2>2. Clean \in [commits : 0..(MaxRetries + 1), differs : BOOLEAN] BY <2>1 DEF Clean
  <2> QED BY <1>1, <2>2 DEF TypeOK
<1>5. TypeOK'
  <2>1. loop' \in Loops BY <1>2 DEF LoopOK
  <2>2. phase' \in Phases BY DEF Phases
  <2>3. reported' \in Verdicts \cup {NothingReported} BY <1>1 DEF TypeOK
  <2>4. checkpoint' \in Nat /\ audit' \in BOOLEAN /\ git' \in BOOLEAN BY <1>1 DEF TypeOK
  <2> QED BY <1>4, <2>1, <2>2, <2>3, <2>4 DEF TypeOK, Loops
<1>6. OwnCommits' BY DEF OwnCommits, Inside, Clean
<1> QED BY <1>3, <1>5, <1>6 DEF LoopInv

-----------------------------------------------------------------------------
(* The steps of the loop.                                                  *)

LEMMA BuildStep ==
    ASSUME LoopInv, NEW builds \in BOOLEAN, CheckBuild(builds) PROVE LoopInv'
<1> DEFINE p == IF builds THEN "cycling" ELSE "repairing"
<1>1. /\ TypeOK /\ LoopOK(p, loop) /\ phase = "building" /\ p \in LoopPhases
      /\ Continue(p, loop)
      /\ UNCHANGED <<audit, git, dispatches, taskStatus, checkpoint, branch, attempt, reported>>
  BY DEF LoopInv, CheckBuild, world, LoopOK, LoopPhases
<1> HIDE DEF p
<1> QED BY <1>1, ContinueStep DEF TypeOK, LoopPhases, Statuses

\* The repair of a broken build goes on, gives up, or finds every circuit open.
LEMMA RepairStep ==
    ASSUME LoopInv, NEW result \in Failures \cup {"repaired"}, EndRepair(result)
    PROVE  LoopInv'
<1>1. /\ TypeOK /\ LoopOK("cycling", loop) /\ phase = "repairing"
      /\ UNCHANGED <<audit, git, dispatches, checkpoint, attempt, reported>>
  BY DEF LoopInv, EndRepair, world, LoopOK
<1>2. CASE /\ Continue("cycling", loop) /\ UNCHANGED taskStatus
           /\ branch' \in {branch, [branch EXCEPT !.differs = FALSE]}
  BY <1>1, <1>2, ContinueStep DEF TypeOK, LoopPhases, Statuses
<1>3. CASE result \in {"build_broken", "overloaded"} /\ Return(result)
             /\ taskStatus' = "blocked" /\ UNCHANGED branch
  <2>1. result \in Successes \cup Failures /\ result \notin Successes
    BY <1>3 DEF Successes, Failures
  <2> QED BY <1>1, <1>3, <2>1, ReturnStep DEF TypeOK, LoopPhases, Successes, Statuses
<1>4. CASE /\ phase' = "over" /\ outcome' = "circuit_breaker_blocked"
           /\ loop' = NewLoop(0) /\ UNCHANGED <<taskStatus, branch>>
  <2>1. OutcomeOK' BY <1>4 DEF OutcomeOK, Answered, Successes, Failures
  <2>2. outcome' \in Failures BY <1>4 DEF Failures
  <2> QED BY <1>1, <1>4, <2>1, <2>2, AttemptStep DEF TypeOK, Statuses
<1> QED BY <1>2, <1>3, <1>4 DEF EndRepair, GoTo

LEMMA BeginCycleStep ==
    ASSUME LoopInv, BeginCycle PROVE LoopInv'
<1>1. /\ TypeOK /\ LoopOK("cycling", loop) /\ phase = "cycling" /\ loop \in Loops
      /\ UNCHANGED <<audit, git, dispatches, taskStatus, checkpoint, branch, attempt, reported>>
  BY DEF LoopInv, BeginCycle, world, LoopOK
<1>2. CASE loop.cycle < MaxCycles
  <2> DEFINE next == [loop EXCEPT !.cycle = @ + 1]
  <2>1. Continue("developer", next) BY <1>2 DEF BeginCycle
  <2>2. next \in Loops /\ next.idle = loop.idle /\ next.repeats = loop.repeats
        /\ next.cycle = loop.cycle + 1
    <3>1. loop.cycle + 1 \in 0..MaxCycles BY <1>1, <1>2, LimitTypes DEF Loops
    <3> QED BY <1>1, <3>1 DEF Loops
  <2>3. LoopOK("developer", next) BY <1>1, <2>2 DEF LoopOK, Loops
  <2> HIDE DEF next
  <2> QED BY <1>1, <2>1, <2>3, ContinueStep DEF TypeOK, LoopPhases
<1>3. CASE ~(loop.cycle < MaxCycles)
  <2>1. Return("cycles_exhausted") BY <1>3 DEF BeginCycle
  <2> QED BY <1>1, <2>1, ReturnStep DEF TypeOK, LoopPhases, Failures, Successes
<1> QED BY <1>2, <1>3

\* What agents do to the worktree and to tasks.status while they run.
LEMMA AgentStep ==
    ASSUME LoopInv, Agents PROVE LoopInv'
<1>1. /\ TypeOK /\ phase \in {"repairing", "developer", "tester"}
      /\ UNCHANGED <<audit, git, dispatches, checkpoint, phase, attempt, loop, outcome, reported>>
  BY DEF LoopInv, Agents, AgentRuns, AgentCommits, AgentEdits, AgentMarksBlocked, world
<1>2. /\ branch.commits \in 0..(MaxRetries + 1) /\ attempt \in 0..(MaxRetries + 1)
      /\ attempt >= 1 /\ branch.commits \in {0, attempt}
      /\ branch = [commits |-> branch.commits, differs |-> branch.differs]
      /\ branch.differs \in BOOLEAN
  BY <1>1 DEF TypeOK, LoopInv, OwnCommits, Inside
<1>3. /\ taskStatus' \in Statuses
      /\ \E n \in {branch.commits, attempt}, d \in BOOLEAN :
           branch' = [commits |-> n, differs |-> d]
  <2>1. CASE AgentCommits BY <1>1, <1>2, <2>1 DEF AgentCommits, TypeOK
  <2>2. CASE AgentEdits
    <3>1. branch' = [commits |-> branch.commits, differs |-> TRUE]
      BY <1>2, <2>2 DEF AgentEdits
    <3> QED BY <1>1, <2>2, <3>1 DEF AgentEdits, TypeOK
  <2>3. CASE AgentMarksBlocked BY <1>2, <2>3 DEF AgentMarksBlocked, Statuses
  <2> QED BY <2>1, <2>2, <2>3 DEF Agents
<1>4. TypeOK' BY <1>1, <1>2, <1>3 DEF TypeOK
<1>5. OwnCommits' BY <1>1, <1>2, <1>3 DEF OwnCommits
<1>6. LoopOK(phase, loop)' BY <1>1 DEF LoopInv, LoopOK, Loops
<1>7. OutcomeOK' BY <1>1 DEF OutcomeOK, Answered
<1> QED BY <1>4, <1>5, <1>6, <1>7 DEF LoopInv

LEMMA DeveloperStep ==
    ASSUME LoopInv, Developer PROVE LoopInv'
<1>1. /\ TypeOK /\ LoopOK("developer", loop) /\ phase = "developer" /\ loop \in Loops
      /\ UNCHANGED <<audit, git, dispatches, taskStatus, branch, attempt, reported>>
  BY DEF LoopInv, LoopOK, Developer, DeveloperFails, DeveloperParalysed,
     DeveloperNeedsNoChange, DeveloperRunsOut, DeveloperFinishes, world
<1>2. /\ loop.cycle \in 0..MaxCycles /\ loop.idle \in 0..NoProgressLimit
      /\ loop.idle < NoProgressLimit /\ loop.paralysed \in 0..(ParalysisCap - 1)
      /\ loop.continued \in 0..(MaxContinuations - 1) /\ loop.previous \in Nat
      /\ loop.repeats < loop.cycle /\ loop.repeats \in 0..MaxCycles
      /\ loop.files \in SUBSET UNION FileSets
  BY <1>1 DEF LoopOK, Loops
<1>3. ASSUME NEW result \in Failures, UNCHANGED checkpoint, Return(result) PROVE LoopInv'
  BY <1>1, <1>3, ReturnStep DEF TypeOK, LoopPhases, Failures, Successes
<1>4. ASSUME NEW result \in Failures, DeveloperFails(result) PROVE LoopInv'
  BY <1>3, <1>4 DEF DeveloperFails
<1>5. ASSUME NEW files \in FileSets \cup {{}}, NEW same \in BOOLEAN,
             NEW outOfTime \in BOOLEAN, DeveloperParalysed(files, same, outOfTime)
      PROVE  LoopInv'
  <2> DEFINE r == Record(same, files)
             next == [r EXCEPT !.paralysed = @ + 1]
  <2>1. /\ r \in Loops /\ r.repeats <= loop.cycle /\ r.cycle = loop.cycle
        /\ r.idle = loop.idle /\ r.paralysed = loop.paralysed
    BY <1>1, RecordKeepsLimits
  <2>2. UNCHANGED checkpoint BY <1>5 DEF DeveloperParalysed
  <2>3. CASE Return("early_terminated") \/ Return("no_progress")
    BY <1>3, <2>2, <2>3 DEF Failures
  <2>4. CASE Continue("cycling", next) /\ ~(next.paralysed >= ParalysisCap)
    <3> HIDE DEF r
    <3>1. next.paralysed = r.paralysed + 1 BY <2>1 DEF Loops
    <3>2. r.paralysed + 1 \in 0..(ParalysisCap - 1)
      BY <1>2, <2>1, <2>4, <3>1, LimitTypes
    <3>3. next \in Loops /\ next.idle = r.idle /\ next.repeats = r.repeats
          /\ next.cycle = r.cycle
      BY <2>1, <3>2 DEF Loops
    <3>4. LoopOK("cycling", next) BY <1>2, <2>1, <3>3 DEF LoopOK
    <3>5. Continue("cycling", next) BY <2>4
    <3> HIDE DEF next
    <3> QED BY <1>1, <2>2, <3>4, <3>5, ContinueStep DEF TypeOK, LoopPhases
  <2> QED BY <1>5, <2>3, <2>4 DEF DeveloperParalysed
<1>6. CASE DeveloperNeedsNoChange
  <2>1. checkpoint' = 0 /\ Return("early_completed_no_changes")
    BY <1>6 DEF DeveloperNeedsNoChange
  <2> QED BY <1>1, <2>1, ReturnStep DEF TypeOK, LoopPhases, Failures, Successes
<1>7. ASSUME NEW result \in Failures, NEW text \in BOOLEAN, DeveloperRunsOut(result, text)
      PROVE  LoopInv'
  <2>1. checkpoint' \in Nat
    <3>1. loop.previous + loop.cycle \in Nat BY <1>2, LimitTypes
    <3> QED BY <1>1, <1>7, <3>1 DEF DeveloperRunsOut, TypeOK
  <2>2. CASE Return(result)
    <3>1. result \notin Successes /\ result # "tests_passed" BY DEF Failures, Successes
    <3> QED BY <1>1, <2>1, <2>2, <3>1, ReturnStep DEF TypeOK, LoopPhases
  <2>3. CASE /\ ~(loop.continued + 1 >= MaxContinuations)
             /\ Continue("cycling", [loop EXCEPT !.continued = @ + 1])
    <3> DEFINE next == [loop EXCEPT !.continued = @ + 1]
    <3>1. loop.continued + 1 \in 0..(MaxContinuations - 1) BY <1>2, <2>3, LimitTypes
    <3>2. next \in Loops /\ next.idle = loop.idle /\ next.repeats = loop.repeats
          /\ next.cycle = loop.cycle
      BY <1>1, <3>1 DEF Loops
    <3>3. LoopOK("cycling", next) BY <1>2, <3>2 DEF LoopOK
    <3>4. Continue("cycling", next) BY <2>3
    <3> HIDE DEF next
    <3> QED BY <1>1, <2>1, <3>3, <3>4, ContinueStep DEF TypeOK, LoopPhases
  <2> QED BY <1>7, <2>2, <2>3 DEF DeveloperRunsOut
<1>8. ASSUME NEW files \in FileSets, NEW busy \in BOOLEAN, NEW same \in BOOLEAN,
             DeveloperFinishes(files, busy, same)
      PROVE  LoopInv'
  <2> DEFINE r == Record(same, files)
             idle == IF files # {} \/ busy THEN 0
                     ELSE IF loop.files # {} \/ branch.commits # 0 THEN r.idle ELSE r.idle + 1
             all == r.files \cup files
             next == [r EXCEPT !.files = all, !.idle = idle]
  <2>1. /\ r \in Loops /\ r.repeats <= loop.cycle /\ r.cycle = loop.cycle
        /\ r.idle = loop.idle /\ r.files = loop.files
    BY <1>1, RecordKeepsLimits
  <2>2. UNCHANGED checkpoint /\ Continue("judging", next) BY <1>8 DEF DeveloperFinishes
  <2> HIDE DEF r
  <2>3. idle \in 0..NoProgressLimit BY <1>2, <2>1, LimitTypes
  <2>4. all \in SUBSET UNION FileSets BY <1>2, <2>1
  <2> HIDE DEF idle, all
  <2>5. next \in Loops /\ next.repeats = r.repeats /\ next.cycle = r.cycle
    BY <2>1, <2>3, <2>4 DEF Loops
  <2>6. LoopOK("judging", next) BY <2>1, <2>5 DEF LoopOK
  <2> HIDE DEF next
  <2> QED BY <1>1, <2>2, <2>6, ContinueStep DEF TypeOK, LoopPhases
<1> QED BY <1>4, <1>5, <1>6, <1>7, <1>8 DEF Developer

\* The judgement lets the loop go on only below the limit of idle cycles.
LEMMA JudgeStep ==
    ASSUME LoopInv, NEW gitWorks \in BOOLEAN, NEW statusShowsMd \in BOOLEAN,
           JudgeDeveloper(gitWorks, statusShowsMd)
    PROVE  LoopInv'
<1>1. /\ TypeOK /\ LoopOK("judging", loop) /\ phase = "judging" /\ loop \in Loops
      /\ UNCHANGED <<audit, git, dispatches, taskStatus, branch, attempt, reported>>
  BY DEF LoopInv, LoopOK, JudgeDeveloper, world
<1>2. \/ Return("developer_blocked") /\ UNCHANGED checkpoint
      \/ Return("no_progress") /\ UNCHANGED checkpoint
      \/ Return("loop_detected") /\ UNCHANGED checkpoint
      \/ Return("failed") /\ UNCHANGED checkpoint
      \/ Return("tests_passed") /\ checkpoint' = 0 /\ audit /\ git /\ ~branch.differs
      \/ loop.idle < NoProgressLimit /\ Continue("tester", loop) /\ UNCHANGED checkpoint
  BY DEF JudgeDeveloper
<1>3. ASSUME NEW result \in {"developer_blocked", "no_progress", "loop_detected", "failed"},
             Return(result), UNCHANGED checkpoint
      PROVE  LoopInv'
  <2>1. result \in Failures /\ result \notin Successes BY DEF Failures, Successes
  <2> QED BY <1>1, <1>3, <2>1, ReturnStep DEF TypeOK, LoopPhases, Successes
<1>4. CASE Return("tests_passed") /\ checkpoint' = 0 /\ audit /\ git /\ ~branch.differs
  BY <1>1, <1>4, ReturnStep DEF TypeOK, LoopPhases, Successes
<1>5. CASE loop.idle < NoProgressLimit /\ Continue("tester", loop) /\ UNCHANGED checkpoint
  <2>1. LoopOK("tester", loop) BY <1>1, <1>5 DEF LoopOK
  <2> QED BY <1>1, <1>5, <2>1, ContinueStep DEF TypeOK, LoopPhases
<1> QED BY <1>2, <1>3, <1>4, <1>5

LEMMA TesterStep ==
    ASSUME LoopInv, Tester PROVE LoopInv'
<1>1. /\ TypeOK /\ LoopOK("cycling", loop) /\ phase = "tester"
      /\ UNCHANGED <<audit, git, dispatches, taskStatus, attempt>>
  BY DEF LoopInv, LoopOK, Tester, TesterFails, TesterReports, world
<1>2. ASSUME NEW result \in Failures, TesterFails(result) PROVE LoopInv'
  <2>1. Return(result) /\ UNCHANGED <<branch, checkpoint, reported>>
    BY <1>2 DEF TesterFails
  <2>2. result \notin Successes /\ result # "tests_passed" BY DEF Failures, Successes
  <2> QED BY <1>1, <2>1, <2>2, ReturnStep DEF TypeOK, LoopPhases
<1>3. ASSUME NEW verdict \in Verdicts, TesterReports(verdict) PROVE LoopInv'
  <2> DEFINE wrote == "tests" \in loop.last
             result == VerdictOutcome(verdict, wrote)
  <2>1. /\ reported' = verdict
        /\ IF result # "none"
           THEN /\ Return(result) /\ branch' = branch
                /\ checkpoint' = IF result \in Successes THEN 0 ELSE checkpoint
           ELSE /\ Continue("cycling", loop) /\ checkpoint' = checkpoint
                /\ branch' \in {branch, [branch EXCEPT !.differs = FALSE]}
    BY <1>3 DEF TesterReports
  <2>2. /\ result \in Successes \cup Failures \cup {"none"}
        /\ result = "tests_passed" => verdict \in {Honest, Contradictory}
    <3> HIDE DEF wrote
    <3> QED
      BY DEF VerdictOutcome, Verdicts, Honest, Dubious, Contradictory, Successes, Failures
  <2> HIDE DEF result
  <2>3. CASE result # "none"
    <3>1. checkpoint' \in Nat /\ (result \in Successes => checkpoint' = 0)
      BY <1>1, <2>1, <2>3 DEF TypeOK
    <3> QED BY <1>1, <2>1, <2>2, <2>3, <3>1, ReturnStep DEF TypeOK, LoopPhases
  <2>4. CASE result = "none"
    BY <1>1, <2>1, <2>4, ContinueStep DEF TypeOK, LoopPhases
  <2> QED BY <2>3, <2>4
<1> QED BY <1>2, <1>3 DEF Tester

-----------------------------------------------------------------------------
(* The attempts.                                                           *)

LEMMA OutsideLoopStep ==
    ASSUME LoopInv,
           Dispatch \/ Crash \/ \E ok \in BOOLEAN : BeginAttempt(ok) \/ EndAttempt(ok)
    PROVE  LoopInv'
<1>1. /\ TypeOK /\ OutcomeOK /\ OwnCommits /\ UNCHANGED <<audit, git>> /\ checkpoint' = checkpoint
      /\ taskStatus' = taskStatus
  BY DEF LoopInv, Dispatch, Crash, BeginAttempt, EndAttempt, world
<1>2. CASE Dispatch
  <2>1. /\ phase' = "attempting" /\ attempt' = 1 /\ outcome' = "none" /\ branch' = Clean
        /\ loop' = NewLoop(0) /\ reported' = NothingReported
        /\ dispatches < MaxDispatches /\ dispatches' = dispatches + 1
    BY <1>2 DEF Dispatch, GoTo
  <2>2. dispatches' \in 0..MaxDispatches /\ attempt' \in 0..(MaxRetries + 1) /\ attempt' >= 1
    BY <1>1, <2>1, LimitTypes DEF TypeOK
  <2>3. OutcomeOK' BY <2>1 DEF OutcomeOK, Answered
  <2> QED BY <1>1, <2>1, <2>2, <2>3, AttemptStep DEF TypeOK
<1>3. CASE Crash
  <2>1. /\ phase' = "outside" /\ attempt' = 0 /\ outcome' = "none" /\ branch' = Clean
        /\ loop' = NewLoop(0) /\ reported' = NothingReported /\ dispatches' = dispatches
    BY <1>3 DEF Crash, GoTo, world
  <2>2. attempt' \in 0..(MaxRetries + 1) BY <2>1, LimitTypes
  <2>3. OutcomeOK' BY <2>1 DEF OutcomeOK, Answered
  <2> QED BY <1>1, <2>1, <2>2, <2>3, AttemptStep DEF TypeOK
<1>4. ASSUME NEW ok \in BOOLEAN, BeginAttempt(ok) PROVE LoopInv'
  <2>1. /\ phase = "attempting" /\ loop' = NewLoop(0) /\ reported' = NothingReported
        /\ branch' = branch /\ attempt' = attempt /\ dispatches' = dispatches
        /\ \/ phase' = "starting" /\ outcome' = outcome
           \/ phase' = "over" /\ outcome' = Misplaced
    BY <1>4 DEF BeginAttempt, GoTo, world
  <2>2. OutcomeOK' BY <2>1 DEF OutcomeOK, Answered, Misplaced, Successes, Failures
  <2>3. outcome' \in Successes \cup Failures \cup {"none"}
    BY <1>1, <2>1 DEF TypeOK, Misplaced, Failures
  <2> QED BY <1>1, <2>1, <2>2, <2>3, AttemptStep DEF TypeOK, OwnCommits, Inside
<1>5. ASSUME NEW ok \in BOOLEAN, EndAttempt(ok) PROVE LoopInv'
  <2>1. /\ phase = "returned" /\ loop' = loop /\ reported' = reported
        /\ branch' = branch /\ attempt' = attempt /\ dispatches' = dispatches
        /\ \/ phase' = "over" /\ outcome' = Misplaced
           \/ phase' = "over" /\ outcome' = outcome
           \/ /\ phase' = "resetting" /\ outcome' = outcome /\ outcome \notin Successes
              /\ attempt <= MaxRetries
    BY <1>5 DEF EndAttempt, GoTo, world
  <2>2. OutcomeOK'
    BY <1>1, <2>1 DEF OutcomeOK, Answered, Misplaced, Successes, Failures
  <2>3. outcome' \in Successes \cup Failures \cup {"none"}
    BY <1>1, <2>1 DEF TypeOK, Misplaced, Failures
  <2> QED BY <1>1, <2>1, <2>2, <2>3, AttemptStep DEF TypeOK, OwnCommits, Inside
<1> QED BY <1>2, <1>3, <1>4, <1>5

LEMMA StartLoopStep ==
    ASSUME LoopInv, NEW circuitOpen \in BOOLEAN, StartLoop(circuitOpen) PROVE LoopInv'
<1>1. /\ TypeOK /\ OwnCommits /\ phase = "starting" /\ taskStatus' = "in_progress"
      /\ UNCHANGED <<audit, git, dispatches, checkpoint, branch, attempt, reported>>
  BY DEF LoopInv, StartLoop, world
<1>2. CASE circuitOpen
  <2>1. phase' = "over" /\ outcome' = "circuit_breaker_blocked" /\ loop' = loop
    BY <1>2 DEF StartLoop, GoTo
  <2>2. OutcomeOK' BY <2>1 DEF OutcomeOK, Answered, Successes, Failures
  <2>3. outcome' \in Failures BY <2>1 DEF Failures
  <2> QED BY <1>1, <2>1, <2>2, <2>3, AttemptStep DEF TypeOK, Statuses
<1>3. CASE ~circuitOpen
  <2>1. Continue("building", NewLoop(checkpoint)) BY <1>3 DEF StartLoop
  <2>2. LoopOK("building", NewLoop(checkpoint)) BY <1>1, FreshLoopOK DEF TypeOK
  <2> QED BY <1>1, <2>1, <2>2, ContinueStep DEF TypeOK, LoopPhases, Statuses
<1> QED BY <1>2, <1>3

LEMMA CleanupFailsStep ==
    ASSUME LoopInv, CleanupFails PROVE LoopInv'
<1>1. /\ TypeOK /\ phase = "resetting"
      /\ phase' = "over" /\ outcome' = "attempt_cleanup_failed"
      /\ UNCHANGED <<audit, git, dispatches, taskStatus, checkpoint, branch, attempt, loop,
                     reported>>
  BY DEF LoopInv, CleanupFails, GoTo, world
<1>2. OutcomeOK' BY <1>1 DEF OutcomeOK, Answered, Successes, Failures
<1>3. outcome' \in Failures BY <1>1 DEF Failures
<1> QED BY <1>1, <1>2, <1>3, AttemptStep DEF TypeOK

LEMMA ResetStep ==
    ASSUME LoopInv, NEW refreshed \in BOOLEAN, ResetAttempt(refreshed) PROVE LoopInv'
<1>1. /\ TypeOK /\ OutcomeOK /\ OwnCommits /\ phase = "resetting" /\ branch' = Clean
      /\ UNCHANGED <<audit, git, dispatches, checkpoint, loop, reported>>
  BY DEF LoopInv, ResetAttempt, NextAttempt, world
<1>2. attempt \in 0..(MaxRetries + 1) /\ attempt >= 1 /\ attempt <= MaxRetries
  BY <1>1 DEF TypeOK, OwnCommits, Inside, OutcomeOK
<1>3. CASE refreshed
  <2>1. /\ taskStatus' = "todo" /\ phase' = "attempting"
        /\ attempt' = attempt + 1 /\ outcome' = "none"
    BY <1>3 DEF ResetAttempt, NextAttempt, GoTo
  <2>2. attempt' \in 0..(MaxRetries + 1) /\ attempt' >= 1 BY <1>2, <2>1, LimitTypes
  <2>3. OutcomeOK' BY <2>1 DEF OutcomeOK, Answered
  <2> QED BY <1>1, <2>1, <2>2, <2>3, AttemptStep DEF TypeOK, Statuses
<1>4. CASE ~refreshed
  <2>1. /\ taskStatus' = "gone" /\ phase' = "over"
        /\ attempt' = attempt /\ outcome' = outcome
    BY <1>4 DEF ResetAttempt, NextAttempt, GoTo
  <2>2. outcome' \in Failures BY <1>1, <2>1 DEF OutcomeOK
  <2>3. OutcomeOK' BY <2>1, <2>2 DEF OutcomeOK, Answered, Successes, Failures
  <2> QED BY <1>1, <1>2, <2>1, <2>2, <2>3, AttemptStep DEF TypeOK, Statuses
<1> QED BY <1>3, <1>4

-----------------------------------------------------------------------------
(* The theorems.                                                           *)

LEMMA Initially == ASSUME Init PROVE LoopInv
<1>1. /\ audit \in BOOLEAN /\ git \in BOOLEAN /\ taskStatus = "todo" /\ checkpoint = 0 /\ branch = Clean
      /\ phase = "outside" /\ attempt = 0 /\ outcome = "none" /\ loop = NewLoop(0)
      /\ reported = NothingReported /\ dispatches = 0
  BY DevTestLoopAssumption DEF Init
<1>2. LoopOK("outside", NewLoop(0)) BY FreshLoopOK
<1>3. LoopOK(phase, loop) BY <1>1, <1>2
<1>4. TypeOK
  <2>1. loop \in Loops BY <1>3 DEF LoopOK
  <2>2. 0 \in 0..(MaxRetries + 1) /\ 0 \in 0..MaxDispatches BY LimitTypes
  <2>3. branch \in [commits : 0..(MaxRetries + 1), differs : BOOLEAN]
    BY <1>1, <2>2 DEF Clean
  <2>4. phase \in Phases BY <1>1 DEF Phases
  <2> QED BY <1>1, <2>1, <2>2, <2>3, <2>4 DEF TypeOK, Loops, Statuses
<1>5. OwnCommits /\ OutcomeOK BY <1>1 DEF OwnCommits, Inside, OutcomeOK, Answered
<1> QED BY <1>3, <1>4, <1>5 DEF LoopInv

LEMMA Invariance ==
    ASSUME LoopInv, [Next]_vars PROVE LoopInv'
<1>1. CASE UNCHANGED vars
  <2>1. TypeOK' BY <1>1 DEF vars, LoopInv, TypeOK
  <2>2. LoopOK(phase, loop)' BY <1>1 DEF vars, LoopInv, LoopOK, Loops
  <2>3. OwnCommits' /\ OutcomeOK' BY <1>1 DEF vars, LoopInv, OwnCommits, Inside, OutcomeOK
  <2> QED BY <2>1, <2>2, <2>3 DEF LoopInv
<1>2. CASE Dispatch \/ Crash BY <1>2, OutsideLoopStep
<1>3. CASE Orchestrator
  <2>1. ASSUME NEW ok \in BOOLEAN,
               \/ BeginAttempt(ok) \/ StartLoop(~ok) \/ CheckBuild(ok)
               \/ EndAttempt(ok) \/ ResetAttempt(ok)
        PROVE  LoopInv'
    <3>1. (~ok) \in BOOLEAN OBVIOUS
    <3> QED BY <2>1, <3>1, OutsideLoopStep, StartLoopStep, BuildStep, ResetStep
  <2> QED BY <1>3, <2>1, JudgeStep, RepairStep, BeginCycleStep, CleanupFailsStep
    DEF Orchestrator
<1>4. CASE Developer BY <1>4, DeveloperStep
<1>5. CASE Tester BY <1>5, TesterStep
<1>6. CASE Agents BY <1>6, AgentStep
<1> QED BY <1>1, <1>2, <1>3, <1>4, <1>5, <1>6 DEF Next

LEMMA Always == Spec => []LoopInv
BY Initially, Invariance, PTL DEF Spec

\* No counter of the loop passes its limit, and no more attempts are made than
\* the retries allow (run_dev_test_loop, run_dev_test_loop_with_autoresearch).
THEOREM LimitsHold == Spec => []TypeOK
<1>1. LoopInv => TypeOK BY DEF LoopInv
<1> QED BY <1>1, Always, PTL

\* Every way to succeed has cleared the task's checkpoints (clear_checkpoints in
\* run_dev_test_loop).
THEOREM SuccessClearsCheckpoints == Spec => []SuccessLeavesNoCheckpoint
<1>1. LoopInv => SuccessLeavesNoCheckpoint
  BY DEF LoopInv, OutcomeOK, Answered, SuccessLeavesNoCheckpoint
<1> QED BY <1>1, Always, PTL

\* tests_passed is only ever said on a tester's consistent report, or of an audit
\* that changed nothing (_dispatch_tester_outcome, _git_diff_is_empty).
THEOREM TestsPassedWereRun == Spec => []PassedMeansTested
<1>1. LoopInv => PassedMeansTested
  BY DEF LoopInv, OutcomeOK, Answered, PassedMeansTested, Successes
<1> QED BY <1>1, Always, PTL

-----------------------------------------------------------------------------
(* A dispatch is a run of TaskRun.                                         *)

\* The steps inside an attempt: only an agent's first commit shows in TaskRun.
LEMMA InsideStep ==
    ASSUME LoopInv, phase \in LoopPhases \cup {"attempting", "starting", "returned"},
           phase' \notin {"outside", "over"}, attempt' = attempt,
           branch'.commits = branch.commits
             \/ (branch.commits = 0 /\ branch'.commits = attempt)
    PROVE  [Contract!Next]_(Contract!vars)
BY DEF Contract!Next, Contract!Commit, Contract!vars, LoopPhases

LEMMA EndStep ==
    ASSUME LoopInv, Inside, phase' = "over", attempt' = attempt,
           \/ branch' = branch /\ outcome' \in Successes \cup Failures
           \/ branch' = Clean /\ outcome' \in Failures
    PROVE  [Contract!Next]_(Contract!vars)
<1>1. branch.commits \in {0, attempt} BY DEF LoopInv, OwnCommits
<1>2. Clean.commits = 0 BY DEF Clean
<1> QED BY <1>1, <1>2 DEF Inside, Contract!Next, Contract!End

LEMMA StepSimulation ==
    ASSUME LoopInv, [Next]_vars PROVE [Contract!Next]_(Contract!vars)
<1>1. CASE UNCHANGED vars BY <1>1 DEF vars, Contract!vars
<1>2. CASE Dispatch
  BY <1>2 DEF Dispatch, GoTo, Clean, Contract!Next, Contract!Begin
<1>3. CASE Crash
  BY <1>3 DEF Crash, GoTo, Clean, Contract!Next, Contract!Crash
<1>4. ASSUME NEW ok \in BOOLEAN, BeginAttempt(ok) PROVE [Contract!Next]_(Contract!vars)
  <2>1. phase = "attempting" /\ attempt' = attempt /\ branch' = branch
    BY <1>4 DEF BeginAttempt
  <2>2. CASE ok BY <1>4, <2>1, <2>2, InsideStep DEF BeginAttempt, GoTo
  <2>3. CASE ~ok BY <1>4, <2>1, <2>3, EndStep DEF BeginAttempt, GoTo, Misplaced, Failures, Inside
  <2> QED BY <2>2, <2>3
<1>5. ASSUME NEW open \in BOOLEAN, StartLoop(open) PROVE [Contract!Next]_(Contract!vars)
  <2>1. phase = "starting" /\ attempt' = attempt /\ branch' = branch
    BY <1>5 DEF StartLoop
  <2>2. CASE ~open BY <1>5, <2>1, <2>2, InsideStep DEF StartLoop, Continue
  <2>3. CASE open BY <1>5, <2>1, <2>3, EndStep DEF StartLoop, GoTo, Failures, Inside
  <2> QED BY <2>2, <2>3
<1>6. ASSUME NEW ok \in BOOLEAN, EndAttempt(ok) PROVE [Contract!Next]_(Contract!vars)
  <2>1. phase = "returned" /\ attempt' = attempt /\ branch' = branch
    BY <1>6 DEF EndAttempt
  <2>2. CASE phase' = "resetting" BY <2>1, <2>2, InsideStep
  <2>3. CASE phase' = "over"
    <3>1. outcome' = outcome \/ outcome' = Misplaced
      BY <1>6 DEF EndAttempt
    <3>2. outcome' \in Successes \cup Failures
      BY <2>1, <3>1 DEF LoopInv, OutcomeOK, Answered, Misplaced, Failures
    <3> QED BY <2>1, <2>3, <3>2, EndStep DEF Inside
  <2> QED BY <1>6, <2>2, <2>3 DEF EndAttempt, GoTo
<1>7. ASSUME NEW ok \in BOOLEAN, ResetAttempt(ok) PROVE [Contract!Next]_(Contract!vars)
  <2>1. phase = "resetting" /\ attempt \in Nat /\ attempt <= MaxRetries
    BY <1>7 DEF ResetAttempt, NextAttempt, LoopInv, TypeOK, OutcomeOK
  <2>2. CASE ok
    <3>1. /\ phase' = "attempting" /\ attempt' = attempt + 1 /\ branch'.commits = 0
      BY <1>7, <2>2 DEF ResetAttempt, NextAttempt, GoTo, Clean
    <3>2. attempt < MaxRetries + 1 BY <2>1, LimitTypes
    <3> QED BY <2>1, <3>1, <3>2 DEF Contract!Next, Contract!Retry
  <2>3. CASE ~ok
    <3>1. /\ phase' = "over" /\ attempt' = attempt /\ branch' = Clean /\ outcome' = outcome
      BY <1>7, <2>3 DEF ResetAttempt, NextAttempt, GoTo
    <3>2. outcome \in Failures BY <2>1 DEF LoopInv, OutcomeOK
    <3> QED BY <2>1, <3>1, <3>2, EndStep DEF Inside
  <2> QED BY <2>2, <2>3
<1>8. ASSUME (\E builds \in BOOLEAN : CheckBuild(builds))
             \/ (\E result \in Failures \cup {"repaired"} :
                   EndRepair(result) /\ phase' # "over")
             \/ (\E gitWorks, statusShowsMd \in BOOLEAN : JudgeDeveloper(gitWorks, statusShowsMd))
             \/ BeginCycle \/ Developer \/ Tester
      PROVE  [Contract!Next]_(Contract!vars)
  <2>1. /\ phase \in LoopPhases /\ attempt' = attempt
        /\ phase' \in LoopPhases \cup {"returned"}
    BY <1>8 DEF CheckBuild, EndRepair, JudgeDeveloper, BeginCycle, Developer, DeveloperFails,
       DeveloperParalysed, DeveloperNeedsNoChange, DeveloperRunsOut, DeveloperFinishes,
       Tester, TesterFails, TesterReports, Continue, Return, GoTo, LoopPhases
  <2>2. branch' \in {branch, [branch EXCEPT !.differs = TRUE], [branch EXCEPT !.differs = FALSE]}
    BY <1>8 DEF CheckBuild, EndRepair, JudgeDeveloper, BeginCycle, Developer, DeveloperFails,
       DeveloperParalysed, DeveloperNeedsNoChange, DeveloperRunsOut, DeveloperFinishes,
       Tester, TesterFails, TesterReports
  <2>3. branch'.commits = branch.commits
    <3>1. branch \in [commits : 0..(MaxRetries + 1), differs : BOOLEAN]
      BY DEF LoopInv, TypeOK
    <3> QED BY <2>2, <3>1
  <2> QED BY <2>1, <2>3, InsideStep DEF LoopPhases
<1>9. CASE Agents
  <2>1. phase \in LoopPhases /\ phase' = phase /\ attempt' = attempt
    BY <1>9 DEF Agents, AgentRuns, AgentCommits, AgentEdits, AgentMarksBlocked, LoopPhases
  <2>2. branch'.commits = branch.commits \/ (branch.commits = 0 /\ branch'.commits = attempt)
    <3>1. branch \in [commits : 0..(MaxRetries + 1), differs : BOOLEAN]
      BY DEF LoopInv, TypeOK
    <3> QED BY <1>9, <3>1 DEF Agents, AgentCommits, AgentEdits, AgentMarksBlocked
  <2> QED BY <2>1, <2>2, InsideStep DEF LoopPhases
<1>10. ASSUME NEW result \in Failures \cup {"repaired"}, EndRepair(result), phase' = "over"
       PROVE  [Contract!Next]_(Contract!vars)
  BY <1>10, EndStep DEF EndRepair, GoTo, Continue, Return, Failures, Inside
<1>11. CASE CleanupFails
  BY <1>11, EndStep DEF CleanupFails, GoTo, Failures, Inside
<1>12. CASE Orchestrator
  BY <1>4, <1>5, <1>6, <1>7, <1>8, <1>10, <1>11, <1>12 DEF Orchestrator
<1> QED BY <1>1, <1>2, <1>3, <1>8, <1>9, <1>12 DEF Next

\* A dispatch is what FanOut and Initiative take it to be: at most MaxRetries + 1
\* attempts, and a success with nothing of an earlier attempt on the branch
\* (run_dev_test_loop_with_autoresearch, cleanup_failed_attempt).
THEOREM DispatchIsATaskRun == Spec => Contract!Safety
<1>1. Init => Contract!Init
  BY DEF Init, Clean, Contract!Init
<1>2. LoopInv /\ [Next]_vars => [Contract!Next]_(Contract!vars)
  BY StepSimulation
<1> QED BY <1>1, <1>2, Always, PTL DEF Spec, Contract!Safety
=============================================================================
