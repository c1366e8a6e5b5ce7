---------------------------- MODULE AgentRunProofs ----------------------------
(***************************************************************************)
(* Proofs about AgentRun: what a finished run leaves behind, that an abort *)
(* reaches the agent, and that no agent is started in vain, for every      *)
(* retry budget and both ways of running an agent.                         *)
(*                                                                         *)
(* The process tree has an invariant of its own, whatever the coroutine    *)
(* does: a CLI runs only under a launcher that supervises it or was        *)
(* killed, and what it put in the background only until the launcher has   *)
(* swept.  So a launcher that is down and was not killed leaves nothing;   *)
(* what remains is where in the coroutine the launcher can be up, who      *)
(* holds the handle, the listener and the directory there, and what the    *)
(* last answer was.                                                        *)
(***************************************************************************)
EXTENDS AgentRun, TLAPS

\* Before the spawn and after the tree was stopped no launcher is up and the run
\* holds nothing it would have to give back.
Idle == {"checking", "creating", "classifying", "sleeping"} \cup Ended
HoldsNothing ==
  /\ run \in Idle => ~LauncherUp /\ ~configDir
  /\ run \in Idle \cup {"spawning"} => ~tracked
  /\ listening <=> run = "watching"

\* Who may still run under which launcher.
TreeUnderLauncher ==
  /\ cli = "running" => launcher \in {"supervising", "killed"}
  /\ strays # "none" => launcher \in {"supervising", "sweeping", "killed"}

\* The check of the abort is followed by the spawn without an await.
SpawnsUnaborted ==
  run = "creating" \/ (run = "spawning" /\ launcher = "none") => ~aborted

\* On the way to another start the last answer was none of the final ones.
ResultOfRun ==
  /\ run \in {"checking", "creating", "spawning", "watching", "sleeping"} =>
       result \in {"none"} \cup (Results \ Final)
  /\ run \in {"terminating", "classifying"} => result \in Results

\* A run that goes on has both budgets left.
BudgetLeft == run \notin Ended => attempts < MaxRetries /\ capacityFailures < Ceiling

AgentInv ==
  /\ TypeOK /\ HoldsNothing /\ TreeUnderLauncher /\ SpawnsUnaborted /\ ResultOfRun
  /\ BudgetLeft /\ AbortReachesTheAgent

-----------------------------------------------------------------------------
LEMMA Initially == ASSUME Init PROVE AgentInv
<1>1. TypeOK
  <2>1. attempts \in 0..MaxRetries /\ capacityFailures \in 0..Ceiling
    BY AgentRunAssumption DEF Init
  <2>2. run \in RunPhases /\ result \in Outcomes
    BY DEF Init, RunPhases, Outcomes
  <2>3. mode \in Modes /\ persistent \in Persistent BY DEF Init
  <2> QED BY <2>1, <2>2, <2>3 DEF Init, TypeOK
<1>2. BudgetLeft BY AgentRunAssumption DEF Init, BudgetLeft
<1>3. HoldsNothing /\ TreeUnderLauncher /\ SpawnsUnaborted /\ ResultOfRun
      /\ AbortReachesTheAgent
  BY DEF Init, HoldsNothing, Idle, Ended, LauncherUp, TreeUnderLauncher, SpawnsUnaborted,
     ResultOfRun, AbortReachesTheAgent
<1> QED BY <1>1, <1>2, <1>3 DEF AgentInv

-----------------------------------------------------------------------------
(* The process tree on its own.                                            *)

\* A step of the launcher or of the CLI: no launcher comes up again, and the
\* signal it has pending stays pending.
LEMMA TreeStep ==
    ASSUME AgentInv, Launcher \/ CliForks \/ CliExits \/ LauncherKilled
    PROVE  AgentInv'
<1>1. /\ mode' = mode /\ persistent' = persistent /\ orchestrator' = orchestrator
      /\ stop' = stop /\ aborted' = aborted /\ run' = run /\ result' = result
      /\ attempts' = attempts /\ capacityFailures' = capacityFailures
      /\ listening' = listening /\ tracked' = tracked /\ configDir' = configDir
  BY DEF Launcher, LauncherArms, LauncherChecks, LauncherSpawns, LauncherForwards,
     LauncherReaps, LauncherSweeps, CliForks, CliExits, LauncherKilled, LauncherOnly, call,
     coroutine
<1>2. /\ launcher' = "none" <=> launcher = "none"
      /\ LauncherUp' => LauncherUp
      /\ term' = term
  BY DEF Launcher, LauncherArms, LauncherChecks, LauncherSpawns, LauncherForwards,
     LauncherReaps, LauncherSweeps, CliForks, CliExits, LauncherKilled, LauncherUp
<1>3. TreeUnderLauncher'
  BY DEF AgentInv, TreeUnderLauncher, Launcher, LauncherArms, LauncherChecks, LauncherSpawns,
     LauncherForwards, LauncherReaps, LauncherSweeps, CliForks, CliExits, LauncherKilled,
     LauncherUp, StopCli
<1>4. TypeOK'
  <2>1. TypeOK BY DEF AgentInv
  <2>2. /\ launcher' \in {"none", "starting", "armed", "checked", "supervising", "sweeping",
                          "exited", "killed"}
        /\ cli' \in {"none", "running", "exited"} /\ strays' \in {"none", "group", "session"}
    BY <2>1 DEF TypeOK, Launcher, LauncherArms, LauncherChecks, LauncherSpawns,
       LauncherForwards, LauncherReaps, LauncherSweeps, CliForks, CliExits, LauncherKilled,
       StopCli
  <2> QED BY <1>1, <1>2, <2>1, <2>2 DEF TypeOK
<1>5. HoldsNothing' /\ SpawnsUnaborted' /\ ResultOfRun' /\ BudgetLeft' /\ AbortReachesTheAgent'
  BY <1>1, <1>2 DEF AgentInv, HoldsNothing, SpawnsUnaborted, ResultOfRun, BudgetLeft,
     AbortReachesTheAgent
<1> QED BY <1>3, <1>4, <1>5 DEF AgentInv

TreeType ==
  /\ launcher \in {"none", "starting", "armed", "checked", "supervising", "sweeping",
                   "exited", "killed"}
  /\ term \in BOOLEAN /\ cli \in {"none", "running", "exited"}
  /\ strays \in {"none", "group", "session"}

\* A SIGTERM to the launcher: it is pending then, or no launcher is up.
LEMMA Signalled ==
    ASSUME TypeOK, TreeUnderLauncher, SignalLauncher
    PROVE  /\ TreeType' /\ (launcher' = "none" <=> launcher = "none")
           /\ term => term'
           /\ LauncherUp' => LauncherUp /\ term'
           /\ TreeUnderLauncher'
BY DEF SignalLauncher, LauncherUp, TypeOK, TreeType, TreeUnderLauncher

\* Once the tree was stopped no launcher is up.
LEMMA TreeKilled ==
    ASSUME TypeOK, TreeUnderLauncher, KillTree
    PROVE  TreeType' /\ ~LauncherUp' /\ TreeUnderLauncher'
BY DEF KillTree, StopCli, LauncherUp, TypeOK, TreeType, TreeUnderLauncher

-----------------------------------------------------------------------------
(* The coroutine.                                                          *)

LEMMA StartStep ==
    ASSUME AgentInv, CheckAbort \/ \E works \in BOOLEAN : CreateConfigDir(works)
    PROVE  AgentInv'
<1>1. CASE CheckAbort
  <2>1. /\ run = "checking"
        /\ IF aborted THEN run' = "returned" /\ result' = "aborted"
           ELSE run' = "creating" /\ result' = result
        /\ mode' = mode /\ persistent' = persistent /\ orchestrator' = orchestrator
        /\ stop' = stop /\ aborted' = aborted /\ attempts' = attempts
        /\ capacityFailures' = capacityFailures /\ tracked' = tracked
        /\ listening' = listening /\ configDir' = configDir /\ launcher' = launcher
        /\ term' = term /\ cli' = cli /\ strays' = strays
    BY <1>1 DEF CheckAbort, Return, call, processes
  <2>2. TypeOK' BY <2>1 DEF AgentInv, TypeOK, RunPhases, Outcomes
  <2>3. HoldsNothing' /\ TreeUnderLauncher' /\ SpawnsUnaborted' /\ ResultOfRun'
        /\ BudgetLeft' /\ AbortReachesTheAgent'
    BY <2>1 DEF AgentInv, HoldsNothing, Idle, Ended, LauncherUp, TreeUnderLauncher,
       SpawnsUnaborted, ResultOfRun, BudgetLeft, AbortReachesTheAgent
  <2> QED BY <2>2, <2>3 DEF AgentInv
<1>2. ASSUME NEW works \in BOOLEAN, CreateConfigDir(works) PROVE AgentInv'
  <2>1. /\ run = "creating"
        /\ IF works THEN configDir' = TRUE /\ run' = "spawning" /\ result' = result
           ELSE configDir' = configDir /\ run' = "returned" /\ result' = "refused"
        /\ stop' = IF stop = "deferred" THEN "running" ELSE stop
        /\ mode' = mode /\ persistent' = persistent /\ orchestrator' = orchestrator
        /\ aborted' = aborted /\ attempts' = attempts
        /\ capacityFailures' = capacityFailures /\ tracked' = tracked
        /\ listening' = listening /\ launcher' = "none"
        /\ term' = FALSE /\ cli' = "none" /\ strays' = "none"
    BY <1>2 DEF CreateConfigDir, Return, call
  <2>2. TypeOK' BY <2>1 DEF AgentInv, TypeOK, RunPhases, Outcomes
  <2>3. HoldsNothing' /\ TreeUnderLauncher' /\ SpawnsUnaborted' /\ ResultOfRun'
        /\ BudgetLeft' /\ AbortReachesTheAgent'
    BY <2>1 DEF AgentInv, HoldsNothing, Idle, Ended, LauncherUp, TreeUnderLauncher,
       SpawnsUnaborted, ResultOfRun, BudgetLeft, AbortReachesTheAgent
  <2> QED BY <2>2, <2>3 DEF AgentInv
<1> QED BY <1>1, <1>2

LEMMA SpawnStep ==
    ASSUME AgentInv, NEW works \in BOOLEAN, Fork(works) \/ Watch(works)
    PROVE  AgentInv'
<1>1. /\ TypeOK /\ TreeUnderLauncher /\ run = "spawning"
      /\ mode' = mode /\ persistent' = persistent /\ orchestrator' = orchestrator
      /\ stop' = stop /\ aborted' = aborted /\ attempts' = attempts
      /\ capacityFailures' = capacityFailures
  BY DEF AgentInv, Fork, Watch, call
<1>2. CASE Fork(works)
  <2>1. /\ launcher = "none" /\ tracked' = tracked /\ listening' = listening
        /\ term' = term /\ cli' = cli /\ strays' = strays
        /\ IF works
           THEN launcher' = "starting" /\ run' = run /\ result' = result /\ configDir' = configDir
           ELSE /\ run' = "returned" /\ result' = "refused" /\ configDir' = FALSE
                /\ launcher' = launcher
    BY <1>2 DEF Fork, Return
  <2>2. TypeOK' BY <1>1, <2>1 DEF TypeOK, RunPhases, Outcomes
  <2>3. HoldsNothing' /\ TreeUnderLauncher' /\ SpawnsUnaborted' /\ ResultOfRun'
        /\ BudgetLeft' /\ AbortReachesTheAgent'
    BY <1>1, <2>1 DEF AgentInv, HoldsNothing, Idle, Ended, LauncherUp, TreeUnderLauncher,
       SpawnsUnaborted, ResultOfRun, BudgetLeft, AbortReachesTheAgent
  <2> QED BY <2>2, <2>3 DEF AgentInv
<1>3. CASE Watch(works) /\ ~works
  <2>1. /\ launcher # "none" /\ ~LauncherUp
        /\ run' = "returned" /\ result' = "refused" /\ configDir' = FALSE
        /\ tracked' = tracked /\ listening' = listening /\ launcher' = launcher
        /\ term' = term /\ cli' = cli /\ strays' = strays
    BY <1>3 DEF Watch, Return, processes
  <2>4. run' \in RunPhases /\ result' \in Outcomes /\ configDir' \in BOOLEAN
    BY <2>1 DEF RunPhases, Outcomes
  <2>2. TypeOK' BY <1>1, <2>1, <2>4 DEF TypeOK
  <2>3. HoldsNothing' /\ TreeUnderLauncher' /\ SpawnsUnaborted' /\ ResultOfRun'
        /\ BudgetLeft' /\ AbortReachesTheAgent'
    BY <1>1, <2>1 DEF AgentInv, HoldsNothing, Idle, Ended, LauncherUp, TreeUnderLauncher,
       SpawnsUnaborted, ResultOfRun, BudgetLeft, AbortReachesTheAgent
  <2> QED BY <2>2, <2>3 DEF AgentInv
<1>4. CASE Watch(works) /\ works
  <2>1. /\ run' = "watching" /\ tracked' = TRUE /\ listening' = TRUE
        /\ result' = result /\ configDir' = configDir
        /\ IF aborted THEN SignalLauncher ELSE UNCHANGED processes
    BY <1>4 DEF Watch
  <2>2. TreeType' /\ TreeUnderLauncher' /\ (aborted => term' \/ ~LauncherUp')
    <3>1. CASE aborted BY <1>1, <2>1, <3>1, Signalled
    <3>2. CASE ~aborted BY <1>1, <2>1, <3>2 DEF processes, TreeUnderLauncher, TypeOK, TreeType
    <3> QED BY <3>1, <3>2
  <2>3. TypeOK' BY <1>1, <2>1, <2>2 DEF TypeOK, TreeType, RunPhases
  <2>4. HoldsNothing' /\ SpawnsUnaborted' /\ ResultOfRun' /\ BudgetLeft'
        /\ AbortReachesTheAgent'
    BY <1>1, <2>1, <2>2 DEF AgentInv, HoldsNothing, Idle, Ended, SpawnsUnaborted,
       ResultOfRun, BudgetLeft, AbortReachesTheAgent
  <2> QED BY <2>2, <2>3, <2>4 DEF AgentInv
<1> QED BY <1>2, <1>3, <1>4

LEMMA StopStep ==
    ASSUME AgentInv, (\E how \in Results : StopWatching(how)) \/ Terminated
    PROVE  AgentInv'
<1>1. /\ TypeOK /\ TreeUnderLauncher
      /\ mode' = mode /\ persistent' = persistent /\ orchestrator' = orchestrator
      /\ stop' = stop /\ aborted' = aborted /\ attempts' = attempts
      /\ capacityFailures' = capacityFailures
  BY DEF AgentInv, StopWatching, Terminated, call
<1>2. ASSUME NEW how \in Results, StopWatching(how) PROVE AgentInv'
  <2>1. /\ run = "watching" /\ run' = "terminating" /\ result' = how /\ listening' = FALSE
        /\ tracked' = tracked /\ configDir' = configDir
        /\ IF LauncherUp THEN SignalLauncher ELSE UNCHANGED processes
    BY <1>2 DEF StopWatching
  <2>2. TreeType' /\ TreeUnderLauncher'
    BY <1>1, <2>1, Signalled DEF processes, TreeUnderLauncher, TypeOK, TreeType
  <2>3. TypeOK' BY <1>1, <2>1, <2>2 DEF TypeOK, TreeType, RunPhases, Outcomes
  <2>4. HoldsNothing' /\ SpawnsUnaborted' /\ ResultOfRun' /\ BudgetLeft'
        /\ AbortReachesTheAgent'
    BY <1>1, <2>1, <2>2 DEF AgentInv, HoldsNothing, Idle, Ended, SpawnsUnaborted,
       ResultOfRun, BudgetLeft, AbortReachesTheAgent
  <2> QED BY <2>2, <2>3, <2>4 DEF AgentInv
<1>3. CASE Terminated
  <2>1. /\ \/ run = "terminating" /\ run' = "classifying"
           \/ run = "stopping" /\ run' = "cancelled"
        /\ tracked' = FALSE /\ configDir' = FALSE /\ result' = result
        /\ listening' = listening /\ KillTree
    BY <1>3 DEF Terminated, Release
  <2>2. TreeType' /\ ~LauncherUp' /\ TreeUnderLauncher'
    BY <1>1, <2>1, TreeKilled
  <2>3. TypeOK' BY <1>1, <2>1, <2>2 DEF TypeOK, TreeType, RunPhases
  <2>4. HoldsNothing' /\ SpawnsUnaborted' /\ ResultOfRun' /\ BudgetLeft'
        /\ AbortReachesTheAgent'
    BY <1>1, <2>1, <2>2 DEF AgentInv, HoldsNothing, Idle, Ended, SpawnsUnaborted,
       ResultOfRun, BudgetLeft, AbortReachesTheAgent
  <2> QED BY <2>2, <2>3, <2>4 DEF AgentInv
<1> QED BY <1>2, <1>3

\* A failure is counted in one of the two budgets, and the run that has used one
\* up returns.
LEMMA RetryStep ==
    ASSUME AgentInv, Classify \/ Awake PROVE AgentInv'
<1>1. /\ TypeOK /\ run \in {"classifying", "sleeping"}
      /\ mode' = mode /\ persistent' = persistent /\ orchestrator' = orchestrator
      /\ stop' = stop /\ aborted' = aborted /\ tracked' = tracked /\ listening' = listening
      /\ configDir' = configDir /\ launcher' = launcher /\ term' = term /\ cli' = cli
      /\ strays' = strays
  BY DEF AgentInv, Classify, Awake, call, processes
<1>2. /\ attempts \in 0..MaxRetries /\ attempts < MaxRetries
      /\ capacityFailures \in 0..Ceiling /\ capacityFailures < Ceiling
  BY <1>1 DEF AgentInv, TypeOK, BudgetLeft, Ended
<1>3. /\ run' = "returned"
         \/ /\ run' = "checking" /\ run = "sleeping" /\ result' = result
            /\ attempts' = attempts /\ capacityFailures' = capacityFailures
         \/ /\ run' = "sleeping" /\ run = "classifying" /\ result' = result
            /\ result \notin Final /\ attempts' < MaxRetries /\ capacityFailures' < Ceiling
      /\ attempts' \in 0..MaxRetries /\ capacityFailures' \in 0..Ceiling
      /\ result' \in {result, "OVERLOADED"}
  <2>1. CASE Awake BY <1>2, <2>1 DEF Awake
  <2>2. CASE /\ run = "classifying" /\ result \in Final /\ Return(result)
             /\ UNCHANGED <<attempts, capacityFailures>>
    BY <1>2, <2>2 DEF Return
  <2>3. CASE /\ run = "classifying" /\ result \notin Final
             /\ capacityFailures' = capacityFailures + 1
             /\ IF capacityFailures' >= Ceiling
                THEN Return(IF result = "overloaded" THEN "OVERLOADED" ELSE result)
                ELSE run' = "sleeping" /\ UNCHANGED result
             /\ UNCHANGED attempts
    <3>1. capacityFailures' \in 0..Ceiling BY <1>2, <2>3, AgentRunAssumption
    <3> QED BY <1>2, <2>3, <3>1, AgentRunAssumption DEF Return
  <2>4. CASE /\ run = "classifying" /\ result \notin Final
             /\ attempts' = attempts + 1
             /\ IF attempts' >= MaxRetries
                THEN Return(IF result = "overloaded" THEN "OVERLOADED" ELSE result)
                ELSE run' = "sleeping" /\ UNCHANGED result
             /\ UNCHANGED capacityFailures
    <3>1. attempts' \in 0..MaxRetries BY <1>2, <2>4, AgentRunAssumption
    <3> QED BY <1>2, <2>4, <3>1, AgentRunAssumption DEF Return
  <2> QED BY <2>1, <2>2, <2>3, <2>4 DEF Classify
<1>4. run' \in RunPhases /\ result' \in Outcomes
  BY <1>1, <1>3 DEF TypeOK, RunPhases, Outcomes
<1>5. TypeOK' BY <1>1, <1>3, <1>4 DEF TypeOK
<1>6. BudgetLeft' BY <1>2, <1>3 DEF BudgetLeft, Ended
<1>7. ResultOfRun' BY <1>1, <1>3 DEF AgentInv, ResultOfRun
<1>8. HoldsNothing' /\ TreeUnderLauncher' /\ SpawnsUnaborted' /\ AbortReachesTheAgent'
  BY <1>1, <1>3 DEF AgentInv, HoldsNothing, Idle, Ended, LauncherUp, TreeUnderLauncher,
     SpawnsUnaborted, AbortReachesTheAgent
<1> QED BY <1>5, <1>6, <1>7, <1>8 DEF AgentInv

-----------------------------------------------------------------------------
(* What comes from outside.                                                *)

LEMMA AbortStep ==
    ASSUME AgentInv, Abort PROVE AgentInv'
<1>1. /\ TypeOK /\ TreeUnderLauncher /\ aborted' = TRUE
      /\ mode' = mode /\ persistent' = persistent /\ orchestrator' = orchestrator
      /\ stop' = stop /\ run' = run /\ result' = result /\ attempts' = attempts
      /\ capacityFailures' = capacityFailures /\ listening' = listening
      /\ tracked' = tracked /\ configDir' = configDir
      /\ IF listening THEN SignalLauncher ELSE UNCHANGED processes
      /\ run = "spawning" => launcher # "none"
      /\ run \in {"spawning", "watching", "terminating", "sleeping"}
  BY DEF AgentInv, Abort, call, coroutine
<1>2. /\ TreeType' /\ TreeUnderLauncher' /\ (launcher' = "none" <=> launcher = "none")
      /\ LauncherUp' => LauncherUp
      /\ run = "watching" => term' \/ ~LauncherUp'
  <2>1. CASE listening BY <1>1, <2>1, Signalled
  <2>2. CASE ~listening
    <3>1. run # "watching" BY <2>2 DEF AgentInv, HoldsNothing
    <3> QED
      BY <1>1, <2>2, <3>1 DEF processes, TreeUnderLauncher, TypeOK, TreeType, LauncherUp
  <2> QED BY <2>1, <2>2
<1>3. TypeOK' BY <1>1, <1>2 DEF TypeOK, TreeType
<1>4. HoldsNothing' /\ SpawnsUnaborted' /\ ResultOfRun' /\ BudgetLeft' /\ AbortReachesTheAgent'
  BY <1>1, <1>2 DEF AgentInv, HoldsNothing, Idle, Ended, SpawnsUnaborted, ResultOfRun,
     BudgetLeft, AbortReachesTheAgent
<1> QED BY <1>2, <1>3, <1>4 DEF AgentInv

LEMMA CancelStep ==
    ASSUME AgentInv, Cancel PROVE AgentInv'
<1>1. /\ TypeOK /\ TreeUnderLauncher /\ listening' = FALSE
      /\ mode' = mode /\ persistent' = persistent /\ orchestrator' = orchestrator
      /\ stop' = stop /\ aborted' = aborted /\ result' = result /\ attempts' = attempts
      /\ capacityFailures' = capacityFailures /\ tracked' = tracked
  BY DEF AgentInv, Cancel, call
<1>2. /\ TreeType' /\ TreeUnderLauncher'
      /\ \/ /\ run = "spawning" /\ run' = "cancelled" /\ configDir' = FALSE /\ ~LauncherUp'
         \/ /\ run \in {"watching", "terminating"} /\ run' = "stopping"
            /\ configDir' = configDir
         \/ /\ run = "sleeping" /\ run' = "cancelled" /\ configDir' = configDir
            /\ (LauncherUp' <=> LauncherUp)
  <2>1. CASE /\ run = "spawning" /\ launcher # "none" /\ run' = "cancelled"
             /\ configDir' = FALSE
             /\ launcher' = IF LauncherUp THEN "killed" ELSE launcher
             /\ UNCHANGED <<term, cli, strays>>
    BY <1>1, <2>1 DEF TypeOK, TreeType, TreeUnderLauncher, LauncherUp
  <2>2. CASE /\ run \in {"watching", "terminating"} /\ run' = "stopping"
             /\ IF LauncherUp THEN SignalLauncher ELSE UNCHANGED processes
             /\ UNCHANGED configDir
    <3>1. TreeType' /\ TreeUnderLauncher'
      BY <1>1, <2>2, Signalled DEF processes, TreeUnderLauncher, TypeOK, TreeType
    <3> QED BY <2>2, <3>1
  <2>3. CASE run = "sleeping" /\ run' = "cancelled" /\ UNCHANGED <<configDir, processes>>
    BY <1>1, <2>3 DEF processes, TypeOK, TreeType, TreeUnderLauncher, LauncherUp
  <2> QED BY <2>1, <2>2, <2>3 DEF Cancel
<1>3. run' \in RunPhases /\ configDir' \in BOOLEAN BY <1>1, <1>2 DEF RunPhases, TypeOK
<1>4. TypeOK' BY <1>1, <1>2, <1>3 DEF TypeOK, TreeType
<1>5. HoldsNothing' BY <1>1, <1>2 DEF AgentInv, HoldsNothing, Idle, Ended
<1>6. SpawnsUnaborted' /\ ResultOfRun' /\ BudgetLeft' /\ AbortReachesTheAgent'
  BY <1>1, <1>2 DEF AgentInv, SpawnsUnaborted, ResultOfRun, BudgetLeft, Ended,
     AbortReachesTheAgent
<1> QED BY <1>2, <1>4, <1>5, <1>6 DEF AgentInv

\* The stop signal and the end of the orchestrator leave the coroutine where it is.
LEMMA OrchestratorStep ==
    ASSUME AgentInv, StopSignal \/ HandlerEnds \/ OrchestratorKilled PROVE AgentInv'
<1>1. /\ TypeOK /\ TreeUnderLauncher
      /\ mode' = mode /\ persistent' = persistent /\ aborted' = aborted /\ run' = run
      /\ result' = result /\ attempts' = attempts /\ capacityFailures' = capacityFailures
      /\ listening' = listening /\ (tracked' = tracked \/ tracked' = FALSE)
      /\ (configDir' = configDir \/ configDir' = FALSE)
      /\ orchestrator' \in {"up", "gone"} /\ stop' \in {"idle", "deferred", "running"}
  BY DEF AgentInv, TypeOK, StopSignal, HandlerEnds, OrchestratorKilled, Die, call, coroutine
<1>2. /\ TreeType' /\ TreeUnderLauncher' /\ (launcher' = "none" <=> launcher = "none")
      /\ LauncherUp' => LauncherUp
      /\ term \/ ~LauncherUp => term' \/ ~LauncherUp'
  <2>1. CASE SignalLauncher BY <1>1, <2>1, Signalled
  <2>2. CASE UNCHANGED processes
    BY <1>1, <2>2 DEF processes, TypeOK, TreeType, TreeUnderLauncher, LauncherUp
  <2>3. CASE KillTree
    <3>1. TreeType' /\ ~LauncherUp' /\ TreeUnderLauncher' BY <1>1, <2>3, TreeKilled
    <3>2. launcher' = "none" <=> launcher = "none" BY <2>3 DEF KillTree, LauncherUp
    <3> QED BY <3>1, <3>2
  <2>4. CASE NotifyLauncher
    BY <1>1, <2>4 DEF NotifyLauncher, TypeOK, TreeType, TreeUnderLauncher, LauncherUp
  <2> QED BY <2>1, <2>2, <2>3, <2>4 DEF StopSignal, HandlerEnds, OrchestratorKilled
<1>3. tracked' \in BOOLEAN /\ configDir' \in BOOLEAN BY <1>1 DEF TypeOK
<1>4. TypeOK' BY <1>1, <1>2, <1>3 DEF TypeOK, TreeType
<1>7. (tracked' => tracked) /\ (configDir' => configDir) BY <1>1
<1>5. HoldsNothing' BY <1>1, <1>2, <1>7 DEF AgentInv, HoldsNothing
<1>6. SpawnsUnaborted' /\ ResultOfRun' /\ BudgetLeft' /\ AbortReachesTheAgent'
  BY <1>1, <1>2 DEF AgentInv, SpawnsUnaborted, ResultOfRun, BudgetLeft,
     AbortReachesTheAgent
<1> QED BY <1>2, <1>4, <1>5, <1>6 DEF AgentInv

-----------------------------------------------------------------------------
(* The theorems.                                                           *)

LEMMA Invariance ==
    ASSUME AgentInv, [Next]_vars PROVE AgentInv'
<1>1. CASE UNCHANGED vars
  BY <1>1 DEF vars, AgentInv, TypeOK, HoldsNothing, LauncherUp, TreeUnderLauncher,
     SpawnsUnaborted, ResultOfRun, BudgetLeft, AbortReachesTheAgent
<1>2. CASE Coroutine
  BY <1>2, StartStep, SpawnStep, StopStep, RetryStep DEF Coroutine
<1>3. CASE Launcher \/ CliForks \/ CliExits \/ LauncherKilled
  BY <1>3, TreeStep
<1>4. CASE Abort \/ Cancel \/ StopSignal \/ HandlerEnds \/ OrchestratorKilled
  BY <1>4, AbortStep, CancelStep, OrchestratorStep
<1> QED BY <1>1, <1>2, <1>3, <1>4 DEF Next, Outside

LEMMA Always == Spec => []AgentInv
BY Initially, Invariance, PTL DEF Spec

\* Neither retry budget is ever overdrawn, whichever failures take turns
\* (the two counters of run_agent_with_retries).
THEOREM BudgetsHold == Spec => []TypeOK
<1>1. AgentInv => TypeOK BY DEF AgentInv
<1> QED BY <1>1, Always, PTL

\* A run that returned or was cancelled has left no process, no handle, no
\* listener and no directory, unless a stranger killed its launcher (the finally
\* and except clauses of run_agent and the sweep of agent_launcher.py).
THEOREM NothingIsLeftBehind == Spec => []NothingOutlivesTheRun
<1>1. AgentInv => NothingOutlivesTheRun
  <2> SUFFICES ASSUME AgentInv, run \in Ended
               PROVE  /\ launcher # "killed" => NothingRuns
                      /\ ~tracked /\ ~listening /\ ~configDir
    BY DEF NothingOutlivesTheRun
  <2>1. ~LauncherUp /\ ~configDir /\ ~tracked /\ ~listening
    BY DEF AgentInv, HoldsNothing, Idle, Ended
  <2>2. strays \in {"none", "group", "session"} BY DEF AgentInv, TypeOK
  <2>3. launcher # "killed" => cli # "running" /\ strays = "none"
    BY <2>1, <2>2 DEF AgentInv, TreeUnderLauncher, LauncherUp
  <2> QED BY <2>1, <2>3 DEF NothingRuns
<1> QED BY <1>1, Always, PTL

\* An abort between the check before the spawn and the listener after it is not
\* lost (add_event_listener calls the handler of an aborted signal at once).
THEOREM AbortIsNotLost == Spec => []AbortReachesTheAgent
<1>1. AgentInv => AbortReachesTheAgent BY DEF AgentInv
<1> QED BY <1>1, Always, PTL

\* No agent is started in an aborted run or after a final answer (the loop of
\* run_agent_with_retries).
THEOREM NoStartInVain == Spec => StartsAreWanted
<1>1. AgentInv /\ [Next]_vars =>
        [launcher' = "starting" /\ launcher # "starting" =>
           ~aborted /\ result \notin Final]_vars
  <2> SUFFICES ASSUME AgentInv, Next, launcher' = "starting", launcher # "starting"
               PROVE  ~aborted /\ result \notin Final
    BY DEF vars
  <2>1. CASE \E works \in BOOLEAN : Fork(works)
    <3>1. run = "spawning" /\ launcher = "none" BY <2>1 DEF Fork
    <3> QED BY <3>1 DEF AgentInv, SpawnsUnaborted, ResultOfRun, Final
  <2>2. CASE \E works \in BOOLEAN : CreateConfigDir(works) \/ Watch(works)
    BY <2>2 DEF CreateConfigDir, Watch, SignalLauncher, LauncherUp, processes
  <2>3. CASE CheckAbort \/ Classify \/ Awake
    BY <2>3 DEF CheckAbort, Classify, Awake, processes
  <2>4. CASE (\E how \in Results : StopWatching(how)) \/ Terminated
    BY <2>4 DEF StopWatching, Terminated, KillTree, SignalLauncher, processes
  <2>5. CASE Launcher \/ CliForks \/ CliExits \/ LauncherKilled
    BY <2>5 DEF Launcher, LauncherArms, LauncherChecks, LauncherSpawns, LauncherForwards,
       LauncherReaps, LauncherSweeps, CliForks, CliExits, LauncherKilled
  <2>6. CASE Abort \/ Cancel \/ StopSignal \/ HandlerEnds \/ OrchestratorKilled
    BY <2>6 DEF Abort, Cancel, StopSignal, HandlerEnds, OrchestratorKilled, NotifyLauncher,
       KillTree, SignalLauncher, processes
  <2> QED BY <2>1, <2>2, <2>3, <2>4, <2>5, <2>6 DEF Next, Coroutine, Outside
<1> QED BY <1>1, Always, PTL DEF Spec, StartsAreWanted
=============================================================================
