------------------------------ MODULE AgentRun ------------------------------
(***************************************************************************)
(* One agent run of agent_runner.py: the coroutine that starts an agent,   *)
(* watches it, stops its process tree and may start it again; the launcher *)
(* of agent_launcher.py that supervises the CLI and sweeps what it left;   *)
(* the CLI with the processes it put in the background.  Around them: an   *)
(* abort, a cancellation, a stop signal and the death of the orchestrator. *)
(*                                                                         *)
(* Both ways to run an agent are modelled: run_agent, which waits for the  *)
(* exit, and the streaming one, which may stop reading earlier.  The time  *)
(* limits are actions that may happen at any moment.  The agent is         *)
(* contained by the launcher (Linux) and not isolated.                     *)
(***************************************************************************)
EXTENDS Integers

CONSTANTS
  Modes,       \* a subset of {"waiting", "streaming"}
  Persistent,  \* may the run be in persistent retry mode: a subset of BOOLEAN
  MaxRetries,  \* max_retries
  Ceiling      \* persistent_retry_max_attempts

ASSUME AgentRunAssumption ==
  /\ Modes \subseteq {"waiting", "streaming"} /\ Persistent \subseteq BOOLEAN
  /\ MaxRetries \in Nat \ {0} /\ Ceiling \in Nat \ {0}

VARIABLES
  mode, persistent,  \* how the run was called
  orchestrator,      \* "up" or "gone"
  stop,              \* the stop signal's handler: "idle", "deferred" or "running"
  aborted,           \* the abort controller of the run
  run,               \* where the coroutine is
  result,            \* how the last agent ended, as the classifiers see it
  attempts,          \* the failures that used up max_retries
  capacityFailures,  \* persistent_attempt
  tracked,           \* the agent is in _LIVE_CONTAINED_AGENTS
  listening,         \* abort_handler is registered
  configDir,         \* the run's CLAUDE_CONFIG_DIR exists and is registered
  launcher,          \* the launcher process
  term,              \* it has a SIGTERM pending
  cli,               \* "none", "running" or "exited"
  strays             \* what the CLI left running: "none", in its "group" or in a "session"

coroutine == <<run, result, attempts, capacityFailures, listening>>
processes == <<launcher, term, cli, strays>>
call == <<mode, persistent>>
vars == <<mode, persistent, orchestrator, stop, aborted, run, result, attempts,
          capacityFailures, tracked, listening, configDir, launcher, term, cli, strays>>

RunPhases == {"checking", "creating", "spawning", "watching", "terminating", "classifying",
              "sleeping", "stopping", "returned", "cancelled"}
Ended == {"returned", "cancelled"}

\* overloaded: a 529; limited: a 429; transient: a 5xx, a connection or "timeout"
\* in what the CLI wrote to stderr or in the reason of a kill.
Results == {"success", "max_turns", "paralysis", "timed_out", "overloaded", "limited",
            "transient", "fatal"}
Outcomes == {"none", "aborted", "refused", "OVERLOADED"} \cup Results

Init ==
  /\ mode \in Modes /\ persistent \in Persistent
  /\ orchestrator = "up" /\ stop = "idle" /\ aborted = FALSE
  /\ run = "checking" /\ result = "none" /\ attempts = 0 /\ capacityFailures = 0
  /\ tracked = FALSE /\ listening = FALSE /\ configDir = FALSE
  /\ launcher = "none" /\ term = FALSE /\ cli = "none" /\ strays = "none"

-----------------------------------------------------------------------------
(* Signals to the processes.  SIGTERM kills a launcher that has not blocked *)
(* it yet; later it stays pending.                                          *)

LauncherUp == launcher \in {"starting", "armed", "checked", "supervising", "sweeping"}

SignalLauncher ==
  /\ launcher' = IF launcher = "starting" THEN "exited" ELSE launcher
  /\ term' = (term \/ (LauncherUp /\ launcher # "starting"))
  /\ UNCHANGED <<cli, strays>>

StopCli == cli' = IF cli = "running" THEN "exited" ELSE cli

-----------------------------------------------------------------------------
(* The launcher: main, _supervise_cli and terminate_descendants.            *)

LauncherOnly == UNCHANGED <<call, orchestrator, stop, aborted, coroutine, tracked, configDir>>

\* Block the signals, then PR_SET_PDEATHSIG.
LauncherArms ==
  /\ launcher = "starting" /\ launcher' = "armed"
  /\ UNCHANGED <<term, cli, strays>> /\ LauncherOnly

\* Mutant of LauncherChecks: the parent is not looked at again.
LauncherChecksNothing ==
  /\ launcher = "armed" /\ launcher' = "checked"
  /\ UNCHANGED <<term, cli, strays>> /\ LauncherOnly

\* The orchestrator may have died before the signal was armed.
LauncherChecks ==
  /\ launcher = "armed"
  /\ launcher' = IF orchestrator = "gone" THEN "exited" ELSE "checked"
  /\ UNCHANGED <<term, cli, strays>> /\ LauncherOnly

LauncherSpawns ==
  /\ launcher = "checked"
  /\ \/ launcher' = "supervising" /\ cli' = "running"
     \/ launcher' = "exited" /\ UNCHANGED cli
  /\ UNCHANGED <<term, strays>> /\ LauncherOnly

\* A pending SIGTERM is forwarded; after the grace period the CLI is killed.
LauncherForwards ==
  /\ launcher = "supervising" /\ cli = "running" /\ term
  /\ StopCli
  /\ UNCHANGED <<launcher, term, strays>> /\ LauncherOnly

LauncherReaps ==
  /\ launcher = "supervising" /\ cli = "exited" /\ launcher' = "sweeping"
  /\ UNCHANGED <<term, cli, strays>> /\ LauncherOnly

\* The subreaper finds every descendant, setsid or not.
LauncherSweeps ==
  /\ launcher = "sweeping" /\ launcher' = "exited" /\ strays' = "none"
  /\ UNCHANGED <<term, cli>> /\ LauncherOnly

CliForks ==
  /\ cli = "running" /\ strays = "none" /\ strays' \in {"group", "session"}
  /\ UNCHANGED <<launcher, term, cli>> /\ LauncherOnly

CliExits ==
  /\ cli = "running" /\ cli' = "exited"
  /\ UNCHANGED <<launcher, term, strays>> /\ LauncherOnly

-----------------------------------------------------------------------------
(* The coroutine.  It stands still while the stop signal's handler runs.    *)

Step == orchestrator = "up" /\ stop # "running"
Return(how) == run' = "returned" /\ result' = how

\* Mutant of CheckAbort: only the first start looks at the signal.
CheckAbortOnce ==
  /\ Step /\ run = "checking" /\ run' = "creating"
  /\ UNCHANGED <<call, orchestrator, stop, aborted, result, attempts, capacityFailures, tracked,
                 listening, configDir, processes>>

\* Nothing is awaited between this check and the spawn.
CheckAbort ==
  /\ Step /\ run = "checking"
  /\ IF aborted THEN Return("aborted") ELSE run' = "creating" /\ UNCHANGED result
  /\ UNCHANGED <<call, orchestrator, stop, aborted, attempts, capacityFailures, tracked,
                 listening, configDir, processes>>

\* _create_cli_config_dir: a stop signal that arrived meanwhile is sent again once
\* the directory is registered.
CreateConfigDir(works) ==
  /\ Step /\ run = "creating"
  /\ IF works THEN configDir' = TRUE /\ run' = "spawning" /\ UNCHANGED result
     ELSE UNCHANGED configDir /\ Return("refused")
  /\ stop' = IF stop = "deferred" THEN "running" ELSE stop
  /\ launcher' = "none" /\ term' = FALSE /\ cli' = "none" /\ strays' = "none"
  /\ UNCHANGED <<call, orchestrator, aborted, attempts, capacityFailures, tracked, listening>>

\* create_subprocess_exec forks the launcher and is awaited.
Fork(found) ==
  /\ Step /\ run = "spawning" /\ launcher = "none"
  /\ IF found THEN launcher' = "starting" /\ UNCHANGED <<run, result, configDir>>
     ELSE Return("refused") /\ configDir' = FALSE /\ UNCHANGED launcher
  /\ UNCHANGED <<call, orchestrator, stop, aborted, attempts, capacityFailures, tracked,
                 listening, term, cli, strays>>

\* Mutant of Watch: an abort that came while the launcher was starting is missed.
WatchMissingAbort(verified) ==
  /\ Step /\ run = "spawning" /\ launcher # "none"
  /\ ~verified => ~LauncherUp
  /\ IF ~verified
     THEN Return("refused") /\ configDir' = FALSE /\ UNCHANGED <<tracked, listening>>
     ELSE /\ run' = "watching" /\ tracked' = TRUE /\ listening' = TRUE
          /\ UNCHANGED <<result, configDir>>
  /\ UNCHANGED processes
  /\ UNCHANGED <<call, orchestrator, stop, aborted, attempts, capacityFailures>>

\* verify, which may fail when the launcher has exited; then _track_live_agent and
\* add_event_listener, which calls the handler at once when the abort has already
\* happened.
Watch(verified) ==
  /\ Step /\ run = "spawning" /\ launcher # "none"
  /\ ~verified => ~LauncherUp
  /\ IF ~verified
     THEN /\ Return("refused") /\ configDir' = FALSE
          /\ UNCHANGED <<tracked, listening, processes>>
     ELSE /\ run' = "watching" /\ tracked' = TRUE /\ listening' = TRUE
          /\ UNCHANGED <<result, configDir>>
          /\ IF aborted THEN SignalLauncher ELSE UNCHANGED processes
  /\ UNCHANGED <<call, orchestrator, stop, aborted, attempts, capacityFailures>>

\* The end of the output, or a time limit, or, when streaming, the result message or
\* one of the monitor's reasons to stop the agent.
StopWatching(how) ==
  /\ Step /\ run = "watching"
  /\ \/ launcher \in {"exited", "killed"} /\ cli # "running"
     \/ how = "timed_out"
     \/ mode = "streaming"
  /\ mode = "waiting" => how # "paralysis"
  /\ run' = "terminating" /\ result' = how /\ listening' = FALSE
  /\ IF LauncherUp THEN SignalLauncher ELSE UNCHANGED processes
  /\ UNCHANGED <<call, orchestrator, stop, aborted, attempts, capacityFailures, tracked, configDir>>

\* _terminate_async and terminate_sync: wait for the launcher, at the time limit
\* SIGKILL its descendants, then the group; then release.
KillTree ==
  /\ launcher' = IF LauncherUp THEN "exited" ELSE launcher
  /\ StopCli
  /\ strays' = IF LauncherUp \/ strays = "group" THEN "none" ELSE strays
  /\ UNCHANGED term

Release == tracked' = FALSE /\ configDir' = FALSE

\* Mutant of Terminated: a cancelled run only drops its handle.
TerminatedUnlessCancelled ==
  /\ Step /\ run \in {"terminating", "stopping"}
  /\ run' = IF run = "terminating" THEN "classifying" ELSE "cancelled"
  /\ IF run = "terminating" THEN KillTree ELSE UNCHANGED processes
  /\ Release
  /\ UNCHANGED <<call, orchestrator, stop, aborted, result, attempts, capacityFailures, listening>>

Terminated ==
  /\ Step /\ run \in {"terminating", "stopping"}
  /\ run' = IF run = "terminating" THEN "classifying" ELSE "cancelled"
  /\ KillTree /\ Release
  /\ UNCHANGED <<call, orchestrator, stop, aborted, result, attempts, capacityFailures, listening>>

\* What is never run again: a success, a run cut off by its turns, and an agent
\* stopped for reading without writing; the waiting run also gives up at its time
\* limit.  The streaming run's other time-outs count as what their reason says.
Final == {"success", "max_turns", "paralysis", "timed_out", "fatal"}
Capacity == {"overloaded", "limited"}

\* Mutant of Classify: a capacity failure in persistent mode is not counted.
ClassifyUncounted ==
  /\ Step /\ run = "classifying"
  /\ \/ result \in Final /\ Return(result) /\ UNCHANGED <<attempts, capacityFailures>>
     \/ /\ result \notin Final /\ persistent /\ result \in Capacity
        /\ run' = "sleeping" /\ UNCHANGED <<result, attempts, capacityFailures>>
     \/ /\ result \notin Final /\ ~(persistent /\ result \in Capacity)
        /\ attempts' = attempts + 1
        /\ IF attempts' >= MaxRetries
           THEN Return(IF result = "overloaded" THEN "OVERLOADED" ELSE result)
           ELSE run' = "sleeping" /\ UNCHANGED result
        /\ UNCHANGED capacityFailures
  /\ UNCHANGED <<call, orchestrator, stop, aborted, tracked, listening, configDir, processes>>

\* Mutant of Classify: the budget is compared before the failure is counted.
ClassifyOnceMore ==
  /\ Step /\ run = "classifying"
  /\ \/ result \in Final /\ Return(result) /\ UNCHANGED <<attempts, capacityFailures>>
     \/ /\ result \notin Final
        /\ attempts' = attempts + 1 /\ UNCHANGED capacityFailures
        /\ IF attempts >= MaxRetries THEN Return(result)
           ELSE run' = "sleeping" /\ UNCHANGED result
  /\ UNCHANGED <<call, orchestrator, stop, aborted, tracked, listening, configDir, processes>>

\* Two budgets: the persistent mode's for 429 and 529, max_retries for the rest.
Classify ==
  /\ Step /\ run = "classifying"
  /\ \/ result \in Final /\ Return(result) /\ UNCHANGED <<attempts, capacityFailures>>
     \/ /\ result \notin Final /\ persistent /\ result \in Capacity
        /\ capacityFailures' = capacityFailures + 1
        /\ IF capacityFailures' >= Ceiling
           THEN Return(IF result = "overloaded" THEN "OVERLOADED" ELSE result)
           ELSE run' = "sleeping" /\ UNCHANGED result
        /\ UNCHANGED attempts
     \/ /\ result \notin Final /\ ~(persistent /\ result \in Capacity)
        /\ attempts' = attempts + 1
        /\ IF attempts' >= MaxRetries
           THEN Return(IF result = "overloaded" THEN "OVERLOADED" ELSE result)
           ELSE run' = "sleeping" /\ UNCHANGED result
        /\ UNCHANGED capacityFailures
  /\ UNCHANGED <<call, orchestrator, stop, aborted, tracked, listening, configDir, processes>>

Awake ==
  /\ Step /\ run = "sleeping" /\ run' = "checking"
  /\ UNCHANGED <<call, orchestrator, stop, aborted, result, attempts, capacityFailures, tracked,
                 listening, configDir, processes>>

-----------------------------------------------------------------------------
(* What happens to the run from outside.                                    *)

\* The parent controller aborts: at any await.
Abort ==
  /\ Step /\ ~aborted /\ aborted' = TRUE
  /\ \/ run = "spawning" /\ launcher # "none"
     \/ run \in {"watching", "terminating", "sleeping"}
  /\ IF listening THEN SignalLauncher ELSE UNCHANGED processes
  /\ UNCHANGED <<call, orchestrator, stop, coroutine, tracked, configDir>>

\* Cancelled at an await: while the agent runs or is being stopped its tree is stopped
\* synchronously; during the spawn asyncio kills the launcher outright.
Cancel ==
  /\ Step
  /\ \/ /\ run = "spawning" /\ launcher # "none" /\ run' = "cancelled" /\ configDir' = FALSE
        /\ launcher' = IF LauncherUp THEN "killed" ELSE launcher
        /\ UNCHANGED <<term, cli, strays>>
     \/ /\ run \in {"watching", "terminating"} /\ run' = "stopping"
        /\ IF LauncherUp THEN SignalLauncher ELSE UNCHANGED processes
        /\ UNCHANGED configDir
     \/ run = "sleeping" /\ run' = "cancelled" /\ UNCHANGED <<configDir, processes>>
  /\ listening' = FALSE
  /\ UNCHANGED <<call, orchestrator, stop, aborted, result, attempts, capacityFailures, tracked>>

\* SIGTERM, or SIGINT, over SIG_DFL.  A directory being created defers it.
StopSignal ==
  /\ Step /\ stop = "idle"
  /\ IF run = "creating" THEN stop' = "deferred" /\ UNCHANGED processes
     ELSE /\ stop' = "running"
          /\ IF tracked /\ LauncherUp THEN SignalLauncher ELSE UNCHANGED processes
  /\ UNCHANGED <<call, orchestrator, aborted, coroutine, tracked, configDir>>

\* The kernel tells a launcher that armed its death signal.
Die ==
  /\ orchestrator' = "gone" /\ tracked' = FALSE /\ stop' = "idle"
  /\ UNCHANGED <<call, aborted, coroutine>>
NotifyLauncher ==
  /\ term' = (term \/ (LauncherUp /\ launcher # "starting"))
  /\ UNCHANGED <<launcher, cli, strays>>

\* The handler stops the tracked agents, removes the directories and sends the
\* signal again.
HandlerEnds ==
  /\ orchestrator = "up" /\ stop = "running"
  /\ IF tracked THEN KillTree ELSE NotifyLauncher
  /\ configDir' = FALSE
  /\ Die

\* SIGKILL: nothing is cleaned up.
OrchestratorKilled ==
  /\ orchestrator = "up"
  /\ NotifyLauncher /\ UNCHANGED configDir
  /\ Die

LauncherKilled ==
  /\ LauncherUp /\ launcher' = "killed"
  /\ UNCHANGED <<term, cli, strays>> /\ LauncherOnly

-----------------------------------------------------------------------------
Launcher ==
  LauncherArms \/ LauncherChecks \/ LauncherSpawns \/ LauncherForwards \/ LauncherReaps
  \/ LauncherSweeps

Coroutine ==
  \/ CheckAbort
  \/ \E works \in BOOLEAN : CreateConfigDir(works) \/ Fork(works) \/ Watch(works)
  \/ \E how \in Results : StopWatching(how)
  \/ Terminated \/ Classify \/ Awake

Outside == Abort \/ Cancel \/ StopSignal \/ OrchestratorKilled \/ LauncherKilled

Next == Coroutine \/ HandlerEnds \/ Launcher \/ CliForks \/ CliExits \/ Outside

\* The event loop and the launcher run on, every wait of theirs has a time limit.
\* The CLI need not ever do anything.
Spec ==
  /\ Init /\ [][Next]_vars
  /\ WF_vars(Coroutine) /\ WF_vars(HandlerEnds) /\ WF_vars(Launcher)

-----------------------------------------------------------------------------
(* Properties.                                                             *)

TypeOK ==
  /\ mode \in Modes /\ persistent \in Persistent
  /\ orchestrator \in {"up", "gone"} /\ stop \in {"idle", "deferred", "running"}
  /\ aborted \in BOOLEAN
  /\ run \in RunPhases /\ result \in Outcomes
  /\ attempts \in 0..MaxRetries /\ capacityFailures \in 0..Ceiling
  /\ tracked \in BOOLEAN /\ listening \in BOOLEAN /\ configDir \in BOOLEAN
  /\ launcher \in {"none", "starting", "armed", "checked", "supervising", "sweeping", "exited",
                   "killed"}
  /\ term \in BOOLEAN /\ cli \in {"none", "running", "exited"}
  /\ strays \in {"none", "group", "session"}

NothingRuns == cli # "running" /\ strays = "none" /\ ~LauncherUp

\* A run that ended, by a return or by a cancellation, has left nothing: no agent and
\* nothing an agent started, no handle, no listener on the abort controller and no
\* directory.  Only a launcher killed by someone else leaves its CLI's sessions, and
\* one killed during the spawn its CLI.
NothingOutlivesTheRun ==
  run \in Ended /\ orchestrator = "up" =>
    /\ launcher # "killed" => NothingRuns
    /\ ~tracked /\ ~listening /\ ~configDir

\* An abort is never lost between the check before the spawn and the listener after
\* it: an agent that is watched in an aborted run was told to stop.
AbortReachesTheAgent ==
  aborted /\ run = "watching" => term \/ ~LauncherUp

\* No agent is started once the run was aborted, and none after an answer that is
\* final.
StartsAreWanted ==
  [][launcher' = "starting" /\ launcher # "starting" =>
       ~aborted /\ result \notin Final]_vars

\* A process tree outlives the orchestrator only until its launcher has swept it.
OrphansStop == orchestrator = "gone" ~> NothingRuns \/ launcher = "killed"

\* Whatever the agent and the API do, the run ends.
RunEnds == <>(run \in Ended \/ orchestrator = "gone")
=============================================================================
