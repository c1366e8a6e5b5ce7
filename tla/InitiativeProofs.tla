--------------------------- MODULE InitiativeProofs ---------------------------
(***************************************************************************)
(* Proofs about Initiative, for every set of tasks, every dependency graph *)
(* and every number of processes: how the tasks are layered into waves, in *)
(* which order the waves run, and, when only one run at a time is at work, *)
(* that finished work stays finished and is charged once.                  *)
(*                                                                         *)
(* The first half concerns one process alone: whatever the others and the  *)
(* operator do to the rows, its plan and its cursor are its own.  The      *)
(* second half needs the lock to be held whenever a run is at work, which  *)
(* it is when the caller gives the repository, or when there is one        *)
(* process only: OneAtATime.  (The command line gives no repository, and   *)
(* then the run initiative_lock shows two runs at work.)                   *)
(***************************************************************************)
EXTENDS Initiative, TLAPS

Graph(r) == DependencyGraph(run[r].selected)

\* WaveIsLongestChain, of one run.
Chain(r) ==
  /\ Placed(r) \subseteq run[r].selected
  /\ run[r].phase # "layering" => Remaining(r) = {}
  /\ \A n \in DOMAIN run[r].waves : \A t \in run[r].waves[n] :
       /\ t \notin Before(r, n)
       /\ blockedBy[t] \cap run[r].selected \subseteq Before(r, n)
       /\ n > 1 => blockedBy[t] \cap run[r].waves[n - 1] # {}

\* Before the waves run there is no cursor, no job and no result.
NotYetRunning == {"idle", "locking", "planning", "layering", "opening"}
Unplanned == {"idle", "locking", "planning"}
InAWave == {"dispatching", "merging", "reading", "charging"}

\* The layers are closed under dependencies, and every task that is left has a
\* dependency which the layers before the last one do not have.
Layered(r) ==
  LET w == run[r].waves IN
  /\ run[r].phase \in Unplanned => run[r].selected = {} /\ w = <<>>
  /\ run[r].phase = "layering" => ~HasCycle(Graph(r))
  /\ Len(w) > 0 => \A t \in Remaining(r) : ~(Graph(r)[t] \subseteq Before(r, Len(w)))

\* The cursor of a run: the waves before it are completed.
Cursor(r) ==
  LET w == run[r].waves
      n == run[r].wave IN
  /\ run[r].phase \in NotYetRunning =>
       n = 0 /\ run[r].job = NoJobs /\ run[r].completed = {}
  /\ run[r].phase \in {"checking"} \cup InAWave => n >= 1
  /\ run[r].phase \in InAWave => n <= Len(w)
  /\ n <= Len(w) + 1
  /\ Before(r, n) \subseteq run[r].completed
  /\ run[r].phase = "charging" => Wave(r) \subseteq run[r].failed \cup run[r].completed
  /\ run[r].phase = "closing" => run[r].selected \subseteq run[r].completed

\* The jobs are those of the current wave, or of the one just completed.
JobsOfWave(r) ==
  \A t \in Tasks : run[r].job[t] # "none" =>
    /\ run[r].wave >= 1
    /\ \E m \in DOMAIN run[r].waves : m <= run[r].wave /\ t \in run[r].waves[m]
    /\ run[r].phase = "checking" => t \in Before(r, run[r].wave)
    /\ run[r].phase \in InAWave => t \in Wave(r)

Local(r) == Chain(r) /\ Layered(r) /\ Cursor(r) /\ JobsOfWave(r)

\* Rows of cost are never taken away.
MarksAreOld(r) == \A t \in Tasks : run[r].highWater[t] <= agentRuns[t]

LocalInv == TypeOK /\ \A r \in Runs : Local(r) /\ MarksAreOld(r)

-----------------------------------------------------------------------------
\* The lock is taken by every run, or there is nobody to take it from.
OneAtATime == RepoGiven \/ \A r, s \in Runs : r = s

AtWork(r) == run[r].phase \notin {"idle", "locking"}

LockInv ==
  \A r \in Runs :
    /\ RepoGiven /\ run[r].phase # "idle" => run[r].repo
    /\ AtWork(r) /\ run[r].repo => lock = r

\* What the run at work has selected and not finished is not done.
Unfinished(r) ==
  {t \in run[r].selected \ Before(r, run[r].wave) :
     run[r].job[t] \in {"none", "queued", "running", "passed"}}
RowsOfRun(r) ==
  AtWork(r) =>
    /\ \A t \in Unfinished(r) : taskStatus[t] # "done"
    /\ \A t \in run[r].completed : taskStatus[t] = "done"

\* What is charged for a wave came after its high-water marks, and they after
\* everything charged before.
CostsOfRun(r) ==
  /\ run[r].phase \in {"dispatching", "merging", "reading"} =>
       \A t \in Tasks : totalCost[t] <= run[r].highWater[t]
  /\ run[r].phase = "charging" =>
       \A t \in Tasks : totalCost[t] + run[r].cost[t] <= agentRuns[t]

SharedInv ==
  /\ LockInv /\ NeverOvercounts
  /\ \A r \in Runs : RowsOfRun(r) /\ CostsOfRun(r)

-----------------------------------------------------------------------------
(* How a step changes the local states.                                    *)

LocalState ==
  [phase : Phases, force : BOOLEAN, repo : BOOLEAN,
   selected : SUBSET Tasks, waves : Seq(SUBSET Tasks), wave : Nat,
   job : [Tasks -> JobStages], highWater : [Tasks -> Nat],
   failed : SUBSET Tasks, completed : SUBSET Tasks, cost : [Tasks -> Nat]]

LEMMA Frame ==
    ASSUME TypeOK, NEW r \in Runs, NEW l \in LocalState, run' = [run EXCEPT ![r] = l]
    PROVE  run' \in [Runs -> LocalState]
BY DEF TypeOK, LocalState

LEMMA NotStartedType == NotStarted \in LocalState
BY DEF LocalState, NotStarted, NoJobs, NoRows, Phases, JobStages

LEMMA GoToFields ==
    ASSUME TypeOK, NEW r \in Runs, NEW p \in Phases, GoTo(r, p)
    PROVE  /\ run' \in [Runs -> LocalState]
           /\ run'[r] = [run[r] EXCEPT !.phase = p]
           /\ \A s \in Runs : s # r => run'[s] = run[s]
<1>1. run[r] \in LocalState BY DEF TypeOK, LocalState
<1>2. run' = [run EXCEPT ![r] = [run[r] EXCEPT !.phase = p]] BY Zenon DEF GoTo
<1>3. [run[r] EXCEPT !.phase = p] \in LocalState BY <1>1 DEF LocalState
<1> QED BY <1>2, <1>3, Frame DEF TypeOK

LEMMA LeaveFields ==
    ASSUME TypeOK, NEW r \in Runs, Leave(r)
    PROVE  /\ run' \in [Runs -> LocalState] /\ lock' \in Runs \cup {"free"}
           /\ run'[r] = NotStarted
           /\ \A s \in Runs : s # r => run'[s] = run[s]
<1>1. run' = [run EXCEPT ![r] = NotStarted] BY DEF Leave
<1>2. lock' \in Runs \cup {"free"} BY DEF Leave, TypeOK
<1> QED BY <1>1, <1>2, NotStartedType, Frame DEF TypeOK

LEMMA StartFields ==
    ASSUME TypeOK, NEW r \in Runs, NEW force \in BOOLEAN, NEW repo \in BOOLEAN,
           run' = [run EXCEPT ![r] = [NotStarted EXCEPT !.phase = "locking", !.force = force,
                                                        !.repo = repo]]
    PROVE  /\ run' \in [Runs -> LocalState]
           /\ run'[r] = [NotStarted EXCEPT !.phase = "locking", !.force = force, !.repo = repo]
           /\ \A s \in Runs : s # r => run'[s] = run[s]
<1>1. [NotStarted EXCEPT !.phase = "locking", !.force = force, !.repo = repo] \in LocalState
  BY NotStartedType DEF LocalState, Phases
<1> QED BY <1>1, Frame DEF TypeOK

LEMMA PlanFields ==
    ASSUME TypeOK, NEW r \in Runs, NEW S \in SUBSET Tasks,
           run' = [run EXCEPT ![r].phase = "layering", ![r].selected = S]
    PROVE  /\ run' \in [Runs -> LocalState]
           /\ run'[r] = [run[r] EXCEPT !.phase = "layering", !.selected = S]
           /\ \A s \in Runs : s # r => run'[s] = run[s]
<1>1. run[r] \in LocalState BY DEF TypeOK, LocalState
<1>2. run' = [run EXCEPT ![r] = [run[r] EXCEPT !.phase = "layering", !.selected = S]]
  BY Zenon DEF TypeOK
<1>3. [run[r] EXCEPT !.phase = "layering", !.selected = S] \in LocalState
  BY <1>1 DEF LocalState, Phases
<1> QED BY <1>2, <1>3, Frame DEF TypeOK

LEMMA AppendFields ==
    ASSUME TypeOK, NEW r \in Runs, NEW S \in SUBSET Tasks,
           run' = [run EXCEPT ![r].waves = Append(@, S)]
    PROVE  /\ run' \in [Runs -> LocalState]
           /\ run'[r] = [run[r] EXCEPT !.waves = Append(run[r].waves, S)]
           /\ \A s \in Runs : s # r => run'[s] = run[s]
<1>1. run[r] \in LocalState BY DEF TypeOK, LocalState
<1>2. run' = [run EXCEPT ![r] = [run[r] EXCEPT !.waves = Append(run[r].waves, S)]]
  BY Zenon DEF TypeOK
<1>3. Append(run[r].waves, S) \in Seq(SUBSET Tasks) BY <1>1 DEF LocalState
<1>4. [run[r] EXCEPT !.waves = Append(run[r].waves, S)] \in LocalState
  BY <1>1, <1>3 DEF LocalState
<1> QED BY <1>2, <1>4, Frame DEF TypeOK

LEMMA WaveFields ==
    ASSUME TypeOK, NEW r \in Runs, NEW n \in Nat,
           run' = [run EXCEPT ![r].phase = "checking", ![r].wave = n]
    PROVE  /\ run' \in [Runs -> LocalState]
           /\ run'[r] = [run[r] EXCEPT !.phase = "checking", !.wave = n]
           /\ \A s \in Runs : s # r => run'[s] = run[s]
<1>1. run[r] \in LocalState BY DEF TypeOK, LocalState
<1>2. run' = [run EXCEPT ![r] = [run[r] EXCEPT !.phase = "checking", !.wave = n]]
  BY Zenon DEF TypeOK
<1>3. [run[r] EXCEPT !.phase = "checking", !.wave = n] \in LocalState
  BY <1>1 DEF LocalState, Phases
<1> QED BY <1>2, <1>3, Frame DEF TypeOK

LEMMA DispatchFields ==
    ASSUME TypeOK, NEW r \in Runs, NEW j \in [Tasks -> JobStages],
           run' = [run EXCEPT ![r].phase = "dispatching", ![r].highWater = agentRuns, ![r].job = j]
    PROVE  /\ run' \in [Runs -> LocalState]
           /\ run'[r] = [run[r] EXCEPT !.phase = "dispatching", !.highWater = agentRuns, !.job = j]
           /\ \A s \in Runs : s # r => run'[s] = run[s]
<1>1. run[r] \in LocalState BY DEF TypeOK, LocalState
<1>2. run' = [run EXCEPT ![r] = [run[r] EXCEPT !.phase = "dispatching",
                                              !.highWater = agentRuns, !.job = j]]
  BY Zenon DEF TypeOK
<1>3. [run[r] EXCEPT !.phase = "dispatching", !.highWater = agentRuns, !.job = j] \in LocalState
  BY <1>1 DEF LocalState, Phases, TypeOK
<1> QED BY <1>2, <1>3, Frame DEF TypeOK

LEMMA JobFields ==
    ASSUME TypeOK, NEW r \in Runs, NEW t \in Tasks, NEW stage \in JobStages,
           run' = [run EXCEPT ![r].job[t] = stage]
    PROVE  /\ run' \in [Runs -> LocalState]
           /\ run'[r] = [run[r] EXCEPT !.job = [run[r].job EXCEPT ![t] = stage]]
           /\ \A s \in Runs : s # r => run'[s] = run[s]
<1>1. run[r] \in LocalState BY DEF TypeOK, LocalState
<1>2. run' = [run EXCEPT ![r] = [run[r] EXCEPT !.job = [run[r].job EXCEPT ![t] = stage]]]
  BY Zenon DEF TypeOK
<1>3. [run[r] EXCEPT !.job = [run[r].job EXCEPT ![t] = stage]] \in LocalState
  BY <1>1 DEF LocalState
<1> QED BY <1>2, <1>3, Frame DEF TypeOK

LEMMA ResultFields ==
    ASSUME TypeOK, NEW r \in Runs, NEW c \in [Tasks -> Nat], NEW F \in SUBSET Tasks,
           NEW D \in SUBSET Tasks,
           run' = [run EXCEPT ![r].phase = "charging", ![r].cost = c, ![r].failed = F,
                              ![r].completed = @ \cup D]
    PROVE  /\ run' \in [Runs -> LocalState]
           /\ run'[r] = [run[r] EXCEPT !.phase = "charging", !.cost = c, !.failed = F,
                                       !.completed = run[r].completed \cup D]
           /\ \A s \in Runs : s # r => run'[s] = run[s]
<1> DEFINE l == [run[r] EXCEPT !.phase = "charging", !.cost = c, !.failed = F,
                               !.completed = run[r].completed \cup D]
<1>1. run[r] \in LocalState BY DEF TypeOK, LocalState
<1>2. run' = [run EXCEPT ![r] = l] BY Zenon DEF TypeOK
<1>3. l \in LocalState BY <1>1 DEF LocalState, Phases
<1> QED BY <1>2, <1>3, Frame DEF TypeOK

-----------------------------------------------------------------------------
(* The plan.                                                               *)

LEMMA SamePlan ==
    ASSUME NEW r \in Runs, blockedBy' = blockedBy, run'[r].waves = run[r].waves,
           run'[r].selected = run[r].selected
    PROVE  /\ \A n : Before(r, n)' = Before(r, n)
           /\ Placed(r)' = Placed(r) /\ Remaining(r)' = Remaining(r)
           /\ Graph(r)' = Graph(r)
BY DEF Before, Placed, Remaining, Graph, DependencyGraph

\* The plan stays as it was made.
LEMMA PlanKept ==
    ASSUME NEW r \in Runs, Chain(r), Layered(r), blockedBy' = blockedBy,
           run'[r].waves = run[r].waves, run'[r].selected = run[r].selected,
           run[r].phase = "layering" => Remaining(r) = {},
           run'[r].phase \notin Unplanned \cup {"layering"}
    PROVE  Chain(r)' /\ Layered(r)'
<1>1. /\ \A n : Before(r, n)' = Before(r, n)
      /\ Placed(r)' = Placed(r) /\ Remaining(r)' = Remaining(r) /\ Graph(r)' = Graph(r)
  BY SamePlan
<1>2. Chain(r)' BY <1>1 DEF Chain
<1>3. Layered(r)' BY <1>1 DEF Layered
<1> QED BY <1>2, <1>3

LEMMA NoPlan ==
    ASSUME NEW r \in Runs, run'[r].waves = <<>>, run'[r].selected = {},
           run'[r].phase # "layering"
    PROVE  Chain(r)' /\ Layered(r)'
<1>1. \A n \in Int : n <= 1 => Before(r, n)' = {}
  BY DEF Before
<1>2. Placed(r)' = {} /\ Remaining(r)' = {} BY <1>1 DEF Placed, Remaining
<1>3. Chain(r)' BY <1>2 DEF Chain
<1>4. Layered(r)' BY <1>2 DEF Layered
<1> QED BY <1>3, <1>4

LEMMA Planned ==
    ASSUME TypeOK, NEW r \in Runs, Layered(r), run[r].phase = "planning",
           NEW S \in SUBSET Tasks, ~HasCycle(DependencyGraph(S)), blockedBy' = blockedBy,
           run'[r] = [run[r] EXCEPT !.phase = "layering", !.selected = S]
    PROVE  Chain(r)' /\ Layered(r)'
<1>0. run[r] \in LocalState BY DEF TypeOK, LocalState
<1>1. /\ run'[r].phase = "layering" /\ run'[r].selected = S /\ run'[r].waves = <<>>
  BY <1>0 DEF LocalState, Layered, Unplanned
<1>2. Placed(r)' = {} BY <1>1 DEF Placed, Before
<1>3. Chain(r)' BY <1>1, <1>2 DEF Chain
<1>4. Graph(r)' = DependencyGraph(S) BY <1>1 DEF Graph, DependencyGraph
<1>5. ~HasCycle(Graph(r)') BY <1>4
<1>6. Layered(r)' BY <1>1, <1>5 DEF Layered, Unplanned, HasCycle
<1> QED BY <1>3, <1>6

\* What is before a wave does not change when another one is placed.
LEMMA Appended ==
    ASSUME NEW r \in Runs, run[r].waves \in Seq(SUBSET Tasks), NEW S \in SUBSET Tasks,
           run'[r].waves = Append(run[r].waves, S)
    PROVE  LET w == run[r].waves IN
           /\ Len(run'[r].waves) = Len(w) + 1
           /\ run'[r].waves[Len(w) + 1] = S
           /\ \A m \in 1..Len(w) : run'[r].waves[m] = w[m]
           /\ \A n \in Int : n <= Len(w) + 1 => Before(r, n)' = Before(r, n)
           /\ Placed(r)' = Placed(r) \cup S
<1> DEFINE w == run[r].waves
<1>1. /\ Len(run'[r].waves) = Len(w) + 1
      /\ run'[r].waves[Len(w) + 1] = S
      /\ \A m \in 1..Len(w) : run'[r].waves[m] = w[m]
  OBVIOUS
<1>2. ASSUME NEW n \in Int, n <= Len(w) + 1 PROVE Before(r, n)' = Before(r, n)
  <2>1. \A m \in 1..(n - 1) : run'[r].waves[m] = w[m] BY <1>1, <1>2
  <2> QED BY <2>1 DEF Before
<1>3. Placed(r)' = Placed(r) \cup S
  <2>1. 1..(Len(w) + 1) = 1..Len(w) \cup {Len(w) + 1} OBVIOUS
  <2>2. Placed(r)' = UNION {run'[r].waves[m] : m \in 1..(Len(w) + 1)}
    BY <1>1 DEF Placed, Before
  <2>3. Placed(r) = UNION {w[m] : m \in 1..Len(w)} BY DEF Placed, Before
  <2> QED BY <1>1, <2>1, <2>2, <2>3
<1> QED BY <1>1, <1>2, <1>3

\* compute_waves cannot be stuck: what is left is no cycle, so one of it is ready.
LEMMA ReadyIsFound ==
    ASSUME NEW r \in Runs, ~HasCycle(Graph(r)), Remaining(r) # {}
    PROVE  Ready(r) # {}
<1> SUFFICES ASSUME Ready(r) = {} PROVE FALSE OBVIOUS
<1>1. DOMAIN Graph(r) = run[r].selected BY DEF Graph, DependencyGraph
<1>2. Remaining(r) \in SUBSET DOMAIN Graph(r) BY <1>1 DEF Remaining
<1>3. ASSUME NEW t \in Remaining(r) PROVE Graph(r)[t] \cap Remaining(r) # {}
  <2>1. ~(Graph(r)[t] \subseteq Placed(r)) BY <1>3 DEF Ready, Graph
  <2>2. Graph(r)[t] \subseteq run[r].selected BY <1>3 DEF Graph, DependencyGraph, Remaining
  <2> QED BY <2>1, <2>2 DEF Remaining
<1> QED BY <1>2, <1>3 DEF HasCycle

LEMMA LayerPlaced ==
    ASSUME TypeOK, NEW r \in Runs, Chain(r), Layered(r), run[r].phase = "layering",
           blockedBy' = blockedBy,
           run'[r] = [run[r] EXCEPT !.waves = Append(run[r].waves, Ready(r))]
    PROVE  Chain(r)' /\ Layered(r)'
<1> DEFINE w == run[r].waves
           v == run'[r].waves
           graph == Graph(r)
<1>0. run[r] \in LocalState BY DEF TypeOK, LocalState
<1>1. /\ v = Append(w, Ready(r)) /\ run'[r].selected = run[r].selected
      /\ run'[r].phase = "layering"
  BY <1>0 DEF LocalState
<1>2. w \in Seq(SUBSET Tasks) /\ Len(w) \in Nat BY <1>0 DEF LocalState
<1>3. Ready(r) \in SUBSET Tasks BY <1>0 DEF Ready, Remaining, LocalState
<1>4. /\ Len(v) = Len(w) + 1 /\ v[Len(w) + 1] = Ready(r)
      /\ \A m \in 1..Len(w) : v[m] = w[m]
      /\ \A n \in Int : n <= Len(w) + 1 => Before(r, n)' = Before(r, n)
      /\ Placed(r)' = Placed(r) \cup Ready(r)
  BY <1>1, <1>2, <1>3, Appended
<1>5. Graph(r)' = graph BY <1>1 DEF Graph, DependencyGraph
<1>6. \A t \in Ready(r) : t \in Remaining(r) /\ graph[t] \subseteq Placed(r)
  BY DEF Ready, Graph
<1>7. \A t \in run[r].selected : graph[t] = blockedBy[t] \cap run[r].selected
  BY DEF Graph, DependencyGraph
<1>8. Remaining(r) \subseteq run[r].selected /\ Remaining(r) \cap Placed(r) = {}
  BY DEF Remaining
<1>9. Before(r, Len(w) + 1) = Placed(r) BY DEF Placed
<1>10. DOMAIN w = 1..Len(w) /\ DOMAIN v = 1..(Len(w) + 1)
  <2>1. v \in Seq(SUBSET Tasks) BY <1>1, <1>2, <1>3
  <2> QED BY <1>2, <1>4, <2>1
<1>11. ASSUME NEW n \in DOMAIN v, NEW t \in v[n]
       PROVE  /\ t \notin Before(r, n)'
              /\ blockedBy[t] \cap run[r].selected \subseteq Before(r, n)'
              /\ n > 1 => blockedBy[t] \cap v[n - 1] # {}
  <2>1. Before(r, n)' = Before(r, n) /\ n \in Int BY <1>2, <1>4, <1>10
  <2>2. CASE n \in DOMAIN w
    <3>1. v[n] = w[n] BY <1>4, <1>10, <2>2
    <3>2. n > 1 => v[n - 1] = w[n - 1] BY <1>2, <1>4, <1>10, <2>2
    <3> QED BY <2>1, <2>2, <3>1, <3>2 DEF Chain
  <2>3. CASE n = Len(w) + 1
    <3>1. t \in Ready(r) BY <1>4, <2>3
    <3>2. t \notin Before(r, n)' /\ blockedBy[t] \cap run[r].selected \subseteq Before(r, n)'
      BY <1>6, <1>7, <1>8, <1>9, <2>1, <2>3, <3>1
    <3>3. ASSUME n > 1 PROVE blockedBy[t] \cap v[n - 1] # {}
      <4>1. Len(w) > 0 /\ v[n - 1] = w[Len(w)] BY <1>2, <1>4, <2>3, <3>3
      <4>2. ~(graph[t] \subseteq Before(r, Len(w))) BY <1>6, <3>1, <4>1 DEF Layered
      <4>3. Placed(r) = Before(r, Len(w)) \cup w[Len(w)]
        <5>1. 1..Len(w) = 1..(Len(w) - 1) \cup {Len(w)} BY <1>2, <4>1
        <5>2. Placed(r) = UNION {w[m] : m \in 1..Len(w)} BY <1>2 DEF Placed, Before
        <5> QED BY <5>1, <5>2 DEF Before
      <4> QED BY <1>6, <1>7, <1>8, <3>1, <4>1, <4>2, <4>3
    <3> QED BY <3>2, <3>3
  <2> QED BY <1>2, <1>10, <2>2, <2>3
<1>12. Chain(r)'
  <2>1. Placed(r)' \subseteq run'[r].selected BY <1>1, <1>4, <1>6, <1>8 DEF Chain
  <2> QED BY <1>1, <1>11, <2>1 DEF Chain
<1>13. Layered(r)'
  <2>1. Remaining(r)' = Remaining(r) \ Ready(r) BY <1>1, <1>4 DEF Remaining
  <2>2. \A t \in Remaining(r)' : ~(graph[t] \subseteq Placed(r))
    BY <2>1 DEF Ready, Graph
  <2>3. Before(r, Len(run[r].waves))' = Placed(r)
    <3>1. Before(r, Len(run[r].waves))' = UNION {v[m] : m \in 1..(Len(v) - 1)} BY DEF Before
    <3>2. Placed(r) = UNION {w[m] : m \in 1..Len(w)} BY <1>2 DEF Placed, Before
    <3>3. Len(v) - 1 = Len(w) BY <1>2, <1>4
    <3> QED BY <1>4, <3>1, <3>2, <3>3
  <2>4. \A t \in Remaining(r)' : ~(Graph(r)'[t] \subseteq Before(r, Len(run[r].waves))')
    BY <1>5, <2>2, <2>3
  <2>5. ~HasCycle(Graph(r))' BY <1>5 DEF Layered, HasCycle
  <2> QED BY <1>1, <2>4, <2>5 DEF Layered, Unplanned
<1> QED BY <1>12, <1>13

-----------------------------------------------------------------------------
(* The cursor.                                                             *)

LEMMA NextWave ==
    ASSUME NEW r \in Runs, NEW n \in Nat, n >= 1
    PROVE  Before(r, n + 1) = Before(r, n) \cup run[r].waves[n]
<1>1. 1..n = 1..(n - 1) \cup {n} OBVIOUS
<1>2. Before(r, n + 1) = UNION {run[r].waves[m] : m \in 1..n} BY DEF Before
<1> QED BY <1>1, <1>2 DEF Before

LEMMA NothingBefore == ASSUME NEW r \in Runs PROVE Before(r, 0) = {} /\ Before(r, 1) = {}
BY DEF Before

\* A run that has not begun its waves.
LEMMA EarlyCursor ==
    ASSUME NEW r \in Runs, run'[r] \in LocalState, run'[r].phase \in NotYetRunning,
           run'[r].wave = 0, run'[r].job = NoJobs, run'[r].completed = {}
    PROVE  Cursor(r)' /\ JobsOfWave(r)'
<1>1. Len(run'[r].waves) \in Nat BY DEF LocalState
<1>2. Before(r, run[r].wave)' = {} BY DEF Before
<1>3. Cursor(r)' BY <1>1, <1>2 DEF Cursor, NotYetRunning, InAWave
<1>4. JobsOfWave(r)' BY DEF JobsOfWave, NoJobs
<1> QED BY <1>3, <1>4

\* Only the phase of the run changes.
LEMMA PhaseMoved ==
    ASSUME TypeOK, NEW r \in Runs, Cursor(r), JobsOfWave(r), NEW p \in Phases,
           run'[r] = [run[r] EXCEPT !.phase = p],
           p \notin NotYetRunning \cup {"checking", "charging"},
           p \in InAWave => run[r].phase \in InAWave,
           p = "closing" => run[r].selected \subseteq run[r].completed
    PROVE  Cursor(r)' /\ JobsOfWave(r)'
<1>0. run[r] \in LocalState BY DEF TypeOK, LocalState
<1>1. /\ run'[r].phase = p /\ run'[r].waves = run[r].waves /\ run'[r].wave = run[r].wave
      /\ run'[r].job = run[r].job /\ run'[r].completed = run[r].completed
      /\ run'[r].selected = run[r].selected
  BY <1>0 DEF LocalState
<1>2. Before(r, run[r].wave)' = Before(r, run[r].wave) BY <1>1 DEF Before
<1>3. Cursor(r)' BY <1>1, <1>2 DEF Cursor, InAWave
<1>4. JobsOfWave(r)' BY <1>1, <1>2 DEF JobsOfWave, Wave, InAWave
<1> QED BY <1>3, <1>4

LEMMA FirstWave ==
    ASSUME TypeOK, NEW r \in Runs, Cursor(r), run[r].phase = "opening",
           run'[r] = [run[r] EXCEPT !.phase = "checking", !.wave = 1]
    PROVE  Cursor(r)' /\ JobsOfWave(r)'
<1>0. run[r] \in LocalState BY DEF TypeOK, LocalState
<1>1. /\ run'[r].phase = "checking" /\ run'[r].waves = run[r].waves /\ run'[r].wave = 1
      /\ run'[r].job = NoJobs /\ run'[r].completed = {}
  BY <1>0 DEF LocalState, Cursor, NotYetRunning
<1>2. Before(r, run[r].wave)' = {} BY <1>1 DEF Before
<1>3. Len(run[r].waves) \in Nat BY <1>0 DEF LocalState
<1>4. Cursor(r)' BY <1>1, <1>2, <1>3 DEF Cursor, NotYetRunning, InAWave
<1>5. JobsOfWave(r)' BY <1>1 DEF JobsOfWave, NoJobs
<1> QED BY <1>4, <1>5

LEMMA JobsQueued ==
    ASSUME TypeOK, NEW r \in Runs, Cursor(r), run[r].phase = "checking",
           run[r].wave <= Len(run[r].waves),
           run'[r] = [run[r] EXCEPT !.phase = "dispatching", !.highWater = agentRuns,
                        !.job = [t \in Tasks |-> IF t \in Wave(r) THEN "queued" ELSE "none"]]
    PROVE  Cursor(r)' /\ JobsOfWave(r)'
<1>0. run[r] \in LocalState BY DEF TypeOK, LocalState
<1>1. /\ run'[r].phase = "dispatching" /\ run'[r].waves = run[r].waves
      /\ run'[r].wave = run[r].wave /\ run'[r].completed = run[r].completed
      /\ run'[r].job = [t \in Tasks |-> IF t \in Wave(r) THEN "queued" ELSE "none"]
  BY <1>0 DEF LocalState
<1>2. Before(r, run[r].wave)' = Before(r, run[r].wave) /\ Wave(r)' = Wave(r)
  BY <1>1 DEF Before, Wave
<1>3. Cursor(r)' BY <1>1, <1>2 DEF Cursor, NotYetRunning, InAWave
<1>4. run[r].wave \in DOMAIN run[r].waves
  BY <1>0 DEF LocalState, Cursor
<1>5. JobsOfWave(r)' BY <1>0, <1>1, <1>2, <1>4 DEF JobsOfWave, Wave, InAWave, LocalState
<1> QED BY <1>3, <1>5

\* A job of the wave goes on.
LEMMA JobMoved ==
    ASSUME TypeOK, NEW r \in Runs, Cursor(r), JobsOfWave(r), NEW t \in Tasks,
           run[r].job[t] # "none", NEW stage \in JobStages,
           run[r].phase \in {"dispatching", "merging"},
           run'[r] = [run[r] EXCEPT !.job = [run[r].job EXCEPT ![t] = stage]]
    PROVE  Cursor(r)' /\ JobsOfWave(r)'
<1>0. run[r] \in LocalState BY DEF TypeOK, LocalState
<1>1. /\ run'[r].phase = run[r].phase /\ run'[r].waves = run[r].waves
      /\ run'[r].wave = run[r].wave /\ run'[r].completed = run[r].completed
      /\ \A u \in Tasks : run'[r].job[u] # "none" => run[r].job[u] # "none"
  BY <1>0 DEF LocalState
<1>2. Before(r, run[r].wave)' = Before(r, run[r].wave) /\ Wave(r)' = Wave(r)
  BY <1>1 DEF Before, Wave
<1>3. Cursor(r)' BY <1>1, <1>2 DEF Cursor, NotYetRunning, InAWave
<1>4. JobsOfWave(r)' BY <1>1, <1>2 DEF JobsOfWave, InAWave
<1> QED BY <1>3, <1>4

LEMMA ResultsRead ==
    ASSUME TypeOK, NEW r \in Runs, Cursor(r), JobsOfWave(r), run[r].phase = "reading",
           NEW c, NEW D, run'[r] = [run[r] EXCEPT !.phase = "charging", !.cost = c,
             !.failed = Wave(r) \ D, !.completed = run[r].completed \cup D]
    PROVE  Cursor(r)' /\ JobsOfWave(r)'
<1>0. run[r] \in LocalState BY DEF TypeOK, LocalState
<1>1. /\ run'[r].phase = "charging" /\ run'[r].waves = run[r].waves
      /\ run'[r].wave = run[r].wave /\ run'[r].job = run[r].job
      /\ run'[r].failed = Wave(r) \ D /\ run'[r].completed = run[r].completed \cup D
  BY <1>0 DEF LocalState
<1>2. Before(r, run[r].wave)' = Before(r, run[r].wave) /\ Wave(r)' = Wave(r)
  BY <1>1 DEF Before, Wave
<1>3. Cursor(r)' BY <1>1, <1>2 DEF Cursor, NotYetRunning, InAWave
<1>4. JobsOfWave(r)' BY <1>1, <1>2 DEF JobsOfWave, InAWave
<1> QED BY <1>3, <1>4

\* A wave without a failure is completed, and the cursor passes it.
LEMMA WavePassed ==
    ASSUME TypeOK, NEW r \in Runs, Cursor(r), JobsOfWave(r), run[r].phase = "charging",
           run[r].failed = {},
           run'[r] = [run[r] EXCEPT !.phase = "checking", !.wave = run[r].wave + 1]
    PROVE  Cursor(r)' /\ JobsOfWave(r)'
<1>0. run[r] \in LocalState BY DEF TypeOK, LocalState
<1>1. /\ run'[r].phase = "checking" /\ run'[r].waves = run[r].waves
      /\ run'[r].wave = run[r].wave + 1 /\ run'[r].job = run[r].job
      /\ run'[r].completed = run[r].completed
  BY <1>0 DEF LocalState
<1>2. run[r].wave \in Nat /\ run[r].wave >= 1 /\ run[r].wave <= Len(run[r].waves)
  BY <1>0 DEF Cursor, InAWave, LocalState
<1>3. Before(r, run[r].wave)' = Before(r, run[r].wave + 1) BY <1>1 DEF Before
<1>4. Before(r, run[r].wave + 1) = Before(r, run[r].wave) \cup Wave(r)
  BY <1>2, NextWave DEF Wave
<1>5. Cursor(r)' BY <1>1, <1>2, <1>3, <1>4 DEF Cursor, NotYetRunning, InAWave
<1>6. JobsOfWave(r)' BY <1>0, <1>1, <1>2, <1>3, <1>4 DEF JobsOfWave, InAWave, LocalState
<1> QED BY <1>5, <1>6

\* Past the last wave everything selected is completed.
LEMMA PlanCompleted ==
    ASSUME TypeOK, NEW r \in Runs, Chain(r), Cursor(r), run[r].phase = "checking",
           run[r].wave > Len(run[r].waves)
    PROVE  run[r].selected \subseteq run[r].completed
<1>1. run[r].wave = Len(run[r].waves) + 1
  <2>1. run[r] \in LocalState BY DEF TypeOK, LocalState
  <2>2. run[r].wave \in Nat /\ Len(run[r].waves) \in Nat BY <2>1 DEF LocalState
  <2> QED BY <2>2 DEF Cursor
<1>2. Placed(r) \subseteq run[r].completed BY <1>1 DEF Placed, Cursor
<1> QED BY <1>2 DEF Chain, Remaining

-----------------------------------------------------------------------------
(* The steps of a run, and what they leave to the others.                  *)

OwnStep(r) ==
  /\ run' \in [Runs -> LocalState]
  /\ \A s \in Runs : s # r => run'[s] = run[s]
  /\ Local(r)'

LEMMA LeftState ==
    ASSUME TypeOK, NEW r \in Runs, Leave(r), blockedBy' = blockedBy
    PROVE  OwnStep(r)
<1>1. /\ run' \in [Runs -> LocalState] /\ run'[r] = NotStarted
      /\ \A s \in Runs : s # r => run'[s] = run[s]
  BY LeaveFields
<1>2. Chain(r)' /\ Layered(r)' BY <1>1, NoPlan DEF NotStarted
<1>3. Cursor(r)' /\ JobsOfWave(r)'
  BY <1>1, EarlyCursor DEF NotStarted, NotYetRunning
<1> QED BY <1>1, <1>2, <1>3 DEF OwnStep, Local

LEMMA StartState ==
    ASSUME LocalInv, NEW r \in Runs, NEW force \in BOOLEAN, Start(r, force)
    PROVE  OwnStep(r)
<1> DEFINE repo == RepoGiven \/ Pending(force) # {}
<1>1. repo \in BOOLEAN BY InitiativeAssumption
<1>2. run' = [run EXCEPT ![r] = [NotStarted EXCEPT !.phase = "locking", !.force = force,
                                                  !.repo = repo]]
  BY DEF Start
<1> HIDE DEF repo
<1>3. /\ run' \in [Runs -> LocalState]
      /\ run'[r] = [NotStarted EXCEPT !.phase = "locking", !.force = force, !.repo = repo]
      /\ \A s \in Runs : s # r => run'[s] = run[s]
  BY <1>1, <1>2, StartFields DEF LocalInv
<1>4. /\ run'[r].phase = "locking" /\ run'[r].waves = <<>> /\ run'[r].selected = {}
      /\ run'[r].wave = 0 /\ run'[r].job = NoJobs /\ run'[r].completed = {}
  BY <1>3 DEF NotStarted
<1>5. Chain(r)' /\ Layered(r)' BY <1>4, NoPlan
<1>6. Cursor(r)' /\ JobsOfWave(r)' BY <1>3, <1>4, EarlyCursor DEF NotYetRunning
<1> QED BY <1>3, <1>5, <1>6 DEF OwnStep, Local

LEMMA LockState ==
    ASSUME LocalInv, NEW r \in Runs, Lock(r)
    PROVE  OwnStep(r)
<1>1. blockedBy' = blockedBy /\ run[r].phase = "locking" BY DEF Lock, outside
<1>2. CASE Leave(r) BY <1>1, <1>2, LeftState DEF LocalInv
<1>3. CASE GoTo(r, "planning")
  <2>1. /\ run' \in [Runs -> LocalState]
        /\ run'[r] = [run[r] EXCEPT !.phase = "planning"]
        /\ \A s \in Runs : s # r => run'[s] = run[s]
    BY <1>3, GoToFields DEF LocalInv, Phases
  <2>2. run[r] \in LocalState BY DEF LocalInv, TypeOK, LocalState
  <2>3. /\ run'[r].phase = "planning" /\ run'[r].waves = <<>> /\ run'[r].selected = {}
        /\ run'[r].wave = 0 /\ run'[r].job = NoJobs /\ run'[r].completed = {}
    BY <1>1, <2>1, <2>2
       DEF LocalInv, Local, Layered, Unplanned, Cursor, NotYetRunning, LocalState
  <2>4. Chain(r)' /\ Layered(r)' BY <2>3, NoPlan
  <2>5. Cursor(r)' /\ JobsOfWave(r)' BY <2>1, <2>3, EarlyCursor DEF NotYetRunning
  <2> QED BY <2>1, <2>4, <2>5 DEF OwnStep, Local
<1> QED BY <1>2, <1>3 DEF Lock

\* A step that changes the phase alone.
LEMMA GoToState ==
    ASSUME LocalInv, NEW r \in Runs, NEW p \in Phases, GoTo(r, p), blockedBy' = blockedBy,
           run[r].phase = "layering" => Remaining(r) = {},
           p \notin NotYetRunning \cup {"checking", "charging"},
           p \in InAWave => run[r].phase \in InAWave,
           p = "closing" => run[r].selected \subseteq run[r].completed
    PROVE  OwnStep(r)
<1>0. run[r] \in LocalState BY DEF LocalInv, TypeOK, LocalState
<1>1. /\ run' \in [Runs -> LocalState] /\ run'[r] = [run[r] EXCEPT !.phase = p]
      /\ \A s \in Runs : s # r => run'[s] = run[s]
  BY GoToFields DEF LocalInv
<1>2. /\ run'[r].phase = p /\ run'[r].waves = run[r].waves
      /\ run'[r].selected = run[r].selected
  BY <1>0, <1>1 DEF LocalState
<1>3. Chain(r)' /\ Layered(r)'
  BY <1>2, PlanKept DEF LocalInv, Local, Unplanned, NotYetRunning
<1>4. Cursor(r)' /\ JobsOfWave(r)' BY <1>1, PhaseMoved DEF LocalInv, Local
<1> QED BY <1>1, <1>3, <1>4 DEF OwnStep, Local

LEMMA PlanState ==
    ASSUME LocalInv, NEW r \in Runs, Plan(r)
    PROVE  OwnStep(r)
<1> DEFINE S == Pending(run[r].force)
<1>0. run[r] \in LocalState BY DEF LocalInv, TypeOK, LocalState
<1>1. /\ blockedBy' = blockedBy /\ run[r].phase = "planning" /\ S \in SUBSET Tasks
      /\ DOMAIN DependencyGraph(S) = S
  BY DEF Plan, outside, Pending, DependencyGraph
<1> HIDE DEF S
<1>2. CASE Leave(r) BY <1>1, <1>2, LeftState DEF LocalInv
<1>3. CASE GoTo(r, "closing")
  <2>1. run[r].selected = {} BY <1>1 DEF LocalInv, Local, Layered, Unplanned
  <2> QED BY <1>1, <1>3, <2>1, GoToState DEF Phases, NotYetRunning, InAWave
<1>4. CASE /\ ~HasCycle(DependencyGraph(S))
           /\ run' = [run EXCEPT ![r].phase = "layering", ![r].selected = S]
  <2>1. /\ run' \in [Runs -> LocalState]
        /\ run'[r] = [run[r] EXCEPT !.phase = "layering", !.selected = S]
        /\ \A s \in Runs : s # r => run'[s] = run[s]
    BY <1>1, <1>4, PlanFields DEF LocalInv
  <2>2. Chain(r)' /\ Layered(r)' BY <1>1, <1>4, <2>1, Planned DEF LocalInv, Local
  <2>3. /\ run'[r].phase = "layering" /\ run'[r].wave = 0 /\ run'[r].job = NoJobs
        /\ run'[r].completed = {}
    BY <1>0, <1>1, <2>1 DEF LocalState, LocalInv, Local, Cursor, NotYetRunning
  <2>4. Cursor(r)' /\ JobsOfWave(r)' BY <2>1, <2>3, EarlyCursor DEF NotYetRunning
  <2> QED BY <2>1, <2>2, <2>4 DEF OwnStep, Local
<1> QED BY <1>1, <1>2, <1>3, <1>4 DEF Plan, S

LEMMA PlaceWaveState ==
    ASSUME LocalInv, NEW r \in Runs, PlaceWave(r)
    PROVE  OwnStep(r)
<1>0. run[r] \in LocalState BY DEF LocalInv, TypeOK, LocalState
<1>1. blockedBy' = blockedBy /\ run[r].phase = "layering" BY DEF PlaceWave, outside
<1>2. CASE Leave(r) BY <1>1, <1>2, LeftState DEF LocalInv
<1>3. CASE GoTo(r, "opening") /\ Remaining(r) = {}
  <2>1. /\ run' \in [Runs -> LocalState] /\ run'[r] = [run[r] EXCEPT !.phase = "opening"]
        /\ \A s \in Runs : s # r => run'[s] = run[s]
    BY <1>3, GoToFields DEF LocalInv, Phases
  <2>2. /\ run'[r].phase = "opening" /\ run'[r].wave = 0 /\ run'[r].job = NoJobs
        /\ run'[r].completed = {} /\ run'[r].waves = run[r].waves
        /\ run'[r].selected = run[r].selected
    BY <1>0, <1>1, <2>1 DEF LocalState, LocalInv, Local, Cursor, NotYetRunning
  <2>3. Chain(r)' /\ Layered(r)'
    BY <1>1, <1>3, <2>2, PlanKept DEF LocalInv, Local, Unplanned
  <2>4. Cursor(r)' /\ JobsOfWave(r)' BY <2>1, <2>2, EarlyCursor DEF NotYetRunning
  <2> QED BY <2>1, <2>3, <2>4 DEF OwnStep, Local
<1>4. CASE run' = [run EXCEPT ![r].waves = Append(@, Ready(r))]
  <2>0. Ready(r) \in SUBSET Tasks BY <1>0 DEF Ready, Remaining, LocalState
  <2>1. /\ run' \in [Runs -> LocalState]
        /\ run'[r] = [run[r] EXCEPT !.waves = Append(run[r].waves, Ready(r))]
        /\ \A s \in Runs : s # r => run'[s] = run[s]
    BY <1>4, <2>0, AppendFields DEF LocalInv
  <2>2. Chain(r)' /\ Layered(r)' BY <1>1, <2>1, LayerPlaced DEF LocalInv, Local
  <2>3. /\ run'[r].phase = "layering" /\ run'[r].wave = 0 /\ run'[r].job = NoJobs
        /\ run'[r].completed = {}
    BY <1>0, <1>1, <2>1 DEF LocalState, LocalInv, Local, Cursor, NotYetRunning
  <2>4. Cursor(r)' /\ JobsOfWave(r)' BY <2>1, <2>3, EarlyCursor DEF NotYetRunning
  <2> QED BY <2>1, <2>2, <2>4 DEF OwnStep, Local
<1> QED BY <1>2, <1>3, <1>4 DEF PlaceWave

LEMMA MarkInProgressState ==
    ASSUME LocalInv, NEW r \in Runs, MarkInProgress(r)
    PROVE  OwnStep(r)
<1>0. run[r] \in LocalState BY DEF LocalInv, TypeOK, LocalState
<1>1. /\ blockedBy' = blockedBy /\ run[r].phase = "opening"
      /\ run' = [run EXCEPT ![r].phase = "checking", ![r].wave = 1]
  BY DEF MarkInProgress, outside
<1>2. /\ run' \in [Runs -> LocalState]
      /\ run'[r] = [run[r] EXCEPT !.phase = "checking", !.wave = 1]
      /\ \A s \in Runs : s # r => run'[s] = run[s]
  BY <1>1, WaveFields DEF LocalInv
<1>3. /\ run'[r].phase = "checking" /\ run'[r].waves = run[r].waves
      /\ run'[r].selected = run[r].selected
  BY <1>0, <1>2 DEF LocalState
<1>4. Chain(r)' /\ Layered(r)' BY <1>1, <1>3, PlanKept DEF LocalInv, Local, Unplanned
<1>5. Cursor(r)' /\ JobsOfWave(r)' BY <1>1, <1>2, FirstWave DEF LocalInv, Local
<1> QED BY <1>2, <1>4, <1>5 DEF OwnStep, Local

LEMMA BeginWaveState ==
    ASSUME LocalInv, NEW r \in Runs, NEW marker \in BOOLEAN, BeginWave(r, marker)
    PROVE  OwnStep(r)
<1> DEFINE queue == [t \in Tasks |-> IF t \in Wave(r) THEN "queued" ELSE "none"]
<1>0. run[r] \in LocalState BY DEF LocalInv, TypeOK, LocalState
<1>1. blockedBy' = blockedBy /\ run[r].phase = "checking" BY DEF BeginWave, outside
<1>2. CASE run[r].wave > Len(run[r].waves) /\ GoTo(r, "closing")
  <2>1. run[r].selected \subseteq run[r].completed
    BY <1>1, <1>2, PlanCompleted DEF LocalInv, Local
  <2> QED BY <1>1, <1>2, <2>1, GoToState DEF Phases, NotYetRunning, InAWave
<1>3. CASE GoTo(r, "halting")
  BY <1>1, <1>3, GoToState DEF Phases, NotYetRunning, InAWave
<1>4. CASE /\ run[r].wave <= Len(run[r].waves)
           /\ run' = [run EXCEPT ![r].phase = "dispatching", ![r].highWater = agentRuns,
                                 ![r].job = queue]
  <2>0. queue \in [Tasks -> JobStages] BY DEF JobStages
  <2> HIDE DEF queue
  <2>1. /\ run' \in [Runs -> LocalState]
        /\ run'[r] = [run[r] EXCEPT !.phase = "dispatching", !.highWater = agentRuns,
                                    !.job = queue]
        /\ \A s \in Runs : s # r => run'[s] = run[s]
    BY <1>4, <2>0, DispatchFields DEF LocalInv
  <2>2. /\ run'[r].phase = "dispatching" /\ run'[r].waves = run[r].waves
        /\ run'[r].selected = run[r].selected
    BY <1>0, <2>1 DEF LocalState
  <2>3. Chain(r)' /\ Layered(r)' BY <1>1, <2>2, PlanKept DEF LocalInv, Local, Unplanned
  <2>4. Cursor(r)' /\ JobsOfWave(r)'
    BY <1>1, <1>4, <2>1, JobsQueued DEF LocalInv, Local, queue
  <2> QED BY <2>1, <2>3, <2>4 DEF OwnStep, Local
<1> QED BY <1>2, <1>3, <1>4 DEF BeginWave

\* A task of the wave is started, ends or is merged.
LEMMA JobState ==
    ASSUME LocalInv, NEW r \in Runs, NEW t \in Tasks, NEW stage \in JobStages,
           blockedBy' = blockedBy, run[r].job[t] # "none",
           run[r].phase \in {"dispatching", "merging"},
           run' = [run EXCEPT ![r].job[t] = stage]
    PROVE  OwnStep(r)
<1>0. run[r] \in LocalState BY DEF LocalInv, TypeOK, LocalState
<1>1. /\ run' \in [Runs -> LocalState]
      /\ run'[r] = [run[r] EXCEPT !.job = [run[r].job EXCEPT ![t] = stage]]
      /\ \A s \in Runs : s # r => run'[s] = run[s]
  BY JobFields DEF LocalInv
<1>2. /\ run'[r].phase = run[r].phase /\ run'[r].waves = run[r].waves
      /\ run'[r].selected = run[r].selected
  BY <1>0, <1>1 DEF LocalState
<1>3. Chain(r)' /\ Layered(r)' BY <1>2, PlanKept DEF LocalInv, Local, Unplanned
<1>4. Cursor(r)' /\ JobsOfWave(r)' BY <1>1, JobMoved DEF LocalInv, Local
<1> QED BY <1>1, <1>3, <1>4 DEF OwnStep, Local

LEMMA CostIsNoDebt ==
    ASSUME TypeOK, NEW r \in Runs, MarksAreOld(r)
    PROVE  WaveCost(r) \in [Tasks -> Nat]
<1>1. run[r] \in LocalState BY DEF TypeOK, LocalState
<1>2. ASSUME NEW t \in Tasks PROVE agentRuns[t] - run[r].highWater[t] \in Nat
  BY <1>1 DEF TypeOK, LocalState, MarksAreOld
<1> QED BY <1>2 DEF WaveCost

LEMMA ReadBackState ==
    ASSUME LocalInv, NEW r \in Runs, NEW violations \in SUBSET Tasks, ReadBack(r, violations)
    PROVE  OwnStep(r)
<1>0. run[r] \in LocalState BY DEF LocalInv, TypeOK, LocalState
<1>1. /\ blockedBy' = blockedBy /\ run[r].phase = "reading"
      /\ run' = [run EXCEPT ![r].phase = "charging", ![r].cost = WaveCost(r),
                            ![r].failed = Wave(r) \ Succeeded(r, violations),
                            ![r].completed = @ \cup Succeeded(r, violations)]
  BY DEF ReadBack, outside
<1>2. Wave(r) \in SUBSET Tasks
  <2>1. run[r].wave \in DOMAIN run[r].waves
    BY <1>0, <1>1 DEF LocalInv, Local, Cursor, InAWave, LocalState
  <2> QED BY <1>0, <2>1 DEF Wave, LocalState
<1>3. Succeeded(r, violations) \in SUBSET Tasks /\ Wave(r) \ Succeeded(r, violations) \in SUBSET Tasks
  BY <1>2 DEF Succeeded
<1>4. /\ run' \in [Runs -> LocalState]
      /\ run'[r] = [run[r] EXCEPT !.phase = "charging", !.cost = WaveCost(r),
                                  !.failed = Wave(r) \ Succeeded(r, violations),
                                  !.completed = run[r].completed \cup Succeeded(r, violations)]
      /\ \A s \in Runs : s # r => run'[s] = run[s]
  BY <1>1, <1>3, CostIsNoDebt, ResultFields DEF LocalInv
<1>5. /\ run'[r].phase = "charging" /\ run'[r].waves = run[r].waves
      /\ run'[r].selected = run[r].selected
  BY <1>0, <1>4 DEF LocalState
<1>6. Chain(r)' /\ Layered(r)' BY <1>1, <1>5, PlanKept DEF LocalInv, Local, Unplanned
<1>7. Cursor(r)' /\ JobsOfWave(r)' BY <1>1, <1>4, ResultsRead DEF LocalInv, Local
<1> QED BY <1>4, <1>6, <1>7 DEF OwnStep, Local

LEMMA AddCostState ==
    ASSUME LocalInv, NEW r \in Runs, AddCost(r)
    PROVE  OwnStep(r)
<1>0. run[r] \in LocalState BY DEF LocalInv, TypeOK, LocalState
<1>1. blockedBy' = blockedBy /\ run[r].phase = "charging" BY DEF AddCost, outside
<1>2. CASE run[r].failed = {}
  <2>0. run[r].wave + 1 \in Nat BY <1>0 DEF LocalState
  <2>1. run' = [run EXCEPT ![r].phase = "checking", ![r].wave = run[r].wave + 1]
    BY <1>2, Zenon DEF AddCost, LocalInv, TypeOK
  <2>2. /\ run' \in [Runs -> LocalState]
        /\ run'[r] = [run[r] EXCEPT !.phase = "checking", !.wave = run[r].wave + 1]
        /\ \A s \in Runs : s # r => run'[s] = run[s]
    BY <2>0, <2>1, WaveFields DEF LocalInv
  <2>3. /\ run'[r].phase = "checking" /\ run'[r].waves = run[r].waves
        /\ run'[r].selected = run[r].selected
    BY <1>0, <2>2 DEF LocalState
  <2>4. Chain(r)' /\ Layered(r)' BY <1>1, <2>3, PlanKept DEF LocalInv, Local, Unplanned
  <2>5. Cursor(r)' /\ JobsOfWave(r)' BY <1>1, <1>2, <2>2, WavePassed DEF LocalInv, Local
  <2> QED BY <2>2, <2>4, <2>5 DEF OwnStep, Local
<1>3. CASE run[r].failed # {}
  <2>1. GoTo(r, "failing") BY <1>3 DEF AddCost, GoTo
  <2> QED BY <1>1, <2>1, GoToState DEF Phases, NotYetRunning, InAWave
<1> QED BY <1>2, <1>3

LEMMA StepState ==
    ASSUME LocalInv, NEW r \in Runs,
           Step(r) \/ Crash(r) \/ \E force \in BOOLEAN : Start(r, force)
    PROVE  OwnStep(r)
<1>1. CASE Lock(r) BY <1>1, LockState
<1>2. CASE Plan(r) BY <1>2, PlanState
<1>3. CASE PlaceWave(r) BY <1>3, PlaceWaveState
<1>4. CASE MarkInProgress(r) BY <1>4, MarkInProgressState
<1>5. CASE \E marker \in BOOLEAN : BeginWave(r, marker) BY <1>5, BeginWaveState
<1>6. CASE RefuseWave(r)
  BY <1>6, GoToState DEF RefuseWave, outside, Phases, NotYetRunning, InAWave
<1>7. ASSUME NEW t \in Tasks, StartTask(r, t) PROVE OwnStep(r)
  BY <1>7, JobState DEF StartTask, JobStages
<1>8. ASSUME NEW t \in Tasks, NEW stage \in JobStages, EndTask(r, t, stage) PROVE OwnStep(r)
  BY <1>8, JobState DEF EndTask, outside
<1>9. CASE Gather(r)
  BY <1>9, GoToState DEF Gather, outside, Phases, NotYetRunning, InAWave
<1>10. ASSUME NEW t \in Tasks, MergeTask(r, t) PROVE OwnStep(r)
  BY <1>10, JobState DEF MergeTask, JobStages
<1>11. CASE EndDispatch(r)
  BY <1>11, GoToState DEF EndDispatch, outside, Phases, NotYetRunning, InAWave
<1>12. ASSUME NEW violations \in SUBSET Tasks, ReadBack(r, violations) PROVE OwnStep(r)
  BY <1>12, ReadBackState
<1>13. CASE AddCost(r) BY <1>13, AddCostState
<1>14. CASE MarkPaused(r) \/ MarkDone(r) \/ Crash(r)
  BY <1>14, LeftState DEF MarkPaused, MarkDone, Crash, outside, LocalInv
<1>15. CASE \E force \in BOOLEAN : Start(r, force) BY <1>15, StartState
<1> QED BY <1>1, <1>2, <1>3, <1>4, <1>5, <1>6, <1>7, <1>8, <1>9, <1>10, <1>11, <1>12, <1>13,
           <1>14, <1>15 DEF Step

\* Another run's plan and cursor are out of reach.
LEMMA OtherState ==
    ASSUME NEW s \in Runs, Local(s), run'[s] = run[s], blockedBy' = blockedBy
    PROVE  Local(s)'
<1>1. /\ \A n : Before(s, n)' = Before(s, n)
      /\ Placed(s)' = Placed(s) /\ Remaining(s)' = Remaining(s) /\ Graph(s)' = Graph(s)
  BY SamePlan
<1>2. Wave(s)' = Wave(s) BY DEF Wave
<1>3. Chain(s)' BY <1>1 DEF Local, Chain
<1>4. Layered(s)' BY <1>1 DEF Local, Layered
<1>5. Cursor(s)' BY <1>1, <1>2 DEF Local, Cursor
<1>6. JobsOfWave(s)' BY <1>1, <1>2 DEF Local, JobsOfWave
<1> QED BY <1>3, <1>4, <1>5, <1>6 DEF Local

-----------------------------------------------------------------------------
(* The rows.                                                               *)

RowsType ==
  /\ blockedBy \in Graphs
  /\ initiative \in InitiativeStatuses
  /\ taskStatus \in [Tasks -> TaskStatuses]
  /\ agentRuns \in [Tasks -> Nat] /\ totalCost \in [Tasks -> Nat]
  /\ branches \subseteq Tasks
  /\ lock \in Runs \cup {"free"}
  /\ starts \in 0..MaxStarts /\ edits \in 0..MaxEdits

\* The graph is given, and an agent's row of cost stays.
RowsOnlyGrow ==
  /\ blockedBy' = blockedBy
  /\ \A t \in Tasks : agentRuns[t] <= agentRuns'[t]

LEMMA RowsStep == ASSUME TypeOK, Next PROVE RowsType' /\ RowsOnlyGrow
<1>1. ASSUME NEW r \in Runs, Step(r) PROVE RowsType' /\ RowsOnlyGrow
  <2>1. CASE Lock(r) \/ Plan(r) \/ PlaceWave(r)
    BY <2>1 DEF Lock, Plan, PlaceWave, Leave, database, outside, TypeOK, RowsType, RowsOnlyGrow
  <2>2. CASE \/ MarkInProgress(r) \/ \E marker \in BOOLEAN : BeginWave(r, marker)
             \/ RefuseWave(r) \/ Gather(r) \/ EndDispatch(r)
    BY <2>2 DEF MarkInProgress, BeginWave, RefuseWave, Gather, EndDispatch,
       database, outside, TypeOK, RowsType, RowsOnlyGrow, InitiativeStatuses
  <2>3. ASSUME NEW t \in Tasks, StartTask(r, t) PROVE RowsType' /\ RowsOnlyGrow
    BY <2>3 DEF StartTask, TypeOK, RowsType, RowsOnlyGrow, TaskStatuses
  <2>4. ASSUME NEW t \in Tasks, NEW stage \in JobStages, EndTask(r, t, stage)
        PROVE  RowsType' /\ RowsOnlyGrow
    <3>1. taskStatus' \in [Tasks -> TaskStatuses]
      BY <2>4 DEF EndTask, TypeOK, TaskStatuses
    <3>2. agentRuns' \in [Tasks -> Nat] /\ \A u \in Tasks : agentRuns[u] <= agentRuns'[u]
      BY <2>4 DEF EndTask, TypeOK
    <3> QED BY <2>4, <3>1, <3>2 DEF EndTask, outside, TypeOK, RowsType, RowsOnlyGrow
  <2>5. ASSUME NEW t \in Tasks, MergeTask(r, t) PROVE RowsType' /\ RowsOnlyGrow
    <3>1. taskStatus' \in [Tasks -> TaskStatuses]
      BY <2>5 DEF MergeTask, TypeOK, TaskStatuses
    <3>2. branches' \subseteq Tasks BY <2>5 DEF MergeTask, TypeOK
    <3> QED BY <2>5, <3>1, <3>2 DEF MergeTask, TypeOK, RowsType, RowsOnlyGrow
  <2>6. CASE AddCost(r)
    <3>1. run[r].cost \in [Tasks -> Nat] BY DEF TypeOK
    <3>2. totalCost' \in [Tasks -> Nat] BY <2>6, <3>1 DEF AddCost, Charge, TypeOK
    <3> QED BY <2>6, <3>2 DEF AddCost, outside, TypeOK, RowsType, RowsOnlyGrow
  <2>7. CASE MarkPaused(r) \/ MarkDone(r)
    BY <2>7 DEF MarkPaused, MarkDone, Leave, outside, TypeOK, RowsType, RowsOnlyGrow,
       InitiativeStatuses
  <2>8. ASSUME NEW violations \in SUBSET Tasks, ReadBack(r, violations)
        PROVE  RowsType' /\ RowsOnlyGrow
    BY <2>8 DEF ReadBack, database, outside, TypeOK, RowsType, RowsOnlyGrow
  <2> QED BY <1>1, <2>1, <2>2, <2>3, <2>4, <2>5, <2>6, <2>7, <2>8 DEF Step
<1>2. ASSUME NEW r \in Runs, Crash(r) \/ \E force \in BOOLEAN : Start(r, force)
      PROVE  RowsType' /\ RowsOnlyGrow
  <2>1. CASE Crash(r)
    BY <2>1 DEF Crash, Leave, database, outside, TypeOK, RowsType, RowsOnlyGrow
  <2>2. ASSUME NEW force \in BOOLEAN, Start(r, force) PROVE RowsType' /\ RowsOnlyGrow
    <3>1. starts' \in 0..MaxStarts BY <2>2, InitiativeAssumption DEF Start, TypeOK
    <3> QED BY <2>2, <3>1 DEF Start, database, TypeOK, RowsType, RowsOnlyGrow
  <2> QED BY <1>2, <2>1, <2>2
<1>3. CASE Operator
  <2>1. edits' \in 0..MaxEdits
    BY <1>3, InitiativeAssumption DEF Operator, CancelInitiative, EditTask, TypeOK
  <2>2. CASE CancelInitiative
    BY <2>1, <2>2 DEF CancelInitiative, TypeOK, RowsType, RowsOnlyGrow, InitiativeStatuses
  <2>3. ASSUME NEW t \in Tasks, NEW status \in {"todo", "cancelled"}, EditTask(t, status)
        PROVE  RowsType' /\ RowsOnlyGrow
    <3>1. taskStatus' \in [Tasks -> TaskStatuses]
      BY <2>3 DEF EditTask, TypeOK, TaskStatuses
    <3> QED BY <2>1, <2>3, <3>1 DEF EditTask, TypeOK, RowsType, RowsOnlyGrow
  <2> QED BY <1>3, <2>2, <2>3 DEF Operator
<1> QED BY <1>1, <1>2, <1>3 DEF Next

\* A run takes its marks when a wave begins.
LEMMA MarksOfRun ==
    ASSUME TypeOK, NEW r \in Runs,
           Step(r) \/ Crash(r) \/ \E force \in BOOLEAN : Start(r, force)
    PROVE  run'[r].highWater \in {run[r].highWater, agentRuns, NoRows}
<1>0. run[r] \in LocalState BY DEF TypeOK, LocalState
<1>1. ASSUME NEW p, GoTo(r, p) PROVE run'[r].highWater = run[r].highWater
  BY <1>0, <1>1 DEF GoTo, TypeOK, LocalState
<1>2. ASSUME Leave(r) PROVE run'[r].highWater = NoRows
  BY <1>2, LeaveFields DEF NotStarted
<1>3. CASE \/ Lock(r) \/ RefuseWave(r) \/ Gather(r) \/ EndDispatch(r) \/ MarkPaused(r)
           \/ MarkDone(r) \/ Crash(r)
  BY <1>1, <1>2, <1>3 DEF Lock, RefuseWave, Gather, EndDispatch, MarkPaused, MarkDone, Crash
<1>4. CASE Plan(r) BY <1>0, <1>1, <1>2, <1>4 DEF Plan, TypeOK, LocalState
<1>5. CASE PlaceWave(r) BY <1>0, <1>1, <1>2, <1>5 DEF PlaceWave, TypeOK, LocalState
<1>6. CASE MarkInProgress(r) BY <1>0, <1>6 DEF MarkInProgress, TypeOK, LocalState
<1>7. CASE \E marker \in BOOLEAN : BeginWave(r, marker)
  BY <1>0, <1>1, <1>7 DEF BeginWave, TypeOK, LocalState
<1>8. CASE \E t \in Tasks : StartTask(r, t) \/ MergeTask(r, t)
  BY <1>0, <1>8 DEF StartTask, MergeTask, TypeOK, LocalState
<1>9. CASE \E t \in Tasks, stage \in JobStages : EndTask(r, t, stage)
  BY <1>0, <1>9 DEF EndTask, TypeOK, LocalState
<1>10. CASE \E violations \in SUBSET Tasks : ReadBack(r, violations)
  BY <1>0, <1>10 DEF ReadBack, TypeOK, LocalState
<1>11. CASE AddCost(r) BY <1>0, <1>11 DEF AddCost, TypeOK, LocalState
<1>12. ASSUME NEW force \in BOOLEAN, Start(r, force) PROVE run'[r].highWater = NoRows
  <2> DEFINE repo == RepoGiven \/ Pending(force) # {}
             l == [NotStarted EXCEPT !.phase = "locking", !.force = force, !.repo = repo]
  <2>1. run' = [run EXCEPT ![r] = l] BY <1>12 DEF Start
  <2> HIDE DEF repo
  <2>2. l.highWater = NoRows BY DEF NotStarted
  <2> HIDE DEF l
  <2> QED BY <2>1, <2>2 DEF TypeOK
<1> QED BY <1>3, <1>4, <1>5, <1>6, <1>7, <1>8, <1>9, <1>10, <1>11, <1>12 DEF Step

LEMMA LocalInitially == ASSUME Init PROVE LocalInv
<1>1. \A r \in Runs : run[r] = NotStarted BY DEF Init
<1>2. TypeOK
  <2>1. run \in [Runs -> LocalState] BY NotStartedType DEF Init
  <2> QED BY <2>1, InitiativeAssumption
          DEF Init, TypeOK, LocalState, InitiativeStatuses, TaskStatuses, NoRows
<1>3. ASSUME NEW r \in Runs PROVE Local(r)
  <2>1. \A n \in Int : n <= 1 => Before(r, n) = {} BY DEF Before
  <2>2. Placed(r) = {} /\ Remaining(r) = {}
    BY <1>1, <2>1 DEF Placed, Remaining, NotStarted
  <2>3. Chain(r) BY <1>1, <2>2 DEF Chain, NotStarted
  <2>4. Layered(r) BY <1>1, <2>2 DEF Layered, NotStarted
  <2>5. Cursor(r) BY <1>1, <2>1 DEF Cursor, NotStarted, NotYetRunning, InAWave
  <2>6. JobsOfWave(r) BY <1>1 DEF JobsOfWave, NotStarted, NoJobs
  <2> QED BY <2>3, <2>4, <2>5, <2>6 DEF Local
<1>4. ASSUME NEW r \in Runs PROVE MarksAreOld(r)
  <2>1. run[r].highWater = agentRuns BY <1>1 DEF Init, NotStarted
  <2>2. \A t \in Tasks : agentRuns[t] \in Nat BY <1>2 DEF TypeOK
  <2>3. ASSUME NEW t \in Tasks PROVE run[r].highWater[t] <= agentRuns[t]
    <3>1. agentRuns[t] \in Nat /\ run[r].highWater[t] = agentRuns[t] BY <2>1, <2>2
    <3> QED BY <3>1
  <2> QED BY <2>1, <2>3 DEF MarksAreOld
<1> QED BY <1>2, <1>3, <1>4 DEF LocalInv

LEMMA LocalStep == ASSUME LocalInv, [Next]_vars PROVE LocalInv'
<1>1. CASE UNCHANGED vars
  <2>1. blockedBy' = blockedBy /\ run' = run BY <1>1 DEF vars
  <2>2. \A s \in Runs : Local(s)' BY <2>1, OtherState DEF LocalInv
  <2>3. TypeOK' BY <1>1 DEF vars, TypeOK, LocalInv
  <2>4. \A s \in Runs : MarksAreOld(s)' BY <1>1 DEF vars, MarksAreOld, LocalInv
  <2> QED BY <2>2, <2>3, <2>4 DEF LocalInv
<1>2. ASSUME Next, NEW r \in Runs,
             Step(r) \/ Crash(r) \/ \E force \in BOOLEAN : Start(r, force)
      PROVE  LocalInv'
  <2>1. OwnStep(r) BY <1>2, StepState
  <2>2. RowsType' /\ RowsOnlyGrow BY <1>2, RowsStep DEF LocalInv
  <2>3. TypeOK' BY <2>1, <2>2 DEF TypeOK, RowsType, OwnStep, LocalState
  <2>4. ASSUME NEW s \in Runs PROVE Local(s)'
    BY <2>1, <2>2, OtherState DEF OwnStep, RowsOnlyGrow, LocalInv
  <2>5. ASSUME NEW s \in Runs PROVE MarksAreOld(s)'
    <3>1. run'[s].highWater \in {run[s].highWater, agentRuns, NoRows}
      BY <1>2, <2>1, MarksOfRun DEF OwnStep, LocalInv
    <3>2. run[s].highWater \in [Tasks -> Nat] /\ agentRuns \in [Tasks -> Nat]
          /\ agentRuns' \in [Tasks -> Nat]
      BY <2>3 DEF LocalInv, TypeOK
    <3> QED BY <2>2, <3>1, <3>2 DEF LocalInv, MarksAreOld, RowsOnlyGrow, NoRows
  <2> QED BY <2>3, <2>4, <2>5 DEF LocalInv
<1>3. ASSUME Next, Operator PROVE LocalInv'
  <2>1. run' = run /\ agentRuns' = agentRuns
    BY <1>3 DEF Operator, CancelInitiative, EditTask
  <2>2. RowsType' /\ RowsOnlyGrow BY <1>3, RowsStep DEF LocalInv
  <2>3. TypeOK' BY <2>1, <2>2 DEF TypeOK, RowsType, LocalInv
  <2>4. \A s \in Runs : Local(s)' BY <2>1, <2>2, OtherState DEF RowsOnlyGrow, LocalInv
  <2>5. \A s \in Runs : MarksAreOld(s)' BY <2>1 DEF MarksAreOld, LocalInv
  <2> QED BY <2>3, <2>4, <2>5 DEF LocalInv
<1> QED BY <1>1, <1>2, <1>3 DEF Next

-----------------------------------------------------------------------------
(* What holds of every run by itself.                                      *)

THEOREM LocalInvariant == Spec => []LocalInv
<1>1. Init => LocalInv BY LocalInitially
<1>2. LocalInv /\ [Next]_vars => LocalInv' BY LocalStep
<1> QED BY <1>1, <1>2, PTL DEF Spec

\* The rows keep the values the code writes (mark_paused, mark_done and the statuses
\* of run_parallel_tasks), and a run its shape, whatever the graph and however many
\* processes run side by side.
THEOREM RowsKeepTheirTypes == Spec => []TypeOK
<1>1. LocalInv => TypeOK BY DEF LocalInv
<1> QED BY <1>1, LocalInvariant, PTL

\* compute_waves puts every selected task into the wave its longest chain of
\* dependencies gives, on every graph.
THEOREM WavesAreLayers == Spec => []WaveIsLongestChain
<1>1. LocalInv => WaveIsLongestChain
  BY DEF LocalInv, Local, Chain, WaveIsLongestChain
<1> QED BY <1>1, LocalInvariant, PTL

\* The guard of compute_waves against an empty layer is never needed: what is left
\* of a graph without a cycle always has a task whose dependencies are placed.
LayeringNeverStuck ==
  \A r \in Runs : run[r].phase = "layering" /\ Remaining(r) # {} => Ready(r) # {}

\* compute_waves never meets the graph its second guard raises on.
THEOREM LayersAreFound == Spec => []LayeringNeverStuck
<1>1. LocalInv => LayeringNeverStuck
  BY ReadyIsFound DEF LocalInv, Local, Layered, LayeringNeverStuck
<1> QED BY <1>1, LocalInvariant, PTL

\* A task is given to an agent only after its selected dependencies came back done
\* in earlier waves of the run, for every graph and any interleaving of runs (the
\* loop over the waves in _run_initiative_inner, which stops at the first failure).
THEOREM DependenciesComeFirst == Spec => []WavesInOrder
<1>1. LocalInv => WavesInOrder
  <2> SUFFICES ASSUME LocalInv, NEW r \in Runs, NEW t \in Dispatched(r)
               PROVE  blockedBy[t] \cap run[r].selected \subseteq run[r].completed
    BY DEF WavesInOrder
  <2>1. run[r] \in LocalState /\ Local(r) BY DEF LocalInv, TypeOK, LocalState
  <2>2. PICK m \in DOMAIN run[r].waves : m <= run[r].wave /\ t \in run[r].waves[m]
    BY <2>1 DEF Dispatched, Local, JobsOfWave
  <2>3. blockedBy[t] \cap run[r].selected \subseteq Before(r, m)
    BY <2>1, <2>2 DEF Local, Chain
  <2>4. Before(r, m) \subseteq Before(r, run[r].wave)
    <3>1. m \in Nat /\ run[r].wave \in Nat BY <2>1 DEF LocalState
    <3>2. 1..(m - 1) \subseteq 1..(run[r].wave - 1) BY <2>2, <3>1
    <3> QED BY <3>2 DEF Before
  <2>5. Before(r, run[r].wave) \subseteq run[r].completed BY <2>1 DEF Local, Cursor
  <2> QED BY <2>3, <2>4, <2>5
<1> QED BY <1>1, LocalInvariant, PTL

-----------------------------------------------------------------------------
(* The lock.                                                               *)

LEMMA StartPhase ==
    ASSUME TypeOK, NEW r \in Runs, NEW force \in BOOLEAN, Start(r, force)
    PROVE  run'[r].phase = "locking" /\ (RepoGiven => run'[r].repo)
<1> DEFINE repo == RepoGiven \/ Pending(force) # {}
<1>1. repo \in BOOLEAN BY InitiativeAssumption
<1>2. run' = [run EXCEPT ![r] = [NotStarted EXCEPT !.phase = "locking", !.force = force,
                                                  !.repo = repo]]
  BY DEF Start
<1>3. RepoGiven => repo OBVIOUS
<1> HIDE DEF repo
<1>4. run'[r] = [NotStarted EXCEPT !.phase = "locking", !.force = force, !.repo = repo]
  BY <1>1, <1>2, StartFields
<1>5. run'[r].phase = "locking" /\ run'[r].repo = repo BY <1>4 DEF NotStarted
<1> QED BY <1>3, <1>5

\* Working under the lock as it is, taking it, leaving, or starting.
LEMMA LockOfRun ==
    ASSUME TypeOK, NEW r \in Runs,
           Step(r) \/ Crash(r) \/ \E force \in BOOLEAN : Start(r, force)
    PROVE  \/ /\ AtWork(r) /\ AtWork(r)' /\ run'[r].repo = run[r].repo /\ lock' = lock
           \/ Leave(r)
           \/ /\ run[r].phase = "locking" /\ run'[r].phase = "planning"
              /\ run'[r].repo = run[r].repo
              /\ IF run[r].repo THEN lock = "free" /\ lock' = r ELSE lock' = lock
           \/ /\ run[r].phase = "idle" /\ run'[r].phase = "locking"
              /\ RepoGiven => run'[r].repo
              /\ lock' = lock
<1>0. run[r] \in LocalState BY DEF TypeOK, LocalState
<1>1. ASSUME NEW p, GoTo(r, p) PROVE run'[r].phase = p /\ run'[r].repo = run[r].repo
  BY <1>0, <1>1 DEF GoTo, TypeOK, LocalState
<1>2. CASE Lock(r) BY <1>1, <1>2 DEF Lock
<1>3. CASE RefuseWave(r) \/ Gather(r) \/ EndDispatch(r)
  BY <1>1, <1>3 DEF RefuseWave, Gather, EndDispatch, AtWork
<1>4. CASE MarkPaused(r) \/ MarkDone(r) \/ Crash(r)
  BY <1>4 DEF MarkPaused, MarkDone, Crash
<1>5. CASE Plan(r) BY <1>0, <1>1, <1>5 DEF Plan, TypeOK, LocalState, AtWork
<1>6. CASE PlaceWave(r)
  <2>1. CASE run' = [run EXCEPT ![r].waves = Append(@, Ready(r))] /\ lock' = lock
    <3>1. Ready(r) \in SUBSET Tasks BY <1>0 DEF Ready, Remaining, LocalState
    <3>2. run'[r] = [run[r] EXCEPT !.waves = Append(run[r].waves, Ready(r))]
      BY <2>1, <3>1, AppendFields
    <3>3. run'[r].phase = run[r].phase /\ run'[r].repo = run[r].repo
      BY <1>0, <3>2 DEF LocalState
    <3> QED BY <1>6, <2>1, <3>3 DEF PlaceWave, AtWork
  <2> QED BY <1>1, <1>6, <2>1 DEF PlaceWave, AtWork
<1>7. CASE MarkInProgress(r)
  BY <1>0, <1>7 DEF MarkInProgress, TypeOK, LocalState, AtWork
<1>8. CASE \E marker \in BOOLEAN : BeginWave(r, marker)
  BY <1>0, <1>1, <1>8 DEF BeginWave, TypeOK, LocalState, AtWork
<1>9. CASE \E t \in Tasks : StartTask(r, t) \/ MergeTask(r, t)
  BY <1>0, <1>9 DEF StartTask, MergeTask, TypeOK, LocalState, AtWork
<1>10. CASE \E t \in Tasks, stage \in JobStages : EndTask(r, t, stage)
  BY <1>0, <1>10 DEF EndTask, TypeOK, LocalState, AtWork, outside
<1>11. CASE \E violations \in SUBSET Tasks : ReadBack(r, violations)
  BY <1>0, <1>11 DEF ReadBack, TypeOK, LocalState, AtWork
<1>12. CASE AddCost(r) BY <1>0, <1>12 DEF AddCost, TypeOK, LocalState, AtWork
<1>13. CASE \E force \in BOOLEAN : Start(r, force) BY <1>13, StartPhase DEF Start
<1> QED BY <1>2, <1>3, <1>4, <1>5, <1>6, <1>7, <1>8, <1>9, <1>10, <1>11, <1>12, <1>13 DEF Step

LEMMA LockStep ==
    ASSUME LocalInv, LockInv, NEW r \in Runs,
           Step(r) \/ Crash(r) \/ \E force \in BOOLEAN : Start(r, force)
    PROVE  LockInv'
<1>1. \A s \in Runs : s # r => run'[s] = run[s] BY StepState DEF OwnStep
<1>2. CASE /\ AtWork(r) /\ AtWork(r)' /\ run'[r].repo = run[r].repo /\ lock' = lock
  BY <1>1, <1>2 DEF LockInv, AtWork
<1>3. CASE Leave(r)
  <2>1. run'[r].phase = "idle" BY <1>3, LeaveFields DEF LocalInv, NotStarted
  <2> QED BY <1>1, <1>3, <2>1, InitiativeAssumption DEF LockInv, AtWork, Leave
<1>4. CASE /\ run[r].phase = "locking" /\ run'[r].phase = "planning"
           /\ run'[r].repo = run[r].repo
           /\ IF run[r].repo THEN lock = "free" /\ lock' = r ELSE lock' = lock
  BY <1>1, <1>4, InitiativeAssumption DEF LockInv, AtWork
<1>5. CASE /\ run[r].phase = "idle" /\ run'[r].phase = "locking"
           /\ RepoGiven => run'[r].repo
           /\ lock' = lock
  BY <1>1, <1>5 DEF LockInv, AtWork
<1> QED BY <1>2, <1>3, <1>4, <1>5, LockOfRun DEF LocalInv

\* Of two runs one is not at work.
LEMMA Alone ==
    ASSUME OneAtATime, LockInv, NEW r \in Runs, NEW s \in Runs, r # s
    PROVE  ~(AtWork(r) /\ AtWork(s))
BY DEF OneAtATime, LockInv, AtWork

-----------------------------------------------------------------------------
(* The statuses, seen by the one run at work.                              *)

DoneStays == \A t \in Tasks : taskStatus[t] = "done" => taskStatus'[t] = "done"

\* No status changes, and no task is new among the unfinished or the completed.
LEMMA StatusesKept ==
    ASSUME NEW r \in Runs, RowsOfRun(r), AtWork(r), taskStatus' = taskStatus,
           Unfinished(r)' \subseteq Unfinished(r), run'[r].completed \subseteq run[r].completed
    PROVE  RowsOfRun(r)'
BY DEF RowsOfRun

\* Only the phase changes.
LEMMA PhaseRows ==
    ASSUME TypeOK, NEW r \in Runs, RowsOfRun(r), AtWork(r), taskStatus' = taskStatus,
           NEW p, run'[r] = [run[r] EXCEPT !.phase = p]
    PROVE  RowsOfRun(r)'
<1>0. run[r] \in LocalState BY DEF TypeOK, LocalState
<1>1. /\ run'[r].waves = run[r].waves /\ run'[r].wave = run[r].wave
      /\ run'[r].job = run[r].job /\ run'[r].completed = run[r].completed
      /\ run'[r].selected = run[r].selected
  BY <1>0 DEF LocalState
<1>2. Before(r, run[r].wave)' = Before(r, run[r].wave) BY <1>1 DEF Before
<1>3. Unfinished(r)' = Unfinished(r) BY <1>1, <1>2 DEF Unfinished
<1> QED BY <1>1, <1>3, StatusesKept

LEMMA GoToRows ==
    ASSUME TypeOK, NEW r \in Runs, RowsOfRun(r), AtWork(r), taskStatus' = taskStatus,
           NEW p \in Phases, GoTo(r, p)
    PROVE  RowsOfRun(r)'
<1>1. run'[r] = [run[r] EXCEPT !.phase = p] BY GoToFields
<1> QED BY <1>1, PhaseRows

LEMMA LeaveRows ==
    ASSUME TypeOK, NEW r \in Runs, Leave(r)
    PROVE  RowsOfRun(r)'
<1>1. run'[r].phase = "idle" BY LeaveFields DEF NotStarted
<1> QED BY <1>1 DEF RowsOfRun, AtWork

\* The selected tasks are not done when they are selected.
LEMMA PlanRows ==
    ASSUME LocalInv, NEW r \in Runs, RowsOfRun(r), Plan(r)
    PROVE  RowsOfRun(r)'
<1> DEFINE S == Pending(run[r].force)
<1>0. run[r] \in LocalState BY DEF LocalInv, TypeOK, LocalState
<1>1. /\ run[r].phase = "planning" /\ taskStatus' = taskStatus /\ S \in SUBSET Tasks
      /\ \A t \in S : taskStatus[t] # "done"
      /\ DOMAIN DependencyGraph(S) = S
  BY DEF Plan, database, Pending, PendingStatuses, DependencyGraph
<1> HIDE DEF S
<1>2. CASE Leave(r) BY <1>2, LeaveRows DEF LocalInv
<1>3. CASE GoTo(r, "closing") BY <1>1, <1>3, GoToRows DEF AtWork, Phases, LocalInv
<1>4. CASE run' = [run EXCEPT ![r].phase = "layering", ![r].selected = S]
  <2>1. run'[r] = [run[r] EXCEPT !.phase = "layering", !.selected = S]
    BY <1>1, <1>4, PlanFields DEF LocalInv
  <2>2. run'[r].selected = S /\ run'[r].completed = {}
    BY <1>0, <1>1, <2>1 DEF LocalState, LocalInv, Local, Cursor, NotYetRunning
  <2> QED BY <1>1, <2>2 DEF RowsOfRun, Unfinished
<1> QED BY <1>1, <1>2, <1>3, <1>4 DEF Plan, S

\* The waves are not run before they are placed.
LEMMA PlaceRows ==
    ASSUME LocalInv, NEW r \in Runs, RowsOfRun(r), PlaceWave(r)
    PROVE  RowsOfRun(r)'
<1>0. run[r] \in LocalState BY DEF LocalInv, TypeOK, LocalState
<1>1. run[r].phase = "layering" /\ AtWork(r) /\ taskStatus' = taskStatus
  BY DEF PlaceWave, database, AtWork
<1>2. CASE Leave(r) BY <1>2, LeaveRows DEF LocalInv
<1>3. CASE GoTo(r, "opening") BY <1>1, <1>3, GoToRows DEF Phases, LocalInv
<1>4. CASE run' = [run EXCEPT ![r].waves = Append(@, Ready(r))]
  <2>1. Ready(r) \in SUBSET Tasks BY <1>0 DEF Ready, Remaining, LocalState
  <2>2. run'[r] = [run[r] EXCEPT !.waves = Append(run[r].waves, Ready(r))]
    BY <1>4, <2>1, AppendFields DEF LocalInv
  <2>3. /\ run'[r].selected = run[r].selected /\ run'[r].completed = run[r].completed
        /\ run'[r].job = run[r].job /\ run'[r].wave = 0 /\ run[r].wave = 0
    BY <1>0, <1>1, <2>2 DEF LocalState, LocalInv, Local, Cursor, NotYetRunning
  <2>4. Before(r, run[r].wave)' = {} /\ Before(r, run[r].wave) = {}
    BY <2>3 DEF Before
  <2>5. Unfinished(r)' = Unfinished(r) BY <2>3, <2>4 DEF Unfinished
  <2> QED BY <1>1, <2>3, <2>5, StatusesKept
<1> QED BY <1>2, <1>3, <1>4 DEF PlaceWave

LEMMA OpenRows ==
    ASSUME LocalInv, NEW r \in Runs, RowsOfRun(r), MarkInProgress(r)
    PROVE  RowsOfRun(r)'
<1>0. run[r] \in LocalState BY DEF LocalInv, TypeOK, LocalState
<1>1. /\ run[r].phase = "opening" /\ AtWork(r) /\ taskStatus' = taskStatus
      /\ run' = [run EXCEPT ![r].phase = "checking", ![r].wave = 1]
  BY DEF MarkInProgress, AtWork
<1>2. run'[r] = [run[r] EXCEPT !.phase = "checking", !.wave = 1]
  BY <1>1, WaveFields DEF LocalInv
<1>3. /\ run'[r].selected = run[r].selected /\ run'[r].completed = run[r].completed
      /\ run'[r].job = run[r].job /\ run'[r].wave = 1 /\ run[r].wave = 0
  <2>1. run[r].wave = 0 BY <1>1 DEF LocalInv, Local, Cursor, NotYetRunning
  <2> QED BY <1>0, <1>2, <2>1 DEF LocalState
<1>4. Before(r, run[r].wave)' = {} /\ Before(r, run[r].wave) = {} BY <1>3 DEF Before
<1>5. Unfinished(r)' = Unfinished(r) BY <1>3, <1>4 DEF Unfinished
<1> QED BY <1>1, <1>3, <1>5, StatusesKept

\* The jobs that a new wave resets are those of finished tasks.
LEMMA BeginRows ==
    ASSUME LocalInv, NEW r \in Runs, RowsOfRun(r), NEW marker \in BOOLEAN,
           BeginWave(r, marker)
    PROVE  RowsOfRun(r)'
<1> DEFINE queue == [t \in Tasks |-> IF t \in Wave(r) THEN "queued" ELSE "none"]
<1>0. run[r] \in LocalState BY DEF LocalInv, TypeOK, LocalState
<1>1. run[r].phase = "checking" /\ AtWork(r) /\ taskStatus' = taskStatus
  BY DEF BeginWave, database, AtWork
<1>2. CASE GoTo(r, "closing") \/ GoTo(r, "halting")
  BY <1>1, <1>2, GoToRows DEF Phases, LocalInv
<1>3. CASE run' = [run EXCEPT ![r].phase = "dispatching", ![r].highWater = agentRuns,
                             ![r].job = queue]
  <2>0. queue \in [Tasks -> JobStages] BY DEF JobStages
  <2> HIDE DEF queue
  <2>1. run'[r] = [run[r] EXCEPT !.phase = "dispatching", !.highWater = agentRuns, !.job = queue]
    BY <1>3, <2>0, DispatchFields DEF LocalInv
  <2>2. /\ run'[r].selected = run[r].selected /\ run'[r].completed = run[r].completed
        /\ run'[r].wave = run[r].wave /\ run'[r].waves = run[r].waves
    BY <1>0, <2>1 DEF LocalState
  <2>3. Before(r, run[r].wave)' = Before(r, run[r].wave) BY <2>2 DEF Before
  <2>4. Unfinished(r)' \subseteq Unfinished(r)
    <3>1. ASSUME NEW t \in run[r].selected \ Before(r, run[r].wave)
          PROVE  run[r].job[t] = "none"
      <4>1. t \in Tasks BY <1>0 DEF LocalState
      <4> QED BY <1>1, <4>1 DEF LocalInv, Local, JobsOfWave
    <3> QED BY <2>2, <2>3, <3>1 DEF Unfinished
  <2> QED BY <1>1, <2>2, <2>4, StatusesKept
<1> QED BY <1>2, <1>3 DEF BeginWave

\* A job's own task is the only one it moves, and it was not done before.
LEMMA JobRows ==
    ASSUME LocalInv, NEW r \in Runs, RowsOfRun(r), NEW t \in Tasks, NEW stage \in JobStages,
           run[r].phase \in {"dispatching", "merging"},
           run[r].job[t] \in {"queued", "running", "passed"},
           run' = [run EXCEPT ![r].job[t] = stage],
           \A u \in Tasks : u # t => taskStatus'[u] = taskStatus[u],
           stage \in {"none", "queued", "running", "passed"} =>
             taskStatus'[t] \in {taskStatus[t], "in_progress"}
    PROVE  RowsOfRun(r)' /\ DoneStays
<1>0. run[r] \in LocalState /\ Local(r) BY DEF LocalInv, TypeOK, LocalState
<1>1. AtWork(r) BY DEF AtWork
<1>2. run'[r] = [run[r] EXCEPT !.job = [run[r].job EXCEPT ![t] = stage]]
  BY JobFields DEF LocalInv
<1>3. /\ run'[r].selected = run[r].selected /\ run'[r].completed = run[r].completed
      /\ run'[r].wave = run[r].wave /\ run'[r].waves = run[r].waves
      /\ run'[r].job[t] = stage
      /\ \A u \in Tasks : u # t => run'[r].job[u] = run[r].job[u]
  BY <1>0, <1>2 DEF LocalState
<1>4. t \in Unfinished(r)
  <2>1. t \in Wave(r) BY <1>0 DEF Local, JobsOfWave, InAWave
  <2>2. run[r].wave \in DOMAIN run[r].waves
    BY <1>0 DEF LocalState, Local, Cursor, InAWave
  <2>3. t \notin Before(r, run[r].wave) BY <1>0, <2>1, <2>2 DEF Local, Chain, Wave
  <2>4. t \in Placed(r)
    <3>1. run[r].wave \in 1..((Len(run[r].waves) + 1) - 1) BY <1>0, <2>2 DEF LocalState
    <3> QED BY <2>1, <3>1 DEF Placed, Before, Wave
  <2> QED BY <1>0, <2>3, <2>4 DEF Local, Chain, Unfinished
<1>5. taskStatus[t] # "done" /\ t \notin run[r].completed BY <1>1, <1>4 DEF RowsOfRun
<1>6. Before(r, run[r].wave)' = Before(r, run[r].wave) BY <1>3 DEF Before
<1>7. Unfinished(r)' \subseteq Tasks BY <1>0, <1>3 DEF Unfinished, LocalState
<1>8. ASSUME NEW u \in Unfinished(r)' PROVE taskStatus'[u] # "done"
  <2>1. CASE u = t BY <1>3, <1>5, <1>8, <2>1 DEF Unfinished
  <2>2. CASE u # t
    <3>1. u \in Unfinished(r) BY <1>3, <1>6, <1>7, <1>8, <2>2 DEF Unfinished
    <3> QED BY <1>1, <1>7, <2>2, <3>1 DEF RowsOfRun
  <2> QED BY <2>1, <2>2
<1>9. \A u \in run'[r].completed : taskStatus'[u] = "done"
  <2>1. run[r].completed \subseteq Tasks BY <1>0 DEF LocalState
  <2> QED BY <1>1, <1>3, <1>5, <2>1 DEF RowsOfRun
<1> QED BY <1>5, <1>8, <1>9 DEF RowsOfRun, DoneStays

LEMMA ReadRows ==
    ASSUME LocalInv, NEW r \in Runs, RowsOfRun(r), NEW violations \in SUBSET Tasks,
           ReadBack(r, violations)
    PROVE  RowsOfRun(r)'
<1>0. run[r] \in LocalState BY DEF LocalInv, TypeOK, LocalState
<1>1. AtWork(r) /\ taskStatus' = taskStatus BY DEF ReadBack, database, AtWork
<1>2. /\ run'[r].selected = run[r].selected /\ run'[r].wave = run[r].wave
      /\ run'[r].waves = run[r].waves /\ run'[r].job = run[r].job
      /\ run'[r].completed = run[r].completed \cup Succeeded(r, violations)
  BY <1>0 DEF ReadBack, LocalInv, TypeOK, LocalState
<1>3. Before(r, run[r].wave)' = Before(r, run[r].wave) BY <1>2 DEF Before
<1>4. Unfinished(r)' = Unfinished(r) BY <1>2, <1>3 DEF Unfinished
<1>5. \A t \in Succeeded(r, violations) : taskStatus[t] = "done" BY DEF Succeeded
<1> QED BY <1>1, <1>2, <1>4, <1>5 DEF RowsOfRun

LEMMA ChargeRows ==
    ASSUME LocalInv, NEW r \in Runs, RowsOfRun(r), AddCost(r)
    PROVE  RowsOfRun(r)'
<1>0. run[r] \in LocalState BY DEF LocalInv, TypeOK, LocalState
<1>1. AtWork(r) /\ taskStatus' = taskStatus BY DEF AddCost, AtWork
<1>2. /\ run'[r].selected = run[r].selected /\ run'[r].completed = run[r].completed
      /\ run'[r].waves = run[r].waves /\ run'[r].job = run[r].job
      /\ run'[r].wave \in {run[r].wave, run[r].wave + 1}
  BY <1>0 DEF AddCost, LocalInv, TypeOK, LocalState
<1>3. Before(r, run[r].wave) \subseteq Before(r, run[r].wave)'
  <2>1. run[r].wave \in Nat BY <1>0 DEF LocalState
  <2>2. 1..(run[r].wave - 1) \subseteq 1..(run'[r].wave - 1) BY <1>2, <2>1
  <2> QED BY <1>2, <2>2 DEF Before
<1>4. Unfinished(r)' \subseteq Unfinished(r) BY <1>2, <1>3 DEF Unfinished
<1> QED BY <1>1, <1>2, <1>4, StatusesKept

LEMMA OwnRows ==
    ASSUME LocalInv, NEW r \in Runs, RowsOfRun(r),
           Step(r) \/ Crash(r) \/ \E force \in BOOLEAN : Start(r, force)
    PROVE  RowsOfRun(r)' /\ DoneStays
<1>1. CASE Lock(r)
  <2>1. taskStatus' = taskStatus /\ run[r].phase = "locking" BY <1>1 DEF Lock, database
  <2>2. CASE Leave(r) BY <2>1, <2>2, LeaveRows DEF LocalInv, DoneStays
  <2>3. CASE GoTo(r, "planning")
    <3>0. run[r] \in LocalState BY DEF LocalInv, TypeOK, LocalState
    <3>1. run'[r] = [run[r] EXCEPT !.phase = "planning"]
      BY <2>3, GoToFields DEF LocalInv, Phases
    <3>2. run'[r].selected = {} /\ run'[r].completed = {}
      BY <2>1, <3>0, <3>1
         DEF LocalState, LocalInv, Local, Layered, Unplanned, Cursor, NotYetRunning
    <3> QED BY <2>1, <3>2 DEF RowsOfRun, Unfinished, DoneStays
  <2> QED BY <1>1, <2>2, <2>3 DEF Lock
<1>2. CASE Plan(r) BY <1>2, PlanRows DEF Plan, database, DoneStays
<1>3. CASE PlaceWave(r) BY <1>3, PlaceRows DEF PlaceWave, database, DoneStays
<1>4. CASE MarkInProgress(r) BY <1>4, OpenRows DEF MarkInProgress, DoneStays
<1>5. CASE \E marker \in BOOLEAN : BeginWave(r, marker)
  BY <1>5, BeginRows DEF BeginWave, database, DoneStays
<1>6. CASE RefuseWave(r) \/ EndDispatch(r)
  BY <1>6, GoToRows DEF RefuseWave, EndDispatch, database, AtWork, Phases, LocalInv, DoneStays
<1>7. CASE Gather(r)
  BY <1>7, GoToRows DEF Gather, database, AtWork, Phases, LocalInv, DoneStays
<1>8. ASSUME NEW t \in Tasks, StartTask(r, t) PROVE RowsOfRun(r)' /\ DoneStays
  <2>1. /\ \A u \in Tasks : u # t => taskStatus'[u] = taskStatus[u]
        /\ taskStatus'[t] = "in_progress"
    BY <1>8 DEF StartTask, LocalInv, TypeOK
  <2> QED BY <1>8, <2>1, JobRows DEF StartTask, JobStages
<1>9. ASSUME NEW t \in Tasks, NEW stage \in JobStages, EndTask(r, t, stage)
      PROVE  RowsOfRun(r)' /\ DoneStays
  <2>1. \A u \in Tasks : u # t => taskStatus'[u] = taskStatus[u]
    BY <1>9 DEF EndTask, LocalInv, TypeOK
  <2>2. stage \in {"none", "queued", "running", "passed"} =>
          taskStatus'[t] \in {taskStatus[t], "in_progress"}
    BY <1>9 DEF EndTask, LocalInv, TypeOK
  <2>3. /\ run[r].phase \in {"dispatching", "merging"}
        /\ run[r].job[t] \in {"queued", "running", "passed"}
        /\ run' = [run EXCEPT ![r].job[t] = stage]
    BY <1>9 DEF EndTask
  <2> QED BY <2>1, <2>2, <2>3, JobRows
<1>10. ASSUME NEW t \in Tasks, MergeTask(r, t) PROVE RowsOfRun(r)' /\ DoneStays
  <2>1. \A u \in Tasks : u # t => taskStatus'[u] = taskStatus[u]
    BY <1>10 DEF MergeTask, LocalInv, TypeOK
  <2>2. PICK stage \in {"merged", "unmerged"} : run' = [run EXCEPT ![r].job[t] = stage]
    BY <1>10 DEF MergeTask
  <2>3. /\ run[r].phase \in {"dispatching", "merging"}
        /\ run[r].job[t] \in {"queued", "running", "passed"}
    BY <1>10 DEF MergeTask
  <2> QED BY <2>1, <2>2, <2>3, JobRows DEF JobStages
<1>11. CASE \E violations \in SUBSET Tasks : ReadBack(r, violations)
  BY <1>11, ReadRows DEF ReadBack, database, DoneStays
<1>12. CASE AddCost(r) BY <1>12, ChargeRows DEF AddCost, DoneStays
<1>13. CASE MarkPaused(r) \/ MarkDone(r) \/ Crash(r)
  BY <1>13, LeaveRows DEF MarkPaused, MarkDone, Crash, database, LocalInv, DoneStays
<1>14. ASSUME NEW force \in BOOLEAN, Start(r, force) PROVE RowsOfRun(r)' /\ DoneStays
  <2>1. run'[r].phase = "locking" BY <1>14, StartPhase DEF LocalInv
  <2> QED BY <1>14, <2>1 DEF RowsOfRun, AtWork, Start, database, DoneStays
<1> QED BY <1>1, <1>2, <1>3, <1>4, <1>5, <1>6, <1>7, <1>8, <1>9, <1>10, <1>11, <1>12, <1>13,
           <1>14 DEF Step

-----------------------------------------------------------------------------
(* The costs.                                                              *)

Counting == {"dispatching", "merging", "reading"}

\* Nothing is charged or run, and a run that counts has counted before.
LEMMA CostsKept ==
    ASSUME LocalInv, NeverOvercounts, NEW r \in Runs, CostsOfRun(r),
           totalCost' = totalCost, agentRuns' = agentRuns,
           run'[r].phase # "charging",
           run'[r].phase \in Counting =>
             \/ run'[r].highWater = agentRuns
             \/ run[r].phase \in Counting /\ run'[r].highWater = run[r].highWater
    PROVE  NeverOvercounts' /\ CostsOfRun(r)'
BY DEF NeverOvercounts, CostsOfRun, Counting

LEMMA OwnCosts ==
    ASSUME LocalInv, NeverOvercounts, NEW r \in Runs, CostsOfRun(r),
           Step(r) \/ Crash(r) \/ \E force \in BOOLEAN : Start(r, force)
    PROVE  NeverOvercounts' /\ CostsOfRun(r)'
<1>0. run[r] \in LocalState BY DEF LocalInv, TypeOK, LocalState
<1>1. ASSUME NEW p, GoTo(r, p)
      PROVE  run'[r].phase = p /\ run'[r].highWater = run[r].highWater
  BY <1>0, <1>1 DEF GoTo, LocalInv, TypeOK, LocalState
<1>2. ASSUME Leave(r) PROVE run'[r].phase = "idle"
  BY <1>2, LeaveFields DEF LocalInv, NotStarted
<1>3. CASE Lock(r) \/ MarkPaused(r) \/ MarkDone(r) \/ Crash(r)
  BY <1>1, <1>2, <1>3, CostsKept
     DEF Lock, MarkPaused, MarkDone, Crash, database, Counting
<1>4. CASE RefuseWave(r) \/ Gather(r) \/ EndDispatch(r)
  BY <1>1, <1>4, CostsKept DEF RefuseWave, Gather, EndDispatch, database, Counting
<1>5. CASE Plan(r)
  <2>1. run'[r].phase \in {"idle", "closing", "layering"}
    BY <1>0, <1>1, <1>2, <1>5 DEF Plan, LocalInv, TypeOK, LocalState
  <2> QED BY <1>5, <2>1, CostsKept DEF Plan, database, Counting
<1>6. CASE PlaceWave(r)
  <2>1. run'[r].phase \in {"idle", "opening", "layering"}
    <3>1. CASE run' = [run EXCEPT ![r].waves = Append(@, Ready(r))]
      <4>1. Ready(r) \in SUBSET Tasks BY <1>0 DEF Ready, Remaining, LocalState
      <4>2. run'[r] = [run[r] EXCEPT !.waves = Append(run[r].waves, Ready(r))]
        BY <3>1, <4>1, AppendFields DEF LocalInv
      <4>3. run'[r].phase = run[r].phase BY <1>0, <4>2 DEF LocalState
      <4> QED BY <1>6, <4>3 DEF PlaceWave
    <3> QED BY <1>1, <1>2, <1>6, <3>1 DEF PlaceWave
  <2> QED BY <1>6, <2>1, CostsKept DEF PlaceWave, database, Counting
<1>7. CASE MarkInProgress(r)
  <2>1. run'[r].phase = "checking"
    BY <1>0, <1>7 DEF MarkInProgress, LocalInv, TypeOK, LocalState
  <2> QED BY <1>7, <2>1, CostsKept DEF MarkInProgress, Counting
<1>8. ASSUME NEW marker \in BOOLEAN, BeginWave(r, marker)
      PROVE  NeverOvercounts' /\ CostsOfRun(r)'
  <2>1. \/ run'[r].phase \in {"closing", "halting"}
        \/ run'[r].phase = "dispatching" /\ run'[r].highWater = agentRuns
    BY <1>0, <1>1, <1>8 DEF BeginWave, LocalInv, TypeOK, LocalState
  <2> QED BY <1>8, <2>1, CostsKept DEF BeginWave, database, Counting
<1>9. CASE \E t \in Tasks : StartTask(r, t) \/ MergeTask(r, t)
  <2>1. /\ run'[r].phase = run[r].phase /\ run'[r].highWater = run[r].highWater
        /\ run[r].phase \in {"dispatching", "merging"}
    BY <1>0, <1>9 DEF StartTask, MergeTask, LocalInv, TypeOK, LocalState
  <2>2. totalCost' = totalCost /\ agentRuns' = agentRuns BY <1>9 DEF StartTask, MergeTask
  <2> QED BY <2>1, <2>2, CostsKept DEF Counting
<1>10. CASE \E t \in Tasks, stage \in JobStages : EndTask(r, t, stage)
  <2>1. /\ run'[r].phase = "dispatching" /\ run[r].phase = "dispatching"
        /\ run'[r].highWater = run[r].highWater
    BY <1>0, <1>10 DEF EndTask, LocalInv, TypeOK, LocalState
  <2>2. totalCost' = totalCost BY <1>10 DEF EndTask
  <2>3. \A t \in Tasks : agentRuns'[t] \in {agentRuns[t], agentRuns[t] + 1}
    BY <1>10 DEF EndTask, LocalInv, TypeOK
  <2>4. \A t \in Tasks : agentRuns[t] \in Nat /\ totalCost[t] \in Nat
    BY DEF LocalInv, TypeOK
  <2>5. NeverOvercounts' BY <2>2, <2>3, <2>4 DEF NeverOvercounts
  <2>6. CostsOfRun(r)' BY <2>1, <2>2 DEF CostsOfRun
  <2> QED BY <2>5, <2>6
<1>11. CASE \E violations \in SUBSET Tasks : ReadBack(r, violations)
  <2>1. run'[r].phase = "charging" /\ run'[r].cost = WaveCost(r)
    BY <1>0, <1>11 DEF ReadBack, LocalInv, TypeOK, LocalState
  <2>2. totalCost' = totalCost /\ agentRuns' = agentRuns BY <1>11 DEF ReadBack, database
  <2>3. ASSUME NEW t \in Tasks PROVE totalCost[t] + WaveCost(r)[t] <= agentRuns[t]
    <3>1. /\ totalCost[t] <= run[r].highWater[t] /\ run[r].highWater[t] <= agentRuns[t]
          /\ WaveCost(r)[t] \in {agentRuns[t] - run[r].highWater[t], 0}
      BY <1>11 DEF ReadBack, CostsOfRun, LocalInv, MarksAreOld, WaveCost
    <3>2. totalCost[t] \in Nat /\ run[r].highWater[t] \in Nat /\ agentRuns[t] \in Nat
      BY <1>0 DEF LocalState, LocalInv, TypeOK
    <3> QED BY <3>1, <3>2
  <2>4. NeverOvercounts' BY <2>2 DEF NeverOvercounts
  <2>5. CostsOfRun(r)' BY <2>1, <2>2, <2>3 DEF CostsOfRun
  <2> QED BY <2>4, <2>5
<1>12. CASE AddCost(r)
  <2>1. run'[r].phase \in {"checking", "failing"}
    BY <1>0, <1>12 DEF AddCost, LocalInv, TypeOK, LocalState
  <2>2. /\ agentRuns' = agentRuns
        /\ \A t \in Tasks : totalCost'[t] = totalCost[t] + run[r].cost[t]
    BY <1>12 DEF AddCost, Charge
  <2>3. NeverOvercounts' BY <1>12, <2>2 DEF AddCost, CostsOfRun, NeverOvercounts
  <2>4. CostsOfRun(r)' BY <2>1 DEF CostsOfRun
  <2> QED BY <2>3, <2>4
<1>13. CASE \E force \in BOOLEAN : Start(r, force)
  <2>1. run'[r].phase = "locking" BY <1>13, StartPhase DEF LocalInv
  <2> QED BY <1>13, <2>1, CostsKept DEF Start, database, Counting
<1> QED BY <1>3, <1>4, <1>5, <1>6, <1>7, <1>8, <1>9, <1>10, <1>11, <1>12, <1>13 DEF Step

-----------------------------------------------------------------------------
(* All runs together.                                                      *)

\* A run that is not at work yet leaves the rows alone.
LEMMA RowsOfTheOthers ==
    ASSUME LocalInv, NEW r \in Runs, ~AtWork(r),
           Step(r) \/ Crash(r) \/ \E force \in BOOLEAN : Start(r, force)
    PROVE  UNCHANGED database
BY DEF AtWork, Step, Lock, Plan, PlaceWave, MarkInProgress, BeginWave, RefuseWave, StartTask,
   EndTask, Gather, MergeTask, EndDispatch, ReadBack, AddCost, MarkPaused, MarkDone, Crash,
   Start, database

LEMMA SharedOther ==
    ASSUME LocalInv, NEW s \in Runs, RowsOfRun(s), CostsOfRun(s), run'[s] = run[s],
           AtWork(s) => UNCHANGED database
    PROVE  RowsOfRun(s)' /\ CostsOfRun(s)'
<1>1. CASE ~AtWork(s) BY <1>1 DEF AtWork, RowsOfRun, CostsOfRun
<1>2. CASE AtWork(s)
  <2>1. Before(s, run[s].wave)' = Before(s, run[s].wave) BY DEF Before
  <2>2. Unfinished(s)' = Unfinished(s) BY <2>1 DEF Unfinished
  <2> QED BY <1>2, <2>2 DEF AtWork, RowsOfRun, CostsOfRun, database
<1> QED BY <1>1, <1>2

\* The operator gives no task up that is done, and takes up none but stuck ones.
LEMMA OperatorRows ==
    ASSUME LocalInv, SharedInv, Operator
    PROVE  SharedInv' /\ DoneStays
<1>1. /\ run' = run /\ lock' = lock /\ agentRuns' = agentRuns /\ totalCost' = totalCost
      /\ \/ taskStatus' = taskStatus
         \/ \E t \in Tasks, status \in {"todo", "cancelled"} :
              taskStatus[t] # "done" /\ taskStatus' = [taskStatus EXCEPT ![t] = status]
  BY DEF Operator, CancelInitiative, EditTask
<1>2. ASSUME NEW t \in Tasks
      PROVE  \/ taskStatus'[t] = taskStatus[t]
             \/ taskStatus[t] # "done" /\ taskStatus'[t] # "done"
  <2>1. taskStatus \in [Tasks -> TaskStatuses] BY DEF LocalInv, TypeOK
  <2> QED BY <1>1, <2>1
<1>3. LockInv' BY <1>1 DEF SharedInv, LockInv, AtWork
<1>4. NeverOvercounts' BY <1>1 DEF SharedInv, NeverOvercounts
<1>5. ASSUME NEW s \in Runs PROVE RowsOfRun(s)' /\ CostsOfRun(s)'
  <2>1. Before(s, run[s].wave)' = Before(s, run[s].wave) BY <1>1 DEF Before
  <2>2. Unfinished(s)' = Unfinished(s) BY <1>1, <2>1 DEF Unfinished
  <2>3. Unfinished(s) \subseteq Tasks /\ run[s].completed \subseteq Tasks
    BY DEF Unfinished, LocalInv, TypeOK
  <2>4. RowsOfRun(s)' BY <1>2, <1>1, <2>2, <2>3 DEF SharedInv, RowsOfRun, AtWork
  <2>5. CostsOfRun(s)' BY <1>1 DEF SharedInv, CostsOfRun
  <2> QED BY <2>4, <2>5
<1> QED BY <1>2, <1>3, <1>4, <1>5 DEF SharedInv, DoneStays

LEMMA SharedStep ==
    ASSUME OneAtATime, LocalInv, SharedInv, [Next]_vars
    PROVE  SharedInv' /\ DoneStays
<1>1. CASE UNCHANGED vars
  <2>1. run' = run /\ lock' = lock /\ database' = database /\ taskStatus' = taskStatus
    BY <1>1 DEF vars, database
  <2>2. \A s \in Runs : RowsOfRun(s)' /\ CostsOfRun(s)'
    BY <2>1, SharedOther DEF SharedInv
  <2>3. LockInv' /\ NeverOvercounts'
    BY <1>1 DEF vars, SharedInv, LockInv, AtWork, NeverOvercounts
  <2> QED BY <2>1, <2>2, <2>3 DEF SharedInv, DoneStays
<1>2. ASSUME NEW r \in Runs,
             Step(r) \/ Crash(r) \/ \E force \in BOOLEAN : Start(r, force)
      PROVE  SharedInv' /\ DoneStays
  <2>1. LockInv' BY <1>2, LockStep DEF SharedInv
  <2>2. RowsOfRun(r)' /\ DoneStays BY <1>2, OwnRows DEF SharedInv
  <2>3. NeverOvercounts' /\ CostsOfRun(r)' BY <1>2, OwnCosts DEF SharedInv
  <2>4. ASSUME NEW s \in Runs, s # r PROVE RowsOfRun(s)' /\ CostsOfRun(s)'
    <3>1. run'[s] = run[s] BY <1>2, <2>4, StepState DEF OwnStep
    <3>2. AtWork(s) => ~AtWork(r) BY <2>4, Alone DEF SharedInv
    <3>3. AtWork(s) => UNCHANGED database BY <1>2, <3>2, RowsOfTheOthers
    <3> QED BY <3>1, <3>3, SharedOther DEF SharedInv
  <2> QED BY <2>1, <2>2, <2>3, <2>4 DEF SharedInv
<1>3. CASE Operator BY <1>3, OperatorRows
<1> QED BY <1>1, <1>2, <1>3 DEF Next

LEMMA SharedInitially == ASSUME Init PROVE SharedInv
<1>1. \A r \in Runs : run[r].phase = "idle" BY DEF Init, NotStarted
<1>2. ASSUME NEW t \in Tasks PROVE totalCost[t] <= agentRuns[t]
  <2>1. totalCost[t] = 0 /\ agentRuns[t] = 0 BY DEF Init, NoRows
  <2> QED BY <2>1
<1> QED BY <1>1, <1>2 DEF SharedInv, LockInv, AtWork, NeverOvercounts, RowsOfRun, CostsOfRun

-----------------------------------------------------------------------------
(* What the lock gives.                                                    *)

THEOREM SharedInvariant == ASSUME OneAtATime PROVE Spec => [](LocalInv /\ SharedInv)
<1>1. Init => LocalInv /\ SharedInv BY LocalInitially, SharedInitially
<1>2. LocalInv /\ SharedInv /\ [Next]_vars => (LocalInv /\ SharedInv)'
  BY LocalStep, SharedStep
<1> QED BY <1>1, <1>2, PTL DEF Spec

\* When the caller gives the repository, the lock keeps a second run of the initiative
\* from working beside the first, through crashes and restarts of both
\* (_initiative_lock).
THEOREM LockKeepsOneRun == ASSUME OneAtATime PROVE Spec => []OneLiveRun
<1>1. SharedInv => OneLiveRun BY Alone DEF SharedInv, OneLiveRun, AtWork
<1> QED BY <1>1, SharedInvariant, PTL

\* A run that closes leaves no task it selected short of done (the return values of
\* _run_initiative_inner before mark_done).
THEOREM ClosedMeansDone == ASSUME OneAtATime PROVE Spec => []WavesDoneMeansTasksDone
<1>1. LocalInv /\ SharedInv => WavesDoneMeansTasksDone
  BY DEF LocalInv, Local, Cursor, SharedInv, RowsOfRun, AtWork, WavesDoneMeansTasksDone
<1> QED BY <1>1, SharedInvariant, PTL

\* No agent run is charged twice, however often a task is dispatched again
\* (_read_task_cost_high_water, _read_task_cost and add_cost).
THEOREM EachRunIsChargedOnce == ASSUME OneAtATime PROVE Spec => []NeverOvercounts
<1>1. SharedInv => NeverOvercounts BY DEF SharedInv
<1> QED BY <1>1, SharedInvariant, PTL

\* No step of a run or of the operator takes done back: no wave holds a task that is
\* done (fetch_initiative_tasks, and the read-back after each wave).
THEOREM FinishedWorkIsKept == ASSUME OneAtATime PROVE Spec => DoneTaskStaysDone
<1>1. LocalInv /\ SharedInv /\ [Next]_vars =>
        [\A t \in Tasks : taskStatus[t] = "done" => taskStatus'[t] = "done"]_vars
  BY SharedStep DEF DoneStays
<1> QED BY <1>1, SharedInvariant, PTL DEF Spec, DoneTaskStaysDone
=============================================================================
