------------------------------- MODULE TaskRun -------------------------------
(***************************************************************************)
(* What the dispatcher takes one task's dispatch to be: some attempts, of  *)
(* which only the last may succeed, and which a success ends with nothing  *)
(* of an earlier attempt in the branch that will be merged.                *)
(*                                                                         *)
(* The module DevTestLoop models the attempts as the code runs them and is *)
(* shown to implement this specification; FanOut and Initiative start and  *)
(* end a task as it allows.                                                *)
(***************************************************************************)
EXTENDS Integers

CONSTANTS MaxAttempts, Successes, Failures

VARIABLES
  stage,    \* "outside", "inside" or "ended"
  attempt,  \* which attempt runs
  work,     \* the oldest attempt with commits on the task's branch, or 0
  outcome   \* how the dispatch ended, or "none"

vars == <<stage, attempt, work, outcome>>

Init == stage = "outside" /\ attempt = 0 /\ work = 0 /\ outcome = "none"

\* A fresh worktree on a fresh branch.
Begin ==
  /\ stage # "inside" /\ stage' = "inside"
  /\ attempt' = 1 /\ work' = 0 /\ outcome' = "none"

Commit ==
  /\ stage = "inside" /\ work = 0
  /\ work' = attempt
  /\ UNCHANGED <<stage, attempt, outcome>>

\* What a failed attempt left is thrown away before the next one.
Retry ==
  /\ stage = "inside" /\ attempt < MaxAttempts
  /\ attempt' = attempt + 1 /\ work' = 0
  /\ UNCHANGED <<stage, outcome>>

\* A failure may leave what it did, or the reset for a retry that never came.
End ==
  /\ stage = "inside" /\ stage' = "ended"
  /\ \/ outcome' \in Successes /\ work \in {0, attempt} /\ UNCHANGED work
     \/ outcome' \in Failures /\ work' \in {0, work}
  /\ UNCHANGED attempt

\* The orchestrator dies.
Crash ==
  /\ stage = "inside" /\ stage' = "outside"
  /\ attempt' = 0 /\ work' = 0 /\ outcome' = "none"

Next == Begin \/ Commit \/ Retry \/ End \/ Crash

\* A task that was given to the loop comes back.
Returns == stage = "inside" ~> stage # "inside"

Safety == Init /\ [][Next]_vars
Spec == Safety /\ Returns
=============================================================================
