------------------------------ MODULE FlowTypes ------------------------------
(***************************************************************************)
(* The states of a task flow and of the tasks attached to it, as the       *)
(* CHECK constraints of schema.sql and the sets of equipa/flows.py name    *)
(* them.                                                                   *)
(***************************************************************************)
EXTENDS Integers

FlowStates == {"queued", "running", "paused", "cancelled", "done", "failed"}
TerminalFlowStates == {"cancelled", "done", "failed"}

\* A task with no flow_tasks row in the flow is "absent".
ChildStates == {"pending", "running", "done", "failed", "cancelled"}
TerminalChildStates == {"done", "failed", "cancelled"}

\* tasks.status; the last four are the ones a cancel leaves alone.
TaskStatuses == {"todo", "in_progress", "blocked",
                 "done", "completed", "failed", "cancelled"}
SettledStatuses == {"done", "completed", "failed", "cancelled"}

LiveIn(rows) == {t \in DOMAIN rows : rows[t] \notin TerminalChildStates \cup {"absent"}}
=============================================================================
