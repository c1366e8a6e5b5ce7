----------------------------- MODULE FlowLedger -----------------------------
(***************************************************************************)
(* What a task flow promises its users: every operation of equipa/flows.py *)
(* that succeeds happens at one instant, on the state the flow has at that *)
(* instant.  No caller ever acts on a row another dispatcher has replaced. *)
(*                                                                         *)
(* The module Flows models the operations as the code runs them, a read    *)
(* and a later write with other dispatchers in between, and is shown to    *)
(* implement this specification.                                           *)
(***************************************************************************)
EXTENDS FlowTypes

CONSTANT Tasks

VARIABLES
  flow,       \* the flows row: [state, revision]
  children,   \* the flow_tasks rows: task -> state, or "absent"
  taskStatus  \* tasks.status of every task

vars == <<flow, children, taskStatus>>

Bump(state) == flow' = [state |-> state, revision |-> flow.revision + 1]

Init ==
  /\ flow = [state |-> "queued", revision |-> 0]
  /\ children = [t \in Tasks |-> "absent"]
  /\ taskStatus \in [Tasks -> TaskStatuses]

\* A cancelled flow never moves; a done or failed one only restates itself.
Transition(state) ==
  /\ flow.state # "cancelled"
  /\ flow.state \in TerminalFlowStates => state = flow.state
  /\ Bump(state)
  /\ UNCHANGED <<children, taskStatus>>

AddChild(t) ==
  /\ flow.state \notin TerminalFlowStates
  /\ children[t] = "absent"
  /\ children' = [children EXCEPT ![t] = "pending"]
  /\ Bump(flow.state)
  /\ UNCHANGED taskStatus

UpdateChild(t, state) ==
  /\ flow.state # "cancelled"
  /\ children[t] # "absent"
  /\ children' = [children EXCEPT ![t] = state]
  /\ Bump(flow.state)
  /\ UNCHANGED taskStatus

\* The cancel takes every live child with it, and its task unless settled.
Cancel ==
  LET live == LiveIn(children) IN
  /\ flow.state # "cancelled"
  /\ Bump("cancelled")
  /\ children' = [t \in Tasks |-> IF t \in live THEN "cancelled" ELSE children[t]]
  /\ taskStatus' = [t \in Tasks |->
                      IF t \in live /\ taskStatus[t] \notin SettledStatuses
                      THEN "cancelled" ELSE taskStatus[t]]

Next ==
  \/ \E state \in FlowStates : Transition(state)
  \/ \E t \in Tasks : AddChild(t)
  \/ \E t \in Tasks, state \in ChildStates : UpdateChild(t, state)
  \/ Cancel

Spec == Init /\ [][Next]_vars
=============================================================================
