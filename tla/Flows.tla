-------------------------------- MODULE Flows --------------------------------
(***************************************************************************)
(* equipa/flows.py: one task flow, shared by several dispatchers through   *)
(* the TheForge database.                                                  *)
(*                                                                         *)
(* Every operation runs inside db_conn(write=True), a SQLite connection in *)
(* the deferred mode of Python's sqlite3.  Its SELECTs come first and hold *)
(* no lock; the first UPDATE or INSERT takes the write lock, kept to the   *)
(* commit.  So an operation is one or two reads, with other dispatchers    *)
(* free to commit in between, and then one atomic write transaction.  The  *)
(* write is rolled back as a whole when the compare-and-swap check or the  *)
(* UNIQUE(flow_id, revision) constraint of flow_revisions refuses it.      *)
(*                                                                         *)
(* tasks.status is also written by the agent loops; those writes are in    *)
(* the module FanOut, where a dispatcher runs the tasks of a flow.         *)
(*                                                                         *)
(* A flow id is known to no one before create_flow has committed, so the   *)
(* initial state is the one create_flow leaves.                            *)
(***************************************************************************)
EXTENDS FlowTypes

CONSTANTS
  Dispatchers,    \* the processes that call the API
  Tasks,          \* the tasks that may be attached to the flow
  InitialStatuses, \* the statuses the tasks may have when the flow is created
  MaxRevision     \* bound: no operation starts at this revision or above

ASSUME MaxRevisionAssumption == MaxRevision \in Nat
ASSUME StatusAssumption == InitialStatuses \subseteq TaskStatuses

VARIABLES
  flow,           \* the flows row: [state, revision]
  children,       \* the flow_tasks rows: task -> state, or "absent"
  taskStatus,     \* tasks.status of every task, as far as flows.py writes it
  log,            \* the flow_revisions rows, by revision
  call            \* the operation each dispatcher is in

vars == <<flow, children, taskStatus, log, call>>
tables == <<flow, children, taskStatus, log>>

Steps == {"idle", "listing", "restart", "lookup", "write"}
Operations == {"none", "reconcile", "transition", "add_child", "update_child", "cancel"}

\* The operation in progress: what it will write, and the row it has read.
\* "task" is a set of at most one task; only the child operations name one.
Idle == [step |-> "idle", op |-> "none", to |-> "queued", task |-> {},
         state |-> "queued", revision |-> 0]

NoRevision == -1
ExpectedRevisions == {NoRevision} \cup 0 .. MaxRevision
AsExpected(expected) == expected \in {NoRevision, flow.revision}

\* A revision row: the state it records and the child rows its payload names.
Row(state, event, touched) == [state |-> state, event |-> event, touched |-> touched]
NoChildren == [t \in {} |-> "pending"]

Init ==
  /\ flow = [state |-> "queued", revision |-> 0]
  /\ children = [t \in Tasks |-> "absent"]
  /\ taskStatus \in [Tasks -> InitialStatuses]
  /\ log = [r \in {0} |-> Row("queued", "create", NoChildren)]
  /\ call = [d \in Dispatchers |-> Idle]

-----------------------------------------------------------------------------
(* The reads.                                                              *)

Start(d, step, op, to, task) ==
  /\ flow.revision < MaxRevision
  /\ call' = [call EXCEPT ![d] = [step |-> step, op |-> op, to |-> to, task |-> task,
                                  state |-> flow.state, revision |-> flow.revision]]
  /\ UNCHANGED tables

\* The call returns or raises; a transaction it had open is rolled back.
Finish(d) == call' = [call EXCEPT ![d] = Idle]
Return(d) == Finish(d) /\ UNCHANGED tables

\* Sticky cancel, then the terminal guard, then the caller's revision, all on
\* the row just read: FlowCancelled, FlowError, FlowRevisionConflict.
MayTransition(to, expected) ==
  /\ flow.state # "cancelled"
  /\ flow.state \in TerminalFlowStates => to = flow.state
  /\ AsExpected(expected)

ReadForTransition(d, op, to, expected) ==
  \/ MayTransition(to, expected) /\ Start(d, "write", op, to, {})
  \/ ~MayTransition(to, expected) /\ Return(d)

BeginTransition(d, to, expected) ==
  call[d].step = "idle" /\ ReadForTransition(d, "transition", to, expected)

\* Mutant of BeginAddChild: only the sticky cancel is checked.
BeginAddChildToFinished(d, t) ==
  /\ call[d].step = "idle"
  /\ \/ flow.state # "cancelled" /\ Start(d, "lookup", "add_child", "pending", {t})
     \/ flow.state = "cancelled" /\ Return(d)

BeginAddChild(d, t) ==
  /\ call[d].step = "idle"
  /\ \/ flow.state \notin TerminalFlowStates /\ Start(d, "lookup", "add_child", "pending", {t})
     \/ flow.state \in TerminalFlowStates /\ Return(d)

\* Mutant of BeginUpdateChild: a late "I finished" signal is not refused.
BeginUpdateChildAlways(d, t, to) ==
  call[d].step = "idle" /\ Start(d, "lookup", "update_child", to, {t})

BeginUpdateChild(d, t, to) ==
  /\ call[d].step = "idle"
  /\ \/ flow.state # "cancelled" /\ Start(d, "lookup", "update_child", to, {t})
     \/ flow.state = "cancelled" /\ Return(d)

\* Cancelling a cancelled flow returns the row; a done flow can be cancelled.
MayCancel(expected) == flow.state # "cancelled" /\ AsExpected(expected)

BeginCancel(d, expected) ==
  /\ call[d].step = "idle"
  /\ \/ MayCancel(expected) /\ Start(d, "write", "cancel", "cancelled", {})
     \/ ~MayCancel(expected) /\ Return(d)

\* The second SELECT of add_child and update_child_state: an attached task is
\* returned as it is, a missing one refused.
LookUpChild(d) ==
  LET c == call[d]
      attached == \E t \in c.task : children[t] # "absent"
      proceeds == attached = (c.op = "update_child") IN
  /\ c.step = "lookup"
  /\ \/ proceeds /\ call' = [call EXCEPT ![d].step = "write"] /\ UNCHANGED tables
     \/ ~proceeds /\ Return(d)

\* reconcile_after_restart reads the flow, then its children, each on a
\* connection of its own, and hands what it decided to a plain transition.
BeginReconcile(d) ==
  /\ call[d].step = "idle"
  /\ \/ flow.state # "cancelled" /\ Start(d, "listing", "reconcile", "running", {})
     \/ flow.state = "cancelled" /\ Return(d)

\* Mutant of ReconcileChildren: the verdict is a task status, not a flow state.
ReconcileChildrenAsTask(d) ==
  /\ call[d].step = "listing"
  /\ \E t \in Tasks : children[t] \in TerminalChildStates
  /\ call' = [call EXCEPT ![d].step = "restart", ![d].to = "completed"]
  /\ UNCHANGED tables

ReconcileChildren(d) ==
  LET states == {children[t] : t \in Tasks} \ {"absent"}
      settled == states \subseteq TerminalChildStates
      verdict == IF ~settled THEN "running"
                 ELSE IF "failed" \in states THEN "failed" ELSE "done"
      moves == /\ states # {}
               /\ IF settled THEN call[d].state # verdict ELSE call[d].state = "queued" IN
  /\ call[d].step = "listing"
  /\ \/ /\ moves
        /\ call' = [call EXCEPT ![d].step = "restart", ![d].to = verdict]
        /\ UNCHANGED tables
     \/ ~moves /\ Return(d)

ReconcileTransition(d) ==
  call[d].step = "restart" /\ ReadForTransition(d, "reconcile", call[d].to, NoRevision)

-----------------------------------------------------------------------------
(* The write transactions.                                                 *)

\* Mutant of Unused: flow_revisions without its UNIQUE constraint.
UnusedUnconstrained(revision) == TRUE

\* INSERT INTO flow_revisions, under UNIQUE(flow_id, revision).
Unused(revision) == revision \notin DOMAIN log
Append(revision, row) ==
  log' = [r \in DOMAIN log \cup {revision} |-> IF r = revision THEN row ELSE log[r]]

\* UPDATE flows ... WHERE revision = <the one read>, then the re-read of the
\* revision: it finds the new revision there if this update wrote it, and
\* also if exactly one other commit got in between.
Swapped(d) == flow.revision = call[d].revision
SwapSeen(d) == Swapped(d) \/ flow.revision = call[d].revision + 1

Swap(d, state) ==
  flow' = IF Swapped(d) THEN [state |-> state, revision |-> call[d].revision + 1] ELSE flow

\* FlowRevisionConflict if the re-read shows another revision, else
\* IntegrityError if the revision is taken, else the commit.
MaySwap(d) == SwapSeen(d) /\ Unused(call[d].revision + 1)

CommitTransition(d) ==
  LET c == call[d] IN
  /\ c.step = "write" /\ c.op \in {"transition", "reconcile"}
  /\ \/ /\ MaySwap(d)
        /\ Swap(d, c.to)
        /\ Append(c.revision + 1, Row(c.to, c.op, NoChildren))
        /\ Finish(d)
        /\ UNCHANGED <<children, taskStatus>>
     \/ ~MaySwap(d) /\ Return(d)

\* Mutant of CommitChild: a refused write keeps the child row it had written.
CommitChildNoRollback(d, t) ==
  LET c == call[d]
      free == Unused(c.revision + 1) IN
  /\ c.step = "write" /\ c.op \in {"add_child", "update_child"} /\ t \in c.task
  /\ children' = [children EXCEPT ![t] = c.to]
  /\ flow' = IF free THEN [flow EXCEPT !.revision = c.revision + 1] ELSE flow
  /\ IF free THEN Append(c.revision + 1, Row(c.state, c.op, [u \in {t} |-> c.to]))
     ELSE UNCHANGED log
  /\ Finish(d)
  /\ UNCHANGED taskStatus

\* add_child and update_child_state write the flow's revision unconditionally;
\* only the two UNIQUE constraints can refuse them.
CommitChild(d, t) ==
  LET c == call[d]
      free == /\ Unused(c.revision + 1)
              /\ c.op = "add_child" => children[t] = "absent" IN
  /\ c.step = "write" /\ c.op \in {"add_child", "update_child"} /\ t \in c.task
  /\ \/ /\ free
        /\ flow' = [flow EXCEPT !.revision = c.revision + 1]
        /\ children' = [children EXCEPT ![t] = c.to]
        /\ Append(c.revision + 1, Row(c.state, c.op, [u \in {t} |-> c.to]))
        /\ Finish(d)
        /\ UNCHANGED taskStatus
     \/ ~free /\ Return(d)

CommitCancel(d) ==
  LET c == call[d]
      live == LiveIn(children) IN
  /\ c.step = "write" /\ c.op = "cancel"
  /\ \/ /\ MaySwap(d)
        /\ Swap(d, "cancelled")
        /\ children' = [t \in Tasks |-> IF t \in live THEN "cancelled" ELSE children[t]]
        /\ taskStatus' = [t \in Tasks |->
                            IF t \in live /\ taskStatus[t] \notin SettledStatuses
                            THEN "cancelled" ELSE taskStatus[t]]
        /\ Append(c.revision + 1, Row("cancelled", c.op, [t \in live |-> "cancelled"]))
        /\ Finish(d)
     \/ ~MaySwap(d) /\ Return(d)

\* A call dies before its commit: the dispatcher crashes, or SQLite's busy
\* timeout runs out.
Abort(d) == call[d].step # "idle" /\ Return(d)

-----------------------------------------------------------------------------
Next ==
  \E d \in Dispatchers :
    \/ \E to \in FlowStates, expected \in ExpectedRevisions :
         BeginTransition(d, to, expected)
    \/ \E t \in Tasks : BeginAddChild(d, t)
    \/ \E t \in Tasks, to \in ChildStates : BeginUpdateChild(d, t, to)
    \/ \E expected \in ExpectedRevisions : BeginCancel(d, expected)
    \/ LookUpChild(d)
    \/ BeginReconcile(d)
    \/ ReconcileChildren(d)
    \/ ReconcileTransition(d)
    \/ CommitTransition(d)
    \/ \E t \in Tasks : CommitChild(d, t)
    \/ CommitCancel(d)
    \/ Abort(d)

Spec == Init /\ [][Next]_vars

-----------------------------------------------------------------------------
(* Properties.                                                             *)

\* The tables and the calls have the shape the schema and the code give them.
TypeOK ==
  /\ flow \in [state : FlowStates, revision : Nat]
  /\ children \in [Tasks -> ChildStates \cup {"absent"}]
  /\ taskStatus \in [Tasks -> TaskStatuses]
  /\ DOMAIN log \subseteq Nat
  /\ \A r \in DOMAIN log :
       /\ log[r].state \in FlowStates
       /\ DOMAIN log[r].touched \subseteq Tasks
       /\ \A t \in DOMAIN log[r].touched : log[r].touched[t] \in ChildStates
  /\ call \in [Dispatchers -> [step : Steps, op : Operations,
                                to : FlowStates \cup ChildStates, task : SUBSET Tasks,
                                state : FlowStates, revision : Nat]]

\* The audit log has one row for every revision the flow went through, with no
\* gap, and its last row records the state the flow is in: schema.sql says
\* "recovery code can replay the last-known-good state" from it.
DenseLog ==
  /\ DOMAIN log = 0 .. flow.revision
  /\ log[flow.revision].state = flow.state

\* Replaying the log gives every child row: its state is the one the latest row
\* naming the task left, so no committed child update was lost or overwritten
\* by a dispatcher that had read an older flow.
LogReplaysChildren ==
  \A t \in Tasks :
    LET naming == {r \in DOMAIN log : t \in DOMAIN log[r].touched} IN
    IF naming = {} THEN children[t] = "absent"
    ELSE \E r \in naming : /\ \A s \in naming : s <= r
                           /\ children[t] = log[r].touched[t]

\* Sticky cancel: whatever the dispatchers had already read when the cancel
\* committed, no child is attached, revived or finished after it, and the flow
\* takes no further revision.
CancelIsSticky ==
  [][flow.state = "cancelled" => UNCHANGED <<flow, children, log>>]_vars

\* The operations are atomic: each step of the read-then-write code is a step
\* of the ledger, whose operations check their guards on the current rows.
Ledger == INSTANCE FlowLedger
LedgerSpec == Ledger!Spec
=============================================================================
