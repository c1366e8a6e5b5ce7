----------------------------- MODULE FlowsProofs -----------------------------
(***************************************************************************)
(* The task flow, for every set of dispatchers and tasks and every bound   *)
(* on the revision: the log is dense and replays the child rows, a cancel  *)
(* is sticky, and the read-then-write operations implement FlowLedger.     *)
(*                                                                         *)
(* The argument is optimistic concurrency made explicit.  Every commit     *)
(* adds the log row one above the revision it read, the log has a row for  *)
(* every revision up to the current one, and no one can have read a        *)
(* revision above it; so a commit that gets past UNIQUE(flow_id, revision) *)
(* had read the current row, and the guards it passed still hold.          *)
(***************************************************************************)
EXTENDS Flows, TLAPS

\* What an operation still knows when it gets to its write: the revision it
\* read is not from the future; the state it read is the current one unless
\* the revision moved; its guard held of that state; a child it found attached
\* is attached for good.
SnapshotAgrees(d) ==
  LET c == call[d] IN
  /\ \A t, u \in c.task : t = u
  /\ c.revision <= flow.revision
  /\ c.revision = flow.revision => c.state = flow.state
  /\ c.op \in {"transition", "reconcile"} =>
       /\ c.to \in FlowStates
       /\ c.state # "cancelled"
       /\ c.state \in TerminalFlowStates => c.to = c.state
  /\ c.op = "add_child" => c.state \notin TerminalFlowStates /\ c.to = "pending"
  /\ c.op = "update_child" =>
       /\ c.state # "cancelled" /\ c.to \in ChildStates
       /\ c.step = "write" => \A t \in c.task : children[t] # "absent"
  /\ c.op = "cancel" => c.state # "cancelled"

\* The same of every call that is between its read and its write.
SnapshotsAgree ==
  \A d \in Dispatchers :
    /\ call[d].step = "restart" => call[d].to \in FlowStates
    /\ call[d].step \in {"lookup", "write"} => SnapshotAgrees(d)

\* The inductive invariant: the two the runs check, and what calls know.
IInv == TypeOK /\ DenseLog /\ LogReplaysChildren /\ SnapshotsAgree

-----------------------------------------------------------------------------
\* A write whose revision row is still unused had read the current row.
LEMMA FreshCommit ==
  ASSUME IInv, NEW d \in Dispatchers, call[d].step = "write",
         Unused(call[d].revision + 1)
  PROVE  /\ call[d].revision = flow.revision
         /\ call[d].state = flow.state
         /\ SnapshotAgrees(d)
<1>1. SnapshotAgrees(d)
  BY DEF IInv, SnapshotsAgree
<1>2. call[d].revision \in Nat /\ flow.revision \in Nat
  BY DEF IInv, TypeOK
<1>3. call[d].revision = flow.revision
  BY <1>1, <1>2 DEF IInv, DenseLog, Unused, SnapshotAgrees
<1> QED
  BY <1>1, <1>3 DEF SnapshotAgrees

\* Appending the row above the current revision keeps the log dense.
LEMMA AppendKeepsDense ==
  ASSUME IInv, NEW row, Append(flow.revision + 1, row),
         flow'.revision = flow.revision + 1, flow'.state = row.state
  PROVE  DenseLog'
<1>1. flow.revision \in Nat
  BY DEF IInv, TypeOK
<1>2. DOMAIN log' = DOMAIN log \cup {flow.revision + 1}
  BY DEF Append
<1>3. DOMAIN log' = 0 .. flow'.revision
  BY <1>1, <1>2 DEF IInv, DenseLog
<1>4. log'[flow'.revision] = row
  BY <1>2 DEF Append
<1> QED
  BY <1>3, <1>4 DEF DenseLog

\* If the row appended names exactly the children the commit wrote, the log
\* still replays them.
LEMMA AppendKeepsReplay ==
  ASSUME IInv, NEW row, Append(flow.revision + 1, row),
         \A t \in Tasks : children'[t] = IF t \in DOMAIN row.touched
                                        THEN row.touched[t] ELSE children[t]
  PROVE  LogReplaysChildren'
<1> DEFINE new == flow.revision + 1
           Naming(t) == {r \in DOMAIN log : t \in DOMAIN log[r].touched}
           NewNaming(t) == {r \in DOMAIN log' : t \in DOMAIN log'[r].touched}
<1>1. flow.revision \in Nat /\ DOMAIN log = 0 .. flow.revision
  BY DEF IInv, TypeOK, DenseLog
<1>2. /\ DOMAIN log' = DOMAIN log \cup {new}
      /\ log'[new] = row
      /\ \A r \in DOMAIN log : log'[r] = log[r]
  BY <1>1 DEF Append
<1>3. SUFFICES ASSUME NEW t \in Tasks
               PROVE IF NewNaming(t) = {} THEN children'[t] = "absent"
                     ELSE \E r \in NewNaming(t) :
                            /\ \A s \in NewNaming(t) : s <= r
                            /\ children'[t] = log'[r].touched[t]
  BY DEF LogReplaysChildren
<1>4. CASE t \in DOMAIN row.touched
  <2>1. new \in NewNaming(t)
    BY <1>2, <1>4
  <2>2. \A s \in NewNaming(t) : s <= new
    BY <1>1, <1>2
  <2>3. children'[t] = log'[new].touched[t]
    BY <1>2, <1>4
  <2> QED
    BY <2>1, <2>2, <2>3
<1>5. CASE t \notin DOMAIN row.touched
  <2>1. NewNaming(t) = Naming(t)
    BY <1>1, <1>2, <1>5
  <2>2. children'[t] = children[t]
    BY <1>5
  <2>3. IF Naming(t) = {} THEN children[t] = "absent"
        ELSE \E r \in Naming(t) : /\ \A s \in Naming(t) : s <= r
                                  /\ children[t] = log[r].touched[t]
    BY DEF IInv, LogReplaysChildren
  <2> QED
    BY <1>2, <2>1, <2>2, <2>3
<1> QED
  BY <1>4, <1>5

\* After a commit by d every other dispatcher's snapshot is still sound: an
\* unmoved revision is now out of its reach, and no child has gone away.
LEMMA CommitKeepsSnapshots ==
  ASSUME IInv, NEW d \in Dispatchers, Finish(d),
         flow'.revision = flow.revision + 1,
         \A t \in Tasks : children[t] # "absent" => children'[t] # "absent"
  PROVE  SnapshotsAgree'
<1> SUFFICES ASSUME NEW e \in Dispatchers
             PROVE  /\ call'[e].step = "restart" => call'[e].to \in FlowStates
                    /\ call'[e].step \in {"lookup", "write"} => SnapshotAgrees(e)'
  BY DEF SnapshotsAgree
<1>1. flow.revision \in Nat /\ call[e].revision \in Nat /\ call[e].task \subseteq Tasks
  BY DEF IInv, TypeOK
<1>2. CASE e = d
  BY <1>2 DEF Finish, Idle, IInv, TypeOK
<1>3. CASE e # d
  <2>1. call'[e] = call[e]
    BY <1>3 DEF Finish, IInv, TypeOK
  <2>2. call[e].step \in {"lookup", "write"} => SnapshotAgrees(e)
    BY DEF IInv, SnapshotsAgree
  <2>3. call[e].step \in {"lookup", "write"} => SnapshotAgrees(e)'
    BY <1>1, <2>1, <2>2 DEF SnapshotAgrees
  <2> QED
    BY <2>1, <2>3 DEF IInv, SnapshotsAgree
<1> QED
  BY <1>2, <1>3

\* A step that only reads keeps every part of the invariant, if the call it
\* leaves behind is well formed and knows only what it has read.
LEMMA ReadKeepsIInv ==
  ASSUME IInv, NEW d \in Dispatchers, NEW c, UNCHANGED tables,
         call' = [call EXCEPT ![d] = c],
         c \in [step : Steps, op : Operations, to : FlowStates \cup ChildStates,
                task : SUBSET Tasks, state : FlowStates, revision : Nat],
         c.step = "restart" => c.to \in FlowStates,
         c.step \in {"lookup", "write"} => SnapshotAgrees(d)'
  PROVE  IInv'
<1>1. TypeOK'
  BY DEF IInv, TypeOK, tables
<1>2. DenseLog' /\ LogReplaysChildren'
  BY DEF IInv, DenseLog, LogReplaysChildren, tables
<1>3. SnapshotsAgree'
  <2> SUFFICES ASSUME NEW e \in Dispatchers
               PROVE  /\ call'[e].step = "restart" => call'[e].to \in FlowStates
                      /\ call'[e].step \in {"lookup", "write"} => SnapshotAgrees(e)'
    BY DEF SnapshotsAgree
  <2>1. CASE e = d
    BY <2>1 DEF IInv, TypeOK
  <2>2. CASE e # d
    BY <2>2 DEF IInv, TypeOK, SnapshotsAgree, SnapshotAgrees, tables
  <2> QED
    BY <2>1, <2>2
<1> QED
  BY <1>1, <1>2, <1>3 DEF IInv

\* A call that returns to its caller keeps the invariant.
LEMMA ReturnKeepsIInv ==
  ASSUME IInv, NEW d \in Dispatchers, Return(d)
  PROVE  IInv'
<1>1. Idle \in [step : Steps, op : Operations, to : FlowStates \cup ChildStates,
                task : SUBSET Tasks, state : FlowStates, revision : Nat]
  BY DEF Idle, Steps, Operations, FlowStates
<1>2. Idle.step = "idle"
  BY DEF Idle
<1> QED
  BY <1>1, <1>2, ReadKeepsIInv DEF Return, Finish

\* A call that has read the flow row, and found its guard true, knows what the
\* invariant says it knows.
LEMMA StartKeepsIInv ==
  ASSUME IInv, NEW d \in Dispatchers,
         NEW step \in {"listing", "lookup", "write"}, NEW op \in Operations,
         NEW to \in FlowStates \cup ChildStates, NEW task \in SUBSET Tasks,
         \A t, u \in task : t = u,
         Start(d, step, op, to, task),
         op \in {"transition", "reconcile"} /\ step = "write" =>
           /\ to \in FlowStates /\ flow.state # "cancelled"
           /\ flow.state \in TerminalFlowStates => to = flow.state,
         step = "lookup" => op \in {"add_child", "update_child"},
         op = "add_child" => flow.state \notin TerminalFlowStates /\ to = "pending",
         op = "update_child" =>
           flow.state # "cancelled" /\ to \in ChildStates /\ step = "lookup",
         op = "cancel" => flow.state # "cancelled"
  PROVE  IInv'
<1> DEFINE c == [step |-> step, op |-> op, to |-> to, task |-> task,
                 state |-> flow.state, revision |-> flow.revision]
<1>1. flow \in [state : FlowStates, revision : Nat]
  BY DEF IInv, TypeOK
<1>2. c \in [step : Steps, op : Operations, to : FlowStates \cup ChildStates,
             task : SUBSET Tasks, state : FlowStates, revision : Nat]
  BY <1>1 DEF Steps
<1>3. call' = [call EXCEPT ![d] = c] /\ UNCHANGED tables
  BY DEF Start
<1>4. call'[d] = c /\ flow' = flow
  BY <1>3 DEF IInv, TypeOK, tables
<1>5. c.step \in {"lookup", "write"} => SnapshotAgrees(d)'
  BY <1>1, <1>4 DEF SnapshotAgrees
<1>6. c.step # "restart"
  OBVIOUS
<1> HIDE DEF c
<1> QED
  BY <1>2, <1>3, <1>5, <1>6, ReadKeepsIInv

-----------------------------------------------------------------------------
(* The invariant, action by action.                                        *)

\* A flow just created satisfies the invariant.
LEMMA InitIInv == Init => IInv
<1> SUFFICES ASSUME Init PROVE IInv
  OBVIOUS
<1>1. TypeOK
  <2>1. flow \in [state : FlowStates, revision : Nat]
    BY DEF Init, FlowStates
  <2>2. /\ children \in [Tasks -> ChildStates \cup {"absent"}]
        /\ taskStatus \in [Tasks -> TaskStatuses]
    BY StatusAssumption DEF Init
  <2>3. /\ DOMAIN log = {0}
        /\ log[0].state = "queued" /\ log[0].touched = NoChildren
    BY DEF Init, Row
  <2>4. DOMAIN NoChildren = {} /\ "queued" \in FlowStates
    BY DEF NoChildren, FlowStates
  <2>5. Idle \in [step : Steps, op : Operations, to : FlowStates \cup ChildStates,
                  task : SUBSET Tasks, state : FlowStates, revision : Nat]
    BY DEF Idle, Steps, Operations, FlowStates
  <2>6. call = [d \in Dispatchers |-> Idle]
    BY DEF Init
  <2> QED
    BY <2>1, <2>2, <2>3, <2>4, <2>5, <2>6 DEF TypeOK
<1>2. DenseLog
  BY DEF Init, DenseLog, Row
<1>3. LogReplaysChildren
  BY DEF Init, LogReplaysChildren, Row, NoChildren
<1>4. SnapshotsAgree
  BY DEF Init, SnapshotsAgree, Idle
<1> QED
  BY <1>1, <1>2, <1>3, <1>4 DEF IInv

\* The read of transition: its guard held of the state it read.
LEMMA ReadForTransitionKeepsIInv ==
  ASSUME IInv, NEW d \in Dispatchers, NEW op \in {"transition", "reconcile"},
         NEW to \in FlowStates, NEW expected, ReadForTransition(d, op, to, expected)
  PROVE  IInv'
<1>1. CASE MayTransition(to, expected) /\ Start(d, "write", op, to, {})
  BY <1>1, StartKeepsIInv DEF MayTransition, Operations
<1>2. CASE Return(d)
  BY <1>2, ReturnKeepsIInv
<1> QED
  BY <1>1, <1>2 DEF ReadForTransition

\* A committed transition: the state it leaves is the one it read, and is not
\* cancelled.
LEMMA CommitTransitionKeepsIInv ==
  ASSUME IInv, NEW d \in Dispatchers, CommitTransition(d), ~Return(d)
  PROVE  /\ IInv'
         /\ flow' = [state |-> call[d].to, revision |-> flow.revision + 1]
         /\ flow.state # "cancelled"
         /\ flow.state \in TerminalFlowStates => call[d].to = flow.state
         /\ call[d].to \in FlowStates
         /\ UNCHANGED <<children, taskStatus>>
<1> DEFINE c == call[d]
           row == Row(c.to, c.op, NoChildren)
<1>1. /\ c.step = "write" /\ c.op \in {"transition", "reconcile"}
      /\ MaySwap(d) /\ Swap(d, c.to) /\ Append(c.revision + 1, row) /\ Finish(d)
      /\ UNCHANGED <<children, taskStatus>>
  BY DEF CommitTransition
<1>2. c.revision = flow.revision /\ c.state = flow.state /\ SnapshotAgrees(d)
  BY <1>1, FreshCommit DEF MaySwap
<1>3. flow' = [state |-> c.to, revision |-> flow.revision + 1]
  BY <1>1, <1>2 DEF Swap, Swapped
<1>4. /\ c.to \in FlowStates /\ flow.state # "cancelled"
      /\ flow.state \in TerminalFlowStates => c.to = flow.state
  BY <1>1, <1>2 DEF SnapshotAgrees
<1>5. TypeOK'
  <2>1. flow' \in [state : FlowStates, revision : Nat]
    BY <1>3, <1>4 DEF IInv, TypeOK
  <2>2. /\ DOMAIN log' \subseteq Nat
        /\ \A r \in DOMAIN log' :
             /\ log'[r].state \in FlowStates
             /\ DOMAIN log'[r].touched \subseteq Tasks
             /\ \A t \in DOMAIN log'[r].touched : log'[r].touched[t] \in ChildStates
    BY <1>1, <1>4 DEF IInv, TypeOK, Append, Row, NoChildren
  <2> QED
    BY <1>1, <2>1, <2>2
       DEF IInv, TypeOK, Finish, Idle, Steps, Operations, FlowStates
<1>6. row.state = c.to /\ \A t \in Tasks : t \notin DOMAIN row.touched
  BY DEF Row, NoChildren
<1>7. Append(flow.revision + 1, row)
  BY <1>1, <1>2
<1> HIDE DEF row
<1>8. DenseLog'
  BY <1>3, <1>6, <1>7, AppendKeepsDense
<1>9. LogReplaysChildren'
  BY <1>1, <1>6, <1>7, AppendKeepsReplay
<1>10. SnapshotsAgree'
  BY <1>1, <1>3, CommitKeepsSnapshots
<1> QED
  BY <1>1, <1>3, <1>4, <1>5, <1>8, <1>9, <1>10 DEF IInv

\* A committed child row: the log row names exactly that child.
LEMMA CommitChildKeepsIInv ==
  ASSUME IInv, NEW d \in Dispatchers, NEW t \in Tasks, CommitChild(d, t), ~Return(d)
  PROVE  /\ IInv'
         /\ flow' = [state |-> flow.state, revision |-> flow.revision + 1]
         /\ children' = [children EXCEPT ![t] = call[d].to]
         /\ UNCHANGED taskStatus
         /\ \/ /\ flow.state \notin TerminalFlowStates
               /\ children[t] = "absent" /\ call[d].to = "pending"
            \/ /\ flow.state # "cancelled"
               /\ children[t] # "absent" /\ call[d].to \in ChildStates
<1> DEFINE c == call[d]
           row == Row(c.state, c.op, [u \in {t} |-> c.to])
<1>1. /\ c.step = "write" /\ c.op \in {"add_child", "update_child"} /\ t \in c.task
      /\ Unused(c.revision + 1)
      /\ c.op = "add_child" => children[t] = "absent"
      /\ flow' = [flow EXCEPT !.revision = c.revision + 1]
      /\ children' = [children EXCEPT ![t] = c.to]
      /\ Append(c.revision + 1, row) /\ Finish(d) /\ UNCHANGED taskStatus
  BY DEF CommitChild
<1>2. c.revision = flow.revision /\ c.state = flow.state /\ SnapshotAgrees(d)
  BY <1>1, FreshCommit
<1>3. flow' = [state |-> flow.state, revision |-> flow.revision + 1]
  BY <1>1, <1>2 DEF IInv, TypeOK
<1>4. \/ /\ flow.state \notin TerminalFlowStates
         /\ children[t] = "absent" /\ c.to = "pending"
      \/ /\ flow.state # "cancelled"
         /\ children[t] # "absent" /\ c.to \in ChildStates
  BY <1>1, <1>2 DEF SnapshotAgrees
<1>5. c.to \in ChildStates
  BY <1>4 DEF ChildStates
<1>6. TypeOK'
  <2>1. flow' \in [state : FlowStates, revision : Nat]
    BY <1>3 DEF IInv, TypeOK
  <2>2. children' \in [Tasks -> ChildStates \cup {"absent"}]
    BY <1>1, <1>5 DEF IInv, TypeOK
  <2>3. row.state \in FlowStates /\ DOMAIN row.touched = {t} /\ row.touched[t] \in ChildStates
    BY <1>5 DEF Row, IInv, TypeOK
  <2> HIDE DEF row
  <2>4. /\ DOMAIN log' \subseteq Nat
        /\ \A r \in DOMAIN log' :
             /\ log'[r].state \in FlowStates
             /\ DOMAIN log'[r].touched \subseteq Tasks
             /\ \A u \in DOMAIN log'[r].touched : log'[r].touched[u] \in ChildStates
    BY <1>1, <2>3 DEF IInv, TypeOK, Append
  <2> QED
    BY <1>1, <2>1, <2>2, <2>4
       DEF IInv, TypeOK, Finish, Idle, Steps, Operations, FlowStates
<1>7. /\ row.state = flow'.state
      /\ \A u \in Tasks : children'[u] = IF u \in DOMAIN row.touched
                                         THEN row.touched[u] ELSE children[u]
  BY <1>1, <1>2, <1>3 DEF Row, IInv, TypeOK
<1>8. Append(flow.revision + 1, row)
  BY <1>1, <1>2
<1> HIDE DEF row
<1>9. DenseLog'
  BY <1>3, <1>7, <1>8, AppendKeepsDense
<1>10. LogReplaysChildren'
  BY <1>7, <1>8, AppendKeepsReplay
<1>11. \A u \in Tasks : children[u] # "absent" => children'[u] # "absent"
  BY <1>1, <1>5 DEF IInv, TypeOK, ChildStates
<1>12. SnapshotsAgree'
  BY <1>1, <1>3, <1>11, CommitKeepsSnapshots
<1> QED
  BY <1>1, <1>3, <1>4, <1>6, <1>9, <1>10, <1>12 DEF IInv

\* A committed cancel: the log row names exactly the children it cancels.
LEMMA CommitCancelKeepsIInv ==
  ASSUME IInv, NEW d \in Dispatchers, CommitCancel(d), ~Return(d)
  PROVE  /\ IInv'
         /\ flow.state # "cancelled"
         /\ flow' = [state |-> "cancelled", revision |-> flow.revision + 1]
         /\ children' = [t \in Tasks |->
                           IF t \in LiveIn(children) THEN "cancelled" ELSE children[t]]
         /\ taskStatus' = [t \in Tasks |->
                             IF /\ t \in LiveIn(children)
                                /\ taskStatus[t] \notin SettledStatuses
                             THEN "cancelled" ELSE taskStatus[t]]
<1> DEFINE c == call[d]
           live == LiveIn(children)
           row == Row("cancelled", c.op, [t \in live |-> "cancelled"])
<1>1. /\ c.step = "write" /\ c.op = "cancel"
      /\ MaySwap(d) /\ Swap(d, "cancelled") /\ Append(c.revision + 1, row) /\ Finish(d)
      /\ children' = [t \in Tasks |-> IF t \in live THEN "cancelled" ELSE children[t]]
      /\ taskStatus' = [t \in Tasks |->
                          IF t \in live /\ taskStatus[t] \notin SettledStatuses
                          THEN "cancelled" ELSE taskStatus[t]]
  BY DEF CommitCancel
<1>2. c.revision = flow.revision /\ c.state = flow.state /\ SnapshotAgrees(d)
  BY <1>1, FreshCommit DEF MaySwap
<1>3. flow' = [state |-> "cancelled", revision |-> flow.revision + 1]
  BY <1>1, <1>2 DEF Swap, Swapped
<1>4. flow.state # "cancelled"
  BY <1>1, <1>2 DEF SnapshotAgrees
<1>5. live \subseteq Tasks /\ "cancelled" \in FlowStates \cap ChildStates \cap TaskStatuses
  BY DEF LiveIn, IInv, TypeOK, FlowStates, ChildStates, TaskStatuses
<1>6. /\ row.state = "cancelled" /\ DOMAIN row.touched = live
      /\ \A t \in live : row.touched[t] = "cancelled"
  BY DEF Row
<1>7. Append(flow.revision + 1, row)
  BY <1>1, <1>2
<1> HIDE DEF live, row
<1>8. TypeOK'
  <2>1. flow' \in [state : FlowStates, revision : Nat]
    BY <1>3, <1>5 DEF IInv, TypeOK
  <2>2. /\ children' \in [Tasks -> ChildStates \cup {"absent"}]
        /\ taskStatus' \in [Tasks -> TaskStatuses]
    BY <1>1, <1>5 DEF IInv, TypeOK
  <2>3. /\ DOMAIN log' \subseteq Nat
        /\ \A r \in DOMAIN log' :
             /\ log'[r].state \in FlowStates
             /\ DOMAIN log'[r].touched \subseteq Tasks
             /\ \A u \in DOMAIN log'[r].touched : log'[r].touched[u] \in ChildStates
    BY <1>5, <1>6, <1>7 DEF IInv, TypeOK, Append
  <2> QED
    BY <1>1, <2>1, <2>2, <2>3
       DEF IInv, TypeOK, Finish, Idle, Steps, Operations, FlowStates
<1>9. DenseLog'
  BY <1>3, <1>6, <1>7, AppendKeepsDense
<1>10. LogReplaysChildren'
  BY <1>1, <1>6, <1>7, AppendKeepsReplay
<1>11. \A u \in Tasks : children[u] # "absent" => children'[u] # "absent"
  BY <1>1
<1>12. SnapshotsAgree'
  BY <1>1, <1>3, <1>11, CommitKeepsSnapshots
<1>13. live = LiveIn(children)
  BY DEF live
<1> QED
  BY <1>1, <1>3, <1>4, <1>8, <1>9, <1>10, <1>12, <1>13 DEF IInv

\* Every step either keeps the tables, or is one of the three commits.
LEMMA StepKeepsIInv ==
  ASSUME IInv, [Next]_vars
  PROVE  /\ IInv'
         /\ \/ UNCHANGED tables
            \/ \E d \in Dispatchers : CommitTransition(d) /\ ~Return(d)
            \/ \E d \in Dispatchers, t \in Tasks : CommitChild(d, t) /\ ~Return(d)
            \/ \E d \in Dispatchers : CommitCancel(d) /\ ~Return(d)
<1>1. CASE UNCHANGED vars
  BY <1>1 DEF vars, tables, IInv, TypeOK, DenseLog, LogReplaysChildren, SnapshotsAgree,
              SnapshotAgrees
<1>2. CASE \E d \in Dispatchers : Return(d)
  BY <1>2, ReturnKeepsIInv DEF Return
<1>3. ASSUME Next, \A d \in Dispatchers : ~Return(d)
      PROVE  /\ IInv'
             /\ \/ UNCHANGED tables
                \/ \E d \in Dispatchers : CommitTransition(d) /\ ~Return(d)
                \/ \E d \in Dispatchers, t \in Tasks : CommitChild(d, t) /\ ~Return(d)
                \/ \E d \in Dispatchers : CommitCancel(d) /\ ~Return(d)
  <2>1. ASSUME NEW d \in Dispatchers, NEW to \in FlowStates,
               NEW expected \in ExpectedRevisions, BeginTransition(d, to, expected)
        PROVE  IInv' /\ UNCHANGED tables
    BY <1>3, <2>1, ReadForTransitionKeepsIInv DEF BeginTransition, ReadForTransition, Start
  <2>2. ASSUME NEW d \in Dispatchers, NEW t \in Tasks, BeginAddChild(d, t)
        PROVE  IInv' /\ UNCHANGED tables
    <3>1. /\ flow.state \notin TerminalFlowStates
          /\ Start(d, "lookup", "add_child", "pending", {t})
      BY <1>3, <2>2 DEF BeginAddChild
    <3>2. IInv'
      BY <3>1, StartKeepsIInv DEF Operations, ChildStates
    <3> QED
      BY <3>1, <3>2 DEF Start
  <2>3. ASSUME NEW d \in Dispatchers, NEW t \in Tasks, NEW to \in ChildStates,
               BeginUpdateChild(d, t, to)
        PROVE  IInv' /\ UNCHANGED tables
    <3>1. flow.state # "cancelled" /\ Start(d, "lookup", "update_child", to, {t})
      BY <1>3, <2>3 DEF BeginUpdateChild
    <3>2. IInv'
      BY <3>1, StartKeepsIInv DEF Operations
    <3> QED
      BY <3>1, <3>2 DEF Start
  <2>4. ASSUME NEW d \in Dispatchers, NEW expected \in ExpectedRevisions,
               BeginCancel(d, expected)
        PROVE  IInv' /\ UNCHANGED tables
    <3>1. flow.state # "cancelled" /\ Start(d, "write", "cancel", "cancelled", {})
      BY <1>3, <2>4 DEF BeginCancel, MayCancel
    <3>2. IInv'
      BY <3>1, StartKeepsIInv DEF Operations, FlowStates
    <3> QED
      BY <3>1, <3>2 DEF Start
  <2>5. ASSUME NEW d \in Dispatchers, LookUpChild(d)
        PROVE  IInv' /\ UNCHANGED tables
    <3> DEFINE c == [call[d] EXCEPT !.step = "write"]
    <3>1. /\ call[d].step = "lookup"
          /\ (\E t \in call[d].task : children[t] # "absent") = (call[d].op = "update_child")
          /\ call' = [call EXCEPT ![d] = c] /\ UNCHANGED tables
      BY <1>3, <2>5 DEF LookUpChild
    <3>2. /\ call[d].task \subseteq Tasks /\ SnapshotAgrees(d)
          /\ c \in [step : Steps, op : Operations, to : FlowStates \cup ChildStates,
                     task : SUBSET Tasks, state : FlowStates, revision : Nat]
      BY <3>1 DEF IInv, TypeOK, SnapshotsAgree, Steps
    <3>3. call'[d] = c
      BY <3>1 DEF IInv, TypeOK
    <3>4. SnapshotAgrees(d)'
      <4>1. /\ c.op = call[d].op /\ c.to = call[d].to /\ c.task = call[d].task
            /\ c.state = call[d].state /\ c.revision = call[d].revision
        BY <3>1 DEF IInv, TypeOK
      <4>2. call[d].op = "update_child" => \A t \in call[d].task : children[t] # "absent"
        BY <3>1, <3>2 DEF SnapshotAgrees
      <4> HIDE DEF c
      <4> QED
        BY <3>1, <3>2, <3>3, <4>1, <4>2 DEF SnapshotAgrees, tables
    <3>5. IInv'
      BY <3>1, <3>2, <3>4, ReadKeepsIInv
    <3> QED
      BY <3>1, <3>5
  <2>6. ASSUME NEW d \in Dispatchers, BeginReconcile(d)
        PROVE  IInv' /\ UNCHANGED tables
    <3>1. flow.state # "cancelled" /\ Start(d, "listing", "reconcile", "running", {})
      BY <1>3, <2>6 DEF BeginReconcile
    <3>2. IInv'
      BY <3>1, StartKeepsIInv DEF Operations, FlowStates
    <3> QED
      BY <3>1, <3>2 DEF Start
  <2>7. ASSUME NEW d \in Dispatchers, ReconcileChildren(d)
        PROVE  IInv' /\ UNCHANGED tables
    <3>1. PICK verdict \in {"running", "failed", "done"} :
            /\ call' = [call EXCEPT ![d] =
                          [call[d] EXCEPT !.step = "restart", !.to = verdict]]
            /\ UNCHANGED tables
      BY <1>3, <2>7 DEF ReconcileChildren
    <3> DEFINE c == [call[d] EXCEPT !.step = "restart", !.to = verdict]
    <3>2. /\ c \in [step : Steps, op : Operations, to : FlowStates \cup ChildStates,
                    task : SUBSET Tasks, state : FlowStates, revision : Nat]
          /\ c.step = "restart" /\ c.to \in FlowStates
      BY DEF IInv, TypeOK, Steps, FlowStates
    <3> HIDE DEF c
    <3>3. call' = [call EXCEPT ![d] = c]
      BY <3>1 DEF c
    <3>4. IInv'
      BY <3>1, <3>2, <3>3, ReadKeepsIInv
    <3> QED
      BY <3>1, <3>4
  <2>8. ASSUME NEW d \in Dispatchers, ReconcileTransition(d)
        PROVE  IInv' /\ UNCHANGED tables
    <3>1. call[d].to \in FlowStates
      BY <2>8 DEF ReconcileTransition, IInv, SnapshotsAgree
    <3> QED
      BY <1>3, <2>8, <3>1, ReadForTransitionKeepsIInv
         DEF ReconcileTransition, ReadForTransition, Start
  <2>9. ASSUME NEW d \in Dispatchers, CommitTransition(d)
        PROVE  IInv'
    BY <1>3, <2>9, CommitTransitionKeepsIInv
  <2>10. ASSUME NEW d \in Dispatchers, NEW t \in Tasks, CommitChild(d, t)
         PROVE  IInv'
    BY <1>3, <2>10, CommitChildKeepsIInv
  <2>11. ASSUME NEW d \in Dispatchers, CommitCancel(d)
         PROVE  IInv'
    BY <1>3, <2>11, CommitCancelKeepsIInv
  <2>12. \A d \in Dispatchers : ~Abort(d)
    BY <1>3 DEF Abort
  <2> QED
    BY <1>3, <2>1, <2>2, <2>3, <2>4, <2>5, <2>6, <2>7, <2>8, <2>9, <2>10, <2>11, <2>12
       DEF Next
<1> QED
  BY <1>1, <1>2, <1>3 DEF Return

-----------------------------------------------------------------------------
(* The theorems.                                                           *)

\* The inductive invariant holds in every state of every run.
THEOREM Invariance == Spec => []IInv
<1>1. IInv /\ [Next]_vars => IInv'
  BY StepKeepsIInv
<1> QED
  BY InitIInv, <1>1, PTL DEF Spec

\* Rows, calls and log keep their shape.
THEOREM TypeCorrect == Spec => []TypeOK
<1>1. IInv => TypeOK
  BY DEF IInv
<1> QED
  BY Invariance, <1>1, PTL

\* flow_revisions has no gap, and its last row is the flow's state.
THEOREM LogIsDense == Spec => []DenseLog
<1>1. IInv => DenseLog
  BY DEF IInv
<1> QED
  BY Invariance, <1>1, PTL

\* The child rows are what the log says: no committed update was lost.
THEOREM LogReplays == Spec => []LogReplaysChildren
<1>1. IInv => LogReplaysChildren
  BY DEF IInv
<1> QED
  BY Invariance, <1>1, PTL

\* Nothing commits on a cancelled flow, however early it was read.
THEOREM StickyCancel == Spec => CancelIsSticky
<1>1. IInv /\ [Next]_vars
        => [flow.state = "cancelled" => UNCHANGED <<flow, children, log>>]_vars
  <2> SUFFICES ASSUME IInv, [Next]_vars, flow.state = "cancelled"
               PROVE  UNCHANGED <<flow, children, log>>
    OBVIOUS
  <2>1. CASE UNCHANGED tables
    BY <2>1 DEF tables
  <2>2. \A d \in Dispatchers : ~(CommitTransition(d) /\ ~Return(d))
    BY CommitTransitionKeepsIInv
  <2>3. \A d \in Dispatchers, t \in Tasks : ~(CommitChild(d, t) /\ ~Return(d))
    BY CommitChildKeepsIInv DEF TerminalFlowStates
  <2>4. \A d \in Dispatchers : ~(CommitCancel(d) /\ ~Return(d))
    BY CommitCancelKeepsIInv
  <2> QED
    BY <2>1, <2>2, <2>3, <2>4, StepKeepsIInv
<1> QED
  BY Invariance, <1>1, PTL DEF Spec, CancelIsSticky

\* The ledger's copies of the state sets are the flow's own.
LEMMA SameTypes ==
  /\ Ledger!FlowStates = FlowStates /\ Ledger!ChildStates = ChildStates
  /\ Ledger!TerminalFlowStates = TerminalFlowStates
  /\ Ledger!TaskStatuses = TaskStatuses /\ Ledger!SettledStatuses = SettledStatuses
  /\ Ledger!LiveIn(children) = LiveIn(children)
BY DEF Ledger!FlowStates, FlowStates, Ledger!ChildStates, ChildStates,
       Ledger!TerminalFlowStates, TerminalFlowStates, Ledger!TaskStatuses, TaskStatuses,
       Ledger!SettledStatuses, SettledStatuses, Ledger!LiveIn, LiveIn,
       Ledger!TerminalChildStates, TerminalChildStates

\* The interleaved reads and writes implement the ledger's atomic operations.
THEOREM AtomicOperations == Spec => LedgerSpec
<1>1. Init => Ledger!Init
  BY StatusAssumption, SameTypes DEF Init, Ledger!Init
<1>2. IInv /\ [Next]_vars => [Ledger!Next]_(Ledger!vars)
  <2> SUFFICES ASSUME IInv, [Next]_vars PROVE [Ledger!Next]_(Ledger!vars)
    OBVIOUS
  <2>1. CASE UNCHANGED tables
    BY <2>1 DEF tables, Ledger!vars
  <2>2. ASSUME NEW d \in Dispatchers, CommitTransition(d), ~Return(d)
        PROVE  Ledger!Next
    <3>1. Ledger!Transition(call[d].to)
      BY <2>2, CommitTransitionKeepsIInv, SameTypes DEF Ledger!Transition, Ledger!Bump
    <3>2. call[d].to \in FlowStates
      BY <2>2, CommitTransitionKeepsIInv
    <3> QED
      BY <3>1, <3>2, SameTypes DEF Ledger!Next
  <2>3. ASSUME NEW d \in Dispatchers, NEW t \in Tasks, CommitChild(d, t), ~Return(d)
        PROVE  Ledger!Next
    <3>1. /\ Ledger!Bump(flow.state) /\ UNCHANGED taskStatus
          /\ children' = [children EXCEPT ![t] = call[d].to]
      BY <2>3, CommitChildKeepsIInv DEF Ledger!Bump
    <3>2. CASE /\ flow.state \notin TerminalFlowStates
               /\ children[t] = "absent" /\ call[d].to = "pending"
      BY <3>1, <3>2, SameTypes DEF Ledger!Next, Ledger!AddChild
    <3>3. CASE /\ flow.state # "cancelled"
               /\ children[t] # "absent" /\ call[d].to \in ChildStates
      <4>1. Ledger!UpdateChild(t, call[d].to)
        BY <3>1, <3>3 DEF Ledger!UpdateChild
      <4> QED
        BY <3>3, <4>1, SameTypes DEF Ledger!Next
    <3> QED
      BY <2>3, <3>2, <3>3, CommitChildKeepsIInv
  <2>4. ASSUME NEW d \in Dispatchers, CommitCancel(d), ~Return(d)
        PROVE  Ledger!Next
    <3>1. Ledger!Cancel
      BY <2>4, CommitCancelKeepsIInv, SameTypes DEF Ledger!Cancel, Ledger!Bump
    <3> QED
      BY <3>1 DEF Ledger!Next
  <2> QED
    BY <2>1, <2>2, <2>3, <2>4, StepKeepsIInv
<1> QED
  BY Invariance, <1>1, <1>2, PTL DEF Spec, LedgerSpec, Ledger!Spec
=============================================================================
