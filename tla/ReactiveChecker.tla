--------------------------- MODULE ReactiveChecker ---------------------------
(***************************************************************************)
(* reactive_check.py: the threads of the orchestrator that want a Bash     *)
(* command checked, the lock they share, and the worker process that       *)
(* checks one command at a time behind two pipes.  The worker may hang,    *)
(* answer nonsense or die at any moment; a deadline may pass at any moment *)
(* while no whole line has arrived.                                        *)
(*                                                                         *)
(* A caller whose coroutine is cancelled leaves its thread behind, which   *)
(* is what is modelled.  A reply is two chunks, a head and an end.         *)
(***************************************************************************)
EXTENDS Sequences, Naturals

CONSTANTS
  Threads, Free,   \* Free: the lock is held by no thread
  Commands,
  Flagged,     \* what check_bash_command refuses
  MaxChecks    \* bound: how many commands are checked in all

ASSUME ReactiveCheckerAssumption ==
  Free \notin Threads /\ Flagged \subseteq Commands /\ MaxChecks \in Nat

VARIABLES
  thread,   \* each thread's check: [phase, command, answer]
  lock,     \* the thread that holds self._lock
  handle,   \* self._proc is set
  worker,   \* the process behind it: "none", "loading", "waiting", "checking", "dead"
  stdin,    \* commands sent to the worker; the first is being checked
  stdout,   \* chunks on their way from the worker
  buffer,   \* self._buffer
  checks

pipes == <<stdin, stdout, buffer>>
vars == <<thread, lock, handle, worker, stdin, stdout, buffer, checks>>

Phases == {"idle", "blocked", "ensuring", "starting", "sending", "reading", "failing"}
Answers == {"none", "safe", "flagged"}
Checks == [phase : Phases, command : Commands, answer : Answers]
Chunks == [text : Answers \cup {"ready", "error", "malformed"}, end : BOOLEAN]

Verdict(command) == IF command \in Flagged THEN "flagged" ELSE "safe"
Reply(text) == <<[text |-> text, end |-> FALSE], [text |-> text, end |-> TRUE]>>
WholeLine == \E i \in DOMAIN buffer : buffer[i].end

Init ==
  /\ thread \in [Threads -> [phase : {"idle"}, command : Commands, answer : {"none"}]]
  /\ lock = Free /\ handle = FALSE /\ worker = "none"
  /\ stdin = <<>> /\ stdout = <<>> /\ buffer = <<>>
  /\ checks = 0

GoTo(t, phase) == thread' = [thread EXCEPT ![t].phase = phase]

\* The lock is released with the answer.
Answer(t, answer) ==
  /\ thread' = [thread EXCEPT ![t].phase = "idle", ![t].answer = answer]
  /\ lock' = Free

-----------------------------------------------------------------------------
(* check_blocking.                                                         *)

\* A command over the size cap is flagged at once, and refused when the cap cannot
\* be loaded; the others wait for the lock.
Ask(t, command, at) ==
  /\ thread[t].phase = "idle" /\ checks < MaxChecks /\ checks' = checks + 1
  /\ \/ /\ at = "lock"
        /\ thread' = [thread EXCEPT ![t] = [phase |-> "blocked", command |-> command,
                                            answer |-> "none"]]
     \/ /\ at = "none" \/ (at = "flagged" /\ command \in Flagged)
        /\ thread' = [thread EXCEPT ![t] = [phase |-> "idle", command |-> command,
                                            answer |-> at]]
  /\ UNCHANGED <<lock, handle, worker, pipes>>

Acquire(t) ==
  /\ thread[t].phase = "blocked" /\ lock = Free
  /\ lock' = t /\ GoTo(t, "ensuring")
  /\ UNCHANGED <<handle, worker, pipes, checks>>

\* _ensure_worker and _start_worker: one that died while idle is replaced.
EnsureWorker(t, starts) ==
  /\ thread[t].phase = "ensuring"
  /\ IF handle /\ worker # "dead"
     THEN GoTo(t, "sending") /\ UNCHANGED <<handle, worker, pipes>>
     ELSE /\ GoTo(t, IF starts THEN "starting" ELSE "failing")
          /\ handle' = starts /\ worker' = IF starts THEN "loading" ELSE "none"
          /\ stdin' = <<>> /\ stdout' = <<>> /\ buffer' = <<>>
  /\ UNCHANGED <<lock, checks>>

\* The write does not block, even on a request longer than the pipe holds: the
\* worker it is written to is back at its reads (see KeptWorkerOwesNothing).
Send(t) ==
  /\ thread[t].phase = "sending"
  /\ IF worker = "dead" THEN GoTo(t, "failing") /\ UNCHANGED stdin
     ELSE GoTo(t, "reading") /\ stdin' = Append(stdin, thread[t].command)
  /\ UNCHANGED <<lock, handle, worker, stdout, buffer, checks>>

\* _read_reply.
Waits(t) == thread[t].phase \in {"starting", "reading"} /\ ~WholeLine

Read(t) ==
  /\ Waits(t) /\ stdout # <<>>
  /\ buffer' = Append(buffer, Head(stdout)) /\ stdout' = Tail(stdout)
  /\ UNCHANGED <<thread, lock, handle, worker, stdin, checks>>

EndOfOutput(t) ==
  /\ Waits(t) /\ stdout = <<>> /\ worker = "dead"
  /\ GoTo(t, "failing")
  /\ UNCHANGED <<lock, handle, worker, pipes, checks>>

\* Mutant of MissDeadline: the deadline is looked at only when something arrived.
MissDeadlineOnInput(t) ==
  /\ Waits(t) /\ stdout # <<>> /\ GoTo(t, "failing")
  /\ UNCHANGED <<lock, handle, worker, pipes, checks>>

MissDeadline(t) ==
  /\ Waits(t) /\ GoTo(t, "failing")
  /\ UNCHANGED <<lock, handle, worker, pipes, checks>>

TakeReady(t) ==
  /\ thread[t].phase = "starting" /\ WholeLine
  /\ buffer' = <<>>
  /\ GoTo(t, IF buffer[1].text = "ready" THEN "sending" ELSE "failing")
  /\ UNCHANGED <<lock, handle, worker, stdin, stdout, checks>>

\* Mutant of TakeVerdict: what the worker sent is not looked at.
TakeVerdictUnchecked(t) ==
  /\ thread[t].phase = "reading" /\ WholeLine
  /\ buffer' = <<>>
  /\ IF buffer[1].text = "error" THEN GoTo(t, "failing") /\ UNCHANGED lock
     ELSE Answer(t, buffer[1].text)
  /\ UNCHANGED <<handle, worker, stdin, stdout, checks>>

\* An error is a failure of the worker; a reply that is no verdict is answered with
\* none, and the worker is kept.
TakeVerdict(t) ==
  /\ thread[t].phase = "reading" /\ WholeLine
  /\ buffer' = <<>>
  /\ IF buffer[1].text = "error" THEN GoTo(t, "failing") /\ UNCHANGED lock
     ELSE Answer(t, IF buffer[1].text = "malformed" THEN "none" ELSE buffer[1].text)
  /\ UNCHANGED <<handle, worker, stdin, stdout, checks>>

\* _discard_worker: whatever the old worker still sends, nobody reads.
DiscardWorker ==
  /\ handle' = FALSE /\ worker' = "none"
  /\ stdin' = <<>> /\ stdout' = <<>> /\ buffer' = <<>>

\* Mutant of Fail: a worker that is only slow is kept.
FailKeepingWorker(t) ==
  /\ thread[t].phase = "failing"
  /\ Answer(t, "none")
  /\ IF worker \in {"waiting", "checking"}
     THEN buffer' = <<>> /\ UNCHANGED <<handle, worker, stdin, stdout>>
     ELSE DiscardWorker
  /\ UNCHANGED checks

Fail(t) ==
  /\ thread[t].phase = "failing"
  /\ Answer(t, "none") /\ DiscardWorker
  /\ UNCHANGED checks

Close ==
  /\ lock = Free /\ handle
  /\ DiscardWorker
  /\ UNCHANGED <<thread, lock, checks>>

-----------------------------------------------------------------------------
(* The worker process: _worker_main.                                       *)

WorkerLoads(works) ==
  /\ worker = "loading"
  /\ IF works THEN worker' = "waiting" /\ stdout' = stdout \o Reply("ready")
     ELSE worker' = "dead" /\ stdout' = stdout \o Reply("error")
  /\ UNCHANGED <<thread, lock, handle, stdin, buffer, checks>>

WorkerTakes ==
  /\ worker = "waiting" /\ stdin # <<>> /\ worker' = "checking"
  /\ UNCHANGED <<thread, lock, handle, pipes, checks>>

WorkerReplies(text) ==
  /\ worker = "checking" /\ worker' = "waiting"
  /\ text \in {Verdict(Head(stdin)), "error", "malformed"}
  /\ stdin' = Tail(stdin) /\ stdout' = stdout \o Reply(text)
  /\ UNCHANGED <<thread, lock, handle, buffer, checks>>

\* At any moment, in the middle of a reply too.
WorkerDies(torn) ==
  /\ worker \in {"loading", "waiting", "checking"} /\ worker' = "dead"
  /\ IF torn THEN worker = "checking" /\ stdout' = Append(stdout, Reply("malformed")[1])
     ELSE UNCHANGED stdout
  /\ UNCHANGED <<thread, lock, handle, stdin, buffer, checks>>

-----------------------------------------------------------------------------
Holder(t) ==
  \/ \E starts \in BOOLEAN : EnsureWorker(t, starts)
  \/ Send(t) \/ Read(t) \/ EndOfOutput(t) \/ MissDeadline(t)
  \/ TakeReady(t) \/ TakeVerdict(t) \/ Fail(t)

Worker ==
  \/ \E works \in BOOLEAN : WorkerLoads(works) \/ WorkerDies(works)
  \/ WorkerTakes
  \/ \E text \in Answers \cup {"error", "malformed"} : WorkerReplies(text)

Next ==
  \/ \E t \in Threads :
       \/ \E command \in Commands, at \in {"lock", "none", "flagged"} : Ask(t, command, at)
       \/ Acquire(t)
       \/ Holder(t)
  \/ Close
  \/ Worker

\* A thread that has the lock runs, and its deadline passes; the worker need not
\* ever do anything.
Spec == Init /\ [][Next]_vars /\ \A t \in Threads : WF_vars(Holder(t))

-----------------------------------------------------------------------------
(* Properties.                                                             *)

TypeOK ==
  /\ thread \in [Threads -> Checks]
  /\ lock \in Threads \cup {Free}
  /\ handle \in BOOLEAN
  /\ worker \in {"none", "loading", "waiting", "checking", "dead"}
  /\ stdin \in Seq(Commands)
  /\ stdout \in Seq(Chunks)
  /\ buffer \in Seq(Chunks)
  /\ checks \in 0..MaxChecks

\* No command is answered with the verdict of another one, however late a worker
\* is, whatever it leaves in its pipes, and whichever thread asks next: an answer is
\* the verdict of the command it answers, or none, which the caller takes for a
\* refusal.
AnswersItsQuestion ==
  \A t \in Threads : thread[t].answer \in {"none", Verdict(thread[t].command)}

\* The reason why: between two checks, and when a request is written, the worker
\* that is kept owes nothing.  It is back at its reads or dead, so nobody writes to
\* a worker that still computes.
KeptWorkerOwesNothing ==
  (lock = Free /\ handle) \/ (\E t \in Threads : thread[t].phase = "sending") =>
    /\ stdin = <<>> /\ buffer = <<>>
    /\ worker \in {"waiting", "dead"}
    /\ stdout = <<>>

\* A worker that hangs, dies or talks nonsense cannot keep the lock: the check that
\* holds it comes to an end.
LockIsGivenBack == \A t \in Threads : lock = t ~> lock # t
=============================================================================
