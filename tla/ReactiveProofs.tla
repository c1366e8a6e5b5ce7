--------------------------- MODULE ReactiveProofs ---------------------------
(***************************************************************************)
(* Proofs about ReactiveChecker, for any number of threads and commands.   *)
(* What a worker owes is told by the phase of the thread that has the      *)
(* lock: that is the inductive invariant.                                  *)
(***************************************************************************)
EXTENDS ReactiveChecker, SequenceTheorems, TLAPS

Holding == {"ensuring", "starting", "sending", "reading", "failing"}
ReplyTexts == {"safe", "flagged", "error", "malformed"}

\* The lock is held by the thread that is past it, and by no other.
LockInv == \A t \in Threads : thread[t].phase \in Holding <=> lock = t

WorkerInv ==
  /\ handle <=> worker # "none"
  /\ worker = "none" => stdin = <<>> /\ stdout = <<>> /\ buffer = <<>>
  /\ worker = "checking" => stdin # <<>>

Quiet == stdin = <<>> /\ stdout = <<>> /\ buffer = <<>>

\* A reply is in the worker's pipe, in part or wholly in the reader's buffer.
Arriving(text) ==
  \/ buffer = <<>> /\ stdout = Reply(text)
  \/ buffer = <<Reply(text)[1]>> /\ stdout = <<Reply(text)[2]>>
  \/ buffer = Reply(text) /\ stdout = <<>>

\* The worker died in the middle of a reply.
Torn ==
  \/ buffer = <<>> /\ stdout = <<Reply("malformed")[1]>>
  \/ buffer = <<Reply("malformed")[1]>> /\ stdout = <<>>

Silent == buffer = <<>> /\ stdout = <<>>

IdleInv == worker \in {"none", "waiting", "dead"} /\ Quiet

StartingInv ==
  /\ stdin = <<>>
  /\ \/ worker \in {"loading", "dead"} /\ Silent
     \/ worker \in {"waiting", "dead"} /\ Arriving("ready")
     \/ worker = "dead" /\ Arriving("error")

SendingInv == worker \in {"waiting", "dead"} /\ Quiet

ReadingInv(command) ==
  \/ worker \in {"waiting", "checking", "dead"} /\ stdin = <<command>> /\ Silent
  \/ worker = "dead" /\ stdin = <<command>> /\ Torn
  \/ /\ worker \in {"waiting", "dead"} /\ stdin = <<>>
     /\ \E text \in {Verdict(command), "error", "malformed"} : Arriving(text)

PipeInv ==
  /\ lock = Free => IdleInv
  /\ \A t \in Threads : lock = t =>
       /\ thread[t].phase = "ensuring" => IdleInv
       /\ thread[t].phase = "starting" => StartingInv
       /\ thread[t].phase = "sending" => SendingInv
       /\ thread[t].phase = "reading" => ReadingInv(thread[t].command)

IInv == TypeOK /\ LockInv /\ WorkerInv /\ PipeInv /\ AnswersItsQuestion

-----------------------------------------------------------------------------
(* Replies in the pipe.                                                    *)


\* What the operators on sequences make of two elements.
LEMMA Pairs ==
  ASSUME NEW a, NEW b
  PROVE  /\ Head(<<a, b>>) = a /\ Tail(<<a, b>>) = <<b>>
         /\ Head(<<b>>) = b /\ Tail(<<b>>) = <<>>
         /\ DOMAIN <<a, b>> = {1, 2} /\ DOMAIN <<a>> = {1}
         /\ <<>> \o <<a, b>> = <<a, b>>
         /\ Append(<<>>, a) = <<a>> /\ Append(<<a>>, b) = <<a, b>>
<1> DEFINE S == {a, b}
           appended == Append(<<a>>, b)
           pair == <<a, b>>
<1>1. appended \in Seq(S) /\ pair \in Seq(S) /\ Len(appended) = 2 /\ Len(pair) = 2
  OBVIOUS
<1>2. appended[1] = a /\ appended[2] = b /\ pair[1] = a /\ pair[2] = b
  OBVIOUS
<1>3. appended = pair
  <2> HIDE DEF appended, pair, S
  <2>1. \A i \in 1..Len(appended) : appended[i] = pair[i]
    BY <1>1, <1>2
  <2> QED
    BY <1>1, <2>1, SeqEqual
<1>4. Head(<<a, b>>) = a /\ Tail(<<a, b>>) = <<b>>
  OBVIOUS
<1>5. Head(<<b>>) = b /\ Tail(<<b>>) = <<>>
  OBVIOUS
<1>6. DOMAIN <<a, b>> = {1, 2} /\ DOMAIN <<a>> = {1}
  OBVIOUS
<1>7. <<>> \o <<a, b>> = <<a, b>>
  OBVIOUS
<1>8. Append(<<>>, a) = <<a>>
  OBVIOUS
<1> QED
  BY <1>3, <1>4, <1>5, <1>6, <1>7, <1>8

\* A reply is a head and an end, both with its text.
LEMMA TwoChunks ==
  ASSUME NEW text
  PROVE  /\ Reply(text) = <<Reply(text)[1], Reply(text)[2]>>
         /\ Reply(text)[1].end = FALSE
         /\ Reply(text)[1].text = text
  BY DEF Reply

\* A whole line of a reply is the reply, and nothing is left behind it.
LEMMA WholeReply ==
  ASSUME NEW text, Arriving(text), WholeLine
  PROVE  buffer[1].text = text /\ stdout = <<>>
<1> DEFINE a == Reply(text)[1]
<1>1. buffer # <<>>
  BY DEF WholeLine
<1>2. ASSUME buffer = <<a>>
      PROVE  FALSE
  <2>1. DOMAIN buffer = {1} /\ buffer[1] = a
    BY <1>2
  <2>2. ~a.end
    BY TwoChunks, Zenon
  <2> QED
    BY <2>1, <2>2 DEF WholeLine
<1>3. buffer = Reply(text) /\ stdout = <<>>
  BY <1>1, <1>2 DEF Arriving
<1> QED
  BY <1>3, TwoChunks

\* Neither silence nor a torn reply is ever a whole line.
LEMMA NoWholeLine ==
  ASSUME Silent \/ Torn
  PROVE  ~WholeLine
<1> DEFINE a == Reply("malformed")[1]
<1>1. CASE buffer = <<>>
  BY <1>1 DEF WholeLine
<1>2. CASE buffer = <<a>>
  <2>1. DOMAIN buffer = {1} /\ buffer[1] = a
    BY <1>2
  <2>2. ~a.end
    BY TwoChunks, Zenon
  <2> QED
    BY <2>1, <2>2 DEF WholeLine
<1> QED
  BY <1>1, <1>2 DEF Silent, Torn

\* Reading one chunk leaves what is arriving on its way.
LEMMA ReadKeeps ==
  ASSUME stdout # <<>>, buffer' = Append(buffer, Head(stdout)), stdout' = Tail(stdout)
  PROVE  /\ \A text : Arriving(text) => Arriving(text)'
         /\ Torn => Torn'
         /\ ~Silent
<1>1. ASSUME NEW text, Arriving(text)
      PROVE  Arriving(text)'
  <2> DEFINE a == Reply(text)[1]
             b == Reply(text)[2]
  <2>1. CASE buffer = <<>> /\ stdout = <<a, b>>
    BY <2>1, Pairs DEF Arriving
  <2>2. CASE buffer = <<a>> /\ stdout = <<b>>
    <3>1. buffer' = <<a, b>> /\ stdout' = <<>>
      BY <2>2, Pairs
    <3> QED
      BY <3>1, TwoChunks DEF Arriving
  <2> QED
    BY <1>1, <2>1, <2>2, TwoChunks DEF Arriving
<1>2. ASSUME Torn
      PROVE  Torn'
  BY <1>2, Pairs DEF Torn
<1> QED
  BY <1>1, <1>2 DEF Silent

\* The reply to a silent reader is arriving.
LEMMA ReplyArrives ==
  ASSUME NEW text, Silent, stdout' = stdout \o Reply(text), buffer' = buffer
  PROVE  Arriving(text)'
<1>1. stdout' = <<>> \o <<Reply(text)[1], Reply(text)[2]>>
  BY TwoChunks DEF Silent
<1>2. stdout' = <<Reply(text)[1], Reply(text)[2]>>
  BY <1>1, Pairs
<1> QED
  BY <1>2, TwoChunks DEF Silent, Arriving

-----------------------------------------------------------------------------
(* Steps.                                                                  *)

\* The lock moves only between Free and the thread that takes or gives it back.
LEMMA LockStep ==
  ASSUME TypeOK, LockInv, Next
  PROVE  LockInv'
<1>1. ASSUME NEW t \in Threads, NEW command \in Commands,
             NEW at \in {"lock", "none", "flagged"}, Ask(t, command, at)
      PROVE  LockInv'
  BY <1>1, ReactiveCheckerAssumption
  DEF Ask, LockInv, Holding, TypeOK, Checks, GoTo, Answer, DiscardWorker, Waits, pipes
<1>2. ASSUME NEW t \in Threads, Acquire(t)
      PROVE  LockInv'
  BY <1>2, ReactiveCheckerAssumption
  DEF Acquire, LockInv, Holding, TypeOK, Checks, GoTo, Answer, DiscardWorker, Waits, pipes
<1>3. ASSUME NEW t \in Threads, NEW starts \in BOOLEAN, EnsureWorker(t, starts)
      PROVE  LockInv'
  BY <1>3, ReactiveCheckerAssumption
  DEF EnsureWorker, LockInv, Holding, TypeOK, Checks, GoTo, Answer, DiscardWorker, Waits,
      pipes
<1>4. ASSUME NEW t \in Threads, Send(t)
      PROVE  LockInv'
  BY <1>4, ReactiveCheckerAssumption
  DEF Send, LockInv, Holding, TypeOK, Checks, GoTo, Answer, DiscardWorker, Waits, pipes
<1>5. ASSUME NEW t \in Threads, Read(t)
      PROVE  LockInv'
  BY <1>5, ReactiveCheckerAssumption
  DEF Read, LockInv, Holding, TypeOK, Checks, GoTo, Answer, DiscardWorker, Waits, pipes
<1>6. ASSUME NEW t \in Threads, EndOfOutput(t)
      PROVE  LockInv'
  BY <1>6, ReactiveCheckerAssumption
  DEF EndOfOutput, LockInv, Holding, TypeOK, Checks, GoTo, Answer, DiscardWorker, Waits,
      pipes
<1>7. ASSUME NEW t \in Threads, MissDeadline(t)
      PROVE  LockInv'
  BY <1>7, ReactiveCheckerAssumption
  DEF MissDeadline, LockInv, Holding, TypeOK, Checks, GoTo, Answer, DiscardWorker, Waits,
      pipes
<1>8. ASSUME NEW t \in Threads, TakeReady(t)
      PROVE  LockInv'
  BY <1>8, ReactiveCheckerAssumption
  DEF TakeReady, LockInv, Holding, TypeOK, Checks, GoTo, Answer, DiscardWorker, Waits, pipes
<1>9. ASSUME NEW t \in Threads, TakeVerdict(t)
      PROVE  LockInv'
  BY <1>9, ReactiveCheckerAssumption
  DEF TakeVerdict, LockInv, Holding, TypeOK, Checks, GoTo, Answer, DiscardWorker, Waits,
      pipes
<1>10. ASSUME NEW t \in Threads, Fail(t)
      PROVE  LockInv'
  BY <1>10, ReactiveCheckerAssumption
  DEF Fail, LockInv, Holding, TypeOK, Checks, GoTo, Answer, DiscardWorker, Waits, pipes
<1>11. ASSUME Close
      PROVE  LockInv'
  BY <1>11, ReactiveCheckerAssumption
  DEF Close, LockInv, Holding, TypeOK, Checks, GoTo, Answer, DiscardWorker, Waits, pipes
<1>12. ASSUME NEW works \in BOOLEAN, WorkerLoads(works)
      PROVE  LockInv'
  BY <1>12 DEF WorkerLoads, LockInv, pipes
<1>13. ASSUME WorkerTakes
      PROVE  LockInv'
  BY <1>13 DEF WorkerTakes, LockInv, pipes
<1>14. ASSUME NEW text \in ReplyTexts, WorkerReplies(text)
      PROVE  LockInv'
  BY <1>14 DEF WorkerReplies, LockInv, pipes
<1>15. ASSUME NEW torn \in BOOLEAN, WorkerDies(torn)
      PROVE  LockInv'
  BY <1>15 DEF WorkerDies, LockInv, pipes
<1> QED
  BY <1>1, <1>2, <1>3, <1>4, <1>5, <1>6, <1>7, <1>8,
     <1>9, <1>10, <1>11, <1>12, <1>13, <1>14, <1>15
  DEF Next, Holder, Worker, WorkerReplies, ReplyTexts, Verdict

LEMMA WorkerStep ==
  ASSUME TypeOK, LockInv, PipeInv, WorkerInv, Next
  PROVE  WorkerInv'
<1>1. ASSUME NEW t \in Threads, NEW command \in Commands,
             NEW at \in {"lock", "none", "flagged"}, Ask(t, command, at)
      PROVE  WorkerInv'
  BY <1>1 DEF Ask, WorkerInv, DiscardWorker, pipes
<1>2. ASSUME NEW t \in Threads, Acquire(t)
      PROVE  WorkerInv'
  BY <1>2 DEF Acquire, WorkerInv, DiscardWorker, pipes
<1>3. ASSUME NEW t \in Threads, NEW starts \in BOOLEAN, EnsureWorker(t, starts)
      PROVE  WorkerInv'
  BY <1>3 DEF EnsureWorker, WorkerInv, DiscardWorker, pipes
<1>4. ASSUME NEW t \in Threads, Send(t)
      PROVE  WorkerInv'
  BY <1>4 DEF Send, WorkerInv, LockInv, Holding, PipeInv, SendingInv, TypeOK, pipes
<1>5. ASSUME NEW t \in Threads, Read(t)
      PROVE  WorkerInv'
  BY <1>5 DEF Read, WorkerInv, DiscardWorker, pipes
<1>6. ASSUME NEW t \in Threads, EndOfOutput(t)
      PROVE  WorkerInv'
  BY <1>6 DEF EndOfOutput, WorkerInv, DiscardWorker, pipes
<1>7. ASSUME NEW t \in Threads, MissDeadline(t)
      PROVE  WorkerInv'
  BY <1>7 DEF MissDeadline, WorkerInv, DiscardWorker, pipes
<1>8. ASSUME NEW t \in Threads, TakeReady(t)
      PROVE  WorkerInv'
  BY <1>8 DEF TakeReady, WorkerInv, DiscardWorker, pipes
<1>9. ASSUME NEW t \in Threads, TakeVerdict(t)
      PROVE  WorkerInv'
  BY <1>9 DEF TakeVerdict, WorkerInv, DiscardWorker, pipes
<1>10. ASSUME NEW t \in Threads, Fail(t)
      PROVE  WorkerInv'
  BY <1>10 DEF Fail, WorkerInv, DiscardWorker, pipes
<1>11. ASSUME Close
      PROVE  WorkerInv'
  BY <1>11 DEF Close, WorkerInv, DiscardWorker, pipes
<1>12. ASSUME NEW works \in BOOLEAN, WorkerLoads(works)
      PROVE  WorkerInv'
  BY <1>12 DEF WorkerLoads, WorkerInv, DiscardWorker, pipes
<1>13. ASSUME WorkerTakes
      PROVE  WorkerInv'
  BY <1>13 DEF WorkerTakes, WorkerInv, DiscardWorker, pipes
<1>14. ASSUME NEW text \in ReplyTexts, WorkerReplies(text)
      PROVE  WorkerInv'
  BY <1>14 DEF WorkerReplies, WorkerInv, DiscardWorker, pipes
<1>15. ASSUME NEW torn \in BOOLEAN, WorkerDies(torn)
      PROVE  WorkerInv'
  BY <1>15 DEF WorkerDies, WorkerInv, DiscardWorker, pipes
<1> QED
  BY <1>1, <1>2, <1>3, <1>4, <1>5, <1>6, <1>7, <1>8,
     <1>9, <1>10, <1>11, <1>12, <1>13, <1>14, <1>15
  DEF Next, Holder, Worker, WorkerReplies, ReplyTexts, Verdict

\* What the worker owes follows the phase of the thread that has the lock.
LEMMA PipeStep ==
  ASSUME TypeOK, LockInv, WorkerInv, PipeInv, Next
  PROVE  PipeInv'
<1>1. ASSUME NEW t \in Threads, NEW command \in Commands,
             NEW at \in {"lock", "none", "flagged"}, Ask(t, command, at)
      PROVE  PipeInv'
  BY <1>1, ReactiveCheckerAssumption
  DEF Ask, TypeOK, pipes, PipeInv, IdleInv, StartingInv, SendingInv, ReadingInv, Quiet,
      Silent, Torn, Arriving, LockInv, Holding
<1>2. ASSUME NEW t \in Threads, Acquire(t)
      PROVE  PipeInv'
  BY <1>2, ReactiveCheckerAssumption
  DEF Acquire, TypeOK, Checks, GoTo, pipes, PipeInv, IdleInv, StartingInv, SendingInv,
      ReadingInv, Quiet, Silent, Torn, Arriving, LockInv, Holding
<1>3. ASSUME NEW t \in Threads, NEW starts \in BOOLEAN, EnsureWorker(t, starts)
      PROVE  PipeInv'
  BY <1>3, ReactiveCheckerAssumption
  DEF EnsureWorker, TypeOK, Checks, GoTo, WorkerInv, pipes, PipeInv, IdleInv, StartingInv,
      SendingInv, Quiet, Silent, LockInv, Holding
<1>4. ASSUME NEW t \in Threads, Send(t)
      PROVE  PipeInv'
  <2>1. lock = t /\ lock' = t /\ SendingInv
    BY <1>4 DEF Send, PipeInv, LockInv, Holding
  <2>2. CASE worker = "dead"
    BY <1>4, <2>1, <2>2, ReactiveCheckerAssumption DEF Send, GoTo, TypeOK, Checks, PipeInv
  <2>3. CASE worker # "dead"
    <3>1. stdin' = <<thread[t].command>>
      BY <1>4, <2>1, <2>3, Pairs DEF Send, SendingInv, Quiet
    <3>2. thread'[t].command = thread[t].command /\ thread'[t].phase = "reading"
      BY <1>4, <2>3 DEF Send, GoTo, TypeOK, Checks
    <3>3. ReadingInv(thread[t].command)'
      BY <1>4, <2>1, <3>1, <3>2 DEF Send, SendingInv, ReadingInv, Quiet, Silent
    <3> QED
      BY <2>1, <3>2, <3>3, ReactiveCheckerAssumption DEF PipeInv
  <2> QED
    BY <2>2, <2>3
<1>5. ASSUME NEW t \in Threads, Read(t)
      PROVE  PipeInv'
  <2>1. lock = t /\ thread' = thread /\ lock' = lock /\ worker' = worker /\ stdin' = stdin
    BY <1>5 DEF Read, Waits, LockInv, Holding
  <2>2. /\ \A text : Arriving(text) => Arriving(text)'
        /\ Torn => Torn'
        /\ ~Silent
    BY <1>5, ReadKeeps DEF Read
  <2>3. StartingInv => StartingInv'
    BY <2>1, <2>2 DEF StartingInv
  <2>4. ASSUME ReadingInv(thread[t].command)
        PROVE  ReadingInv(thread[t].command)'
    BY <2>1, <2>2, <2>4 DEF ReadingInv
  <2> QED
    BY <1>5, <2>1, <2>3, <2>4, ReactiveCheckerAssumption DEF PipeInv, Read, Waits
<1>6. ASSUME NEW t \in Threads, EndOfOutput(t)
      PROVE  PipeInv'
  BY <1>6, ReactiveCheckerAssumption
  DEF EndOfOutput, TypeOK, Checks, GoTo, Waits, PipeInv, LockInv, Holding
<1>7. ASSUME NEW t \in Threads, MissDeadline(t)
      PROVE  PipeInv'
  BY <1>7, ReactiveCheckerAssumption
  DEF MissDeadline, TypeOK, Checks, GoTo, Waits, PipeInv, LockInv, Holding
<1>8. ASSUME NEW t \in Threads, TakeReady(t)
      PROVE  PipeInv'
  <2>1. lock = t /\ lock' = t /\ StartingInv
    BY <1>8 DEF TakeReady, PipeInv, LockInv, Holding
  <2>2. CASE Arriving("ready") /\ worker \in {"waiting", "dead"}
    <3>1. stdout = <<>>
      BY <1>8, <2>2, WholeReply DEF TakeReady
    <3>2. SendingInv'
      BY <1>8, <2>1, <2>2, <3>1 DEF TakeReady, StartingInv, SendingInv, Quiet
    <3> QED
      BY <1>8, <2>1, <3>2, ReactiveCheckerAssumption
      DEF TakeReady, GoTo, TypeOK, Checks, PipeInv
  <2>3. CASE Arriving("error")
    <3>1. buffer[1].text = "error"
      BY <1>8, <2>3, WholeReply DEF TakeReady
    <3> QED
      BY <1>8, <2>1, <3>1, ReactiveCheckerAssumption
      DEF TakeReady, GoTo, TypeOK, Checks, PipeInv
  <2> QED
    BY <1>8, <2>1, <2>2, <2>3, NoWholeLine DEF StartingInv, TakeReady
<1>9. ASSUME NEW t \in Threads, TakeVerdict(t)
      PROVE  PipeInv'
  <2>1. lock = t /\ ReadingInv(thread[t].command)
    BY <1>9 DEF TakeVerdict, PipeInv, LockInv, Holding
  <2>2. PICK text : Arriving(text) /\ worker \in {"waiting", "dead"} /\ stdin = <<>>
    BY <1>9, <2>1, NoWholeLine DEF ReadingInv, TakeVerdict
  <2>3. IdleInv'
    BY <1>9, <2>2, WholeReply DEF TakeVerdict, IdleInv, Quiet
  <2> QED
    BY <1>9, <2>1, <2>3, ReactiveCheckerAssumption
    DEF TakeVerdict, GoTo, Answer, TypeOK, Checks, PipeInv
<1>10. ASSUME NEW t \in Threads, Fail(t)
      PROVE  PipeInv'
  BY <1>10, ReactiveCheckerAssumption
  DEF Fail, Answer, DiscardWorker, PipeInv, IdleInv, Quiet
<1>11. ASSUME Close
      PROVE  PipeInv'
  BY <1>11, ReactiveCheckerAssumption DEF Close, DiscardWorker, PipeInv, IdleInv, Quiet
<1>12. ASSUME NEW works \in BOOLEAN, WorkerLoads(works)
      PROVE  PipeInv'
  <2>1. lock # Free /\ \A t \in Threads : lock = t => thread[t].phase \in {"starting",
  "failing"}
    BY <1>12 DEF WorkerLoads, PipeInv, IdleInv, SendingInv, ReadingInv, LockInv, Holding
  <2>2. ASSUME NEW t \in Threads, lock = t, thread[t].phase = "starting"
        PROVE  StartingInv'
    <3>1. stdin = <<>> /\ Silent
      BY <1>12, <2>2 DEF WorkerLoads, PipeInv, StartingInv
    <3> QED
      BY <1>12, <3>1, ReplyArrives DEF WorkerLoads, StartingInv
  <2> QED
    BY <1>12, <2>1, <2>2 DEF WorkerLoads, PipeInv
<1>13. ASSUME WorkerTakes
      PROVE  PipeInv'
  <2>1. lock # Free /\ \A t \in Threads : lock = t => thread[t].phase \in {"reading",
  "failing"}
    BY <1>13
    DEF WorkerTakes, PipeInv, IdleInv, SendingInv, StartingInv, Quiet, LockInv, Holding
  <2>2. ASSUME NEW t \in Threads, lock = t, thread[t].phase = "reading"
        PROVE  ReadingInv(thread[t].command)'
    <3>1. stdin = <<thread[t].command>> /\ Silent
      BY <1>13, <2>2 DEF WorkerTakes, PipeInv, ReadingInv
    <3> QED
      BY <1>13, <3>1 DEF WorkerTakes, ReadingInv, Silent, pipes
  <2> QED
    BY <1>13, <2>1, <2>2 DEF WorkerTakes, PipeInv
<1>14. ASSUME NEW text \in ReplyTexts, WorkerReplies(text)
      PROVE  PipeInv'
  <2>1. lock # Free /\ \A t \in Threads : lock = t => thread[t].phase \in {"reading",
  "failing"}
    BY <1>14 DEF WorkerReplies, PipeInv, IdleInv, SendingInv, StartingInv, LockInv, Holding
  <2>2. ASSUME NEW t \in Threads, lock = t, thread[t].phase = "reading"
        PROVE  ReadingInv(thread[t].command)'
    <3>1. stdin = <<thread[t].command>> /\ Silent
      BY <1>14, <2>2 DEF WorkerReplies, PipeInv, ReadingInv
    <3>2. stdin' = <<>> /\ text \in {Verdict(thread[t].command), "error", "malformed"}
      BY <1>14, <3>1, Pairs DEF WorkerReplies
    <3>3. Arriving(text)'
      BY <1>14, <3>1, ReplyArrives DEF WorkerReplies
    <3> QED
      BY <1>14, <3>2, <3>3 DEF WorkerReplies, ReadingInv, Verdict
  <2> QED
    BY <1>14, <2>1, <2>2 DEF WorkerReplies, PipeInv
<1>15. ASSUME NEW torn \in BOOLEAN, WorkerDies(torn)
      PROVE  PipeInv'
  <2>1. CASE ~torn
    BY <1>15, <2>1 DEF WorkerDies, PipeInv, IdleInv, StartingInv, SendingInv, ReadingInv,
                    Quiet, Silent, Torn, Arriving, Verdict
  <2>2. CASE torn
    <3>1. lock # Free /\ \A t \in Threads : lock = t => thread[t].phase \in {"reading",
    "failing"}
      BY <1>15, <2>2
      DEF WorkerDies, PipeInv, IdleInv, SendingInv, StartingInv, LockInv, Holding
    <3>2. ASSUME NEW t \in Threads, lock = t, thread[t].phase = "reading"
          PROVE  ReadingInv(thread[t].command)'
      <4>1. stdin = <<thread[t].command>> /\ Silent
        BY <1>15, <2>2, <3>2 DEF WorkerDies, PipeInv, ReadingInv
      <4>2. Torn'
        BY <1>15, <2>2, <4>1, Pairs DEF WorkerDies, Torn, Silent
      <4> QED
        BY <1>15, <4>1, <4>2 DEF WorkerDies, ReadingInv
    <3> QED
      BY <1>15, <3>1, <3>2 DEF WorkerDies, PipeInv
  <2> QED
    BY <2>1, <2>2
<1> QED
  BY <1>1, <1>2, <1>3, <1>4, <1>5, <1>6, <1>7, <1>8,
     <1>9, <1>10, <1>11, <1>12, <1>13, <1>14, <1>15
  DEF Next, Holder, Worker, WorkerReplies, ReplyTexts, Verdict

\* A step of one thread keeps the type of all.
LEMMA ThreadTypes ==
  ASSUME thread \in [Threads -> Checks], NEW t \in Threads
  PROVE  /\ \A phase \in Phases : GoTo(t, phase) => thread' \in [Threads -> Checks]
         /\ \A answer \in Answers : Answer(t, answer) => thread' \in [Threads -> Checks]
<1>1. ASSUME NEW phase \in Phases, GoTo(t, phase)
      PROVE  thread' \in [Threads -> Checks]
  BY <1>1 DEF Checks, GoTo
<1>2. ASSUME NEW answer \in Answers, Answer(t, answer)
      PROVE  thread' \in [Threads -> Checks]
  <2>1. "idle" \in Phases
    BY DEF Phases
  <2> QED
    BY <1>2, <2>1 DEF Checks, Answer
<1> QED
  BY <1>1, <1>2

\* The pipes of a worker that is gone are empty.
LEMMA DiscardTypes ==
  ASSUME DiscardWorker
  PROVE  /\ handle' \in BOOLEAN /\ stdin' \in Seq(Commands)
         /\ worker' \in {"none", "loading", "waiting", "checking", "dead"}
         /\ stdout' \in Seq(Chunks) /\ buffer' \in Seq(Chunks)
<1>1. <<>> \in Seq(Commands) /\ <<>> \in Seq(Chunks)
  OBVIOUS
<1> QED
  BY <1>1 DEF DiscardWorker

\* The tables keep their types.
LEMMA TypeStep ==
  ASSUME TypeOK, LockInv, WorkerInv, PipeInv, Next
  PROVE  TypeOK'
<1>0. /\ thread \in [Threads -> Checks] /\ stdin \in Seq(Commands)
      /\ stdout \in Seq(Chunks) /\ buffer \in Seq(Chunks)
  BY DEF TypeOK
<1>1. ASSUME NEW t \in Threads, NEW command \in Commands,
             NEW at \in {"lock", "none", "flagged"}, Ask(t, command, at)
      PROVE  TypeOK'
  <2>1. thread' \in [Threads -> Checks]
    BY <1>1, <1>0 DEF Ask, Checks, Phases, Answers
  <2> QED
    BY <1>1, <2>1, ReactiveCheckerAssumption DEF Ask, TypeOK, pipes
<1>2. ASSUME NEW t \in Threads, Acquire(t)
      PROVE  TypeOK'
  <2>1. thread' \in [Threads -> Checks]
    BY <1>2, <1>0, ThreadTypes DEF Acquire, Phases
  <2> QED
    BY <1>2, <2>1 DEF Acquire, TypeOK, pipes
<1>3. ASSUME NEW t \in Threads, NEW starts \in BOOLEAN, EnsureWorker(t, starts)
      PROVE  TypeOK'
  <2>1. thread' \in [Threads -> Checks]
    BY <1>3, <1>0, ThreadTypes DEF EnsureWorker, Phases
  <2>2. <<>> \in Seq(Commands) /\ <<>> \in Seq(Chunks)
    OBVIOUS
  <2> QED
    BY <1>3, <2>1, <2>2 DEF EnsureWorker, TypeOK, pipes
<1>4. ASSUME NEW t \in Threads, Send(t)
      PROVE  TypeOK'
  <2>0. "failing" \in Phases /\ "reading" \in Phases
    BY DEF Phases
  <2>1. thread' \in [Threads -> Checks]
    <3>1. CASE worker = "dead"
      BY <1>4, <1>0, <2>0, <3>1, ThreadTypes DEF Send
    <3>2. CASE worker # "dead"
      BY <1>4, <1>0, <2>0, <3>2, ThreadTypes DEF Send
    <3> QED
      BY <3>1, <3>2
  <2>2. stdin' \in Seq(Commands)
    <3>1. thread[t].command \in Commands
      BY <1>0 DEF Checks
    <3>2. stdin' = stdin \/ stdin' = Append(stdin, thread[t].command)
      BY <1>4 DEF Send
    <3> QED
      BY <1>0, <3>1, <3>2, AppendProperties
  <2> QED
    BY <1>4, <1>0, <2>1, <2>2, ThreadTypes DEF Send, TypeOK
<1>5. ASSUME NEW t \in Threads, Read(t)
      PROVE  TypeOK'
  <2>1. Head(stdout) \in Chunks
    BY <1>5, <1>0 DEF Read
  <2>2. stdout' \in Seq(Chunks) /\ buffer' \in Seq(Chunks)
    BY <1>5, <1>0, <2>1 DEF Read
  <2> QED
    BY <1>5, <2>2 DEF Read, TypeOK
<1>6. ASSUME NEW t \in Threads, EndOfOutput(t)
      PROVE  TypeOK'
  BY <1>6, <1>0, ThreadTypes, ReactiveCheckerAssumption
  DEF EndOfOutput, TypeOK, Phases, DiscardWorker, Waits, pipes
<1>7. ASSUME NEW t \in Threads, MissDeadline(t)
      PROVE  TypeOK'
  BY <1>7, <1>0, ThreadTypes, ReactiveCheckerAssumption
  DEF MissDeadline, TypeOK, Phases, DiscardWorker, Waits, pipes
<1>8. ASSUME NEW t \in Threads, TakeReady(t)
      PROVE  TypeOK'
  BY <1>8, <1>0, ThreadTypes, ReactiveCheckerAssumption
  DEF TakeReady, TypeOK, Phases, DiscardWorker, Waits, pipes
<1>9. ASSUME NEW t \in Threads, TakeVerdict(t)
      PROVE  TypeOK'
  <2>1. lock = t /\ ReadingInv(thread[t].command)
    BY <1>9 DEF TakeVerdict, PipeInv, LockInv, Holding
  <2>2. PICK text \in ReplyTexts : Arriving(text)
    BY <1>9, <2>1, NoWholeLine DEF ReadingInv, TakeVerdict, Verdict, ReplyTexts
  <2>3. buffer[1].text \in ReplyTexts
    BY <1>9, <2>2, WholeReply DEF TakeVerdict
  <2>4. thread' \in [Threads -> Checks]
    BY <1>9, <2>3, <1>0, ThreadTypes DEF TakeVerdict, Phases, Answers, ReplyTexts
  <2>5. lock' \in Threads \cup {Free} /\ buffer' \in Seq(Chunks)
    BY <1>9, <1>0 DEF TakeVerdict, TypeOK, Answer
  <2> QED
    BY <1>9, <1>0, <2>4, <2>5 DEF TakeVerdict, TypeOK
<1>10. ASSUME NEW t \in Threads, Fail(t)
      PROVE  TypeOK'
  <2>1. thread' \in [Threads -> Checks]
    BY <1>10, <1>0, ThreadTypes DEF Fail, Answers
  <2> QED
    BY <1>10, <2>1, DiscardTypes DEF Fail, Answer, TypeOK
<1>11. ASSUME Close
      PROVE  TypeOK'
  BY <1>11, <1>0, DiscardTypes DEF Close, TypeOK
<1>12. ASSUME NEW works \in BOOLEAN, WorkerLoads(works)
      PROVE  TypeOK'
  <2>1. stdout' \in Seq(Chunks)
    <3>1. Reply("ready") \in Seq(Chunks) /\ Reply("error") \in Seq(Chunks)
      BY DEF Reply, Chunks
    <3>2. PICK reply \in Seq(Chunks) : stdout' = stdout \o reply
      BY <1>12, <3>1 DEF WorkerLoads
    <3> QED
      BY <3>2, <1>0, ConcatProperties
  <2> QED
    BY <1>12, <2>1 DEF WorkerLoads, TypeOK
<1>13. ASSUME WorkerTakes
      PROVE  TypeOK'
  BY <1>13, <1>0, ThreadTypes, ReactiveCheckerAssumption
  DEF WorkerTakes, TypeOK, Phases, DiscardWorker, Waits, pipes
<1>14. ASSUME NEW text \in ReplyTexts, WorkerReplies(text)
      PROVE  TypeOK'
  <2>1. stdout' \in Seq(Chunks)
    <3>1. Reply(text) \in Seq(Chunks)
      BY DEF Reply, Chunks, Answers, ReplyTexts
    <3> QED
      BY <1>14, <3>1, <1>0 DEF WorkerReplies
  <2>2. stdin' \in Seq(Commands)
    BY <1>14, <1>0 DEF WorkerReplies, WorkerInv
  <2> QED
    BY <1>14, <2>1, <2>2 DEF WorkerReplies, TypeOK
<1>15. ASSUME NEW torn \in BOOLEAN, WorkerDies(torn)
      PROVE  TypeOK'
  <2>1. stdout' \in Seq(Chunks)
    <3>1. Reply("malformed")[1] \in Chunks
      BY DEF Reply, Chunks
    <3>2. CASE torn
      <4>1. stdout' = Append(stdout, Reply("malformed")[1])
        BY <1>15, <3>2 DEF WorkerDies
      <4> QED
        BY <4>1, <3>1, <1>0, AppendProperties
    <3>3. CASE ~torn
      BY <1>15, <3>3, <1>0 DEF WorkerDies
    <3> QED
      BY <3>2, <3>3
  <2> QED
    BY <1>15, <2>1 DEF WorkerDies, TypeOK
<1> QED
  BY <1>1, <1>2, <1>3, <1>4, <1>5, <1>6, <1>7, <1>8,
     <1>9, <1>10, <1>11, <1>12, <1>13, <1>14, <1>15
  DEF Next, Holder, Worker, WorkerReplies, ReplyTexts, Verdict

\* An answer is given by the thread that asked, from the reply to its command.
LEMMA AnswerStep ==
  ASSUME TypeOK, LockInv, PipeInv, AnswersItsQuestion, Next
  PROVE  AnswersItsQuestion'
<1>1. ASSUME NEW t \in Threads, NEW command \in Commands,
             NEW at \in {"lock", "none", "flagged"}, Ask(t, command, at)
      PROVE  AnswersItsQuestion'
  BY <1>1 DEF Ask, TypeOK, Checks, AnswersItsQuestion, Verdict
<1>2. ASSUME NEW t \in Threads, Acquire(t)
      PROVE  AnswersItsQuestion'
  BY <1>2 DEF Acquire, TypeOK, Checks, GoTo, Answer, AnswersItsQuestion
<1>3. ASSUME NEW t \in Threads, NEW starts \in BOOLEAN, EnsureWorker(t, starts)
      PROVE  AnswersItsQuestion'
  BY <1>3 DEF EnsureWorker, TypeOK, Checks, GoTo, Answer, AnswersItsQuestion
<1>4. ASSUME NEW t \in Threads, Send(t)
      PROVE  AnswersItsQuestion'
  BY <1>4 DEF Send, TypeOK, Checks, GoTo, Answer, AnswersItsQuestion
<1>5. ASSUME NEW t \in Threads, Read(t)
      PROVE  AnswersItsQuestion'
  BY <1>5 DEF Read, TypeOK, Checks, GoTo, Answer, AnswersItsQuestion
<1>6. ASSUME NEW t \in Threads, EndOfOutput(t)
      PROVE  AnswersItsQuestion'
  BY <1>6 DEF EndOfOutput, TypeOK, Checks, GoTo, Answer, AnswersItsQuestion
<1>7. ASSUME NEW t \in Threads, MissDeadline(t)
      PROVE  AnswersItsQuestion'
  BY <1>7 DEF MissDeadline, TypeOK, Checks, GoTo, Answer, AnswersItsQuestion
<1>8. ASSUME NEW t \in Threads, TakeReady(t)
      PROVE  AnswersItsQuestion'
  BY <1>8 DEF TakeReady, TypeOK, Checks, GoTo, Answer, AnswersItsQuestion
<1>9. ASSUME NEW t \in Threads, TakeVerdict(t)
      PROVE  AnswersItsQuestion'
  <2>1. lock = t /\ ReadingInv(thread[t].command)
    BY <1>9 DEF TakeVerdict, PipeInv, LockInv, Holding
  <2>2. PICK text \in {Verdict(thread[t].command), "error", "malformed"} : Arriving(text)
    BY <1>9, <2>1, NoWholeLine DEF ReadingInv, TakeVerdict
  <2>3. buffer[1].text \in {Verdict(thread[t].command), "error", "malformed"}
    BY <1>9, <2>2, WholeReply DEF TakeVerdict
  <2>4. CASE buffer[1].text = "error"
    BY <1>9, <2>4 DEF TakeVerdict, TypeOK, Checks, GoTo, AnswersItsQuestion
  <2>5. CASE buffer[1].text # "error"
    <3>1. PICK answer \in {"none", Verdict(thread[t].command)} : Answer(t, answer)
      BY <1>9, <2>3, <2>5 DEF TakeVerdict
    <3> QED
      BY <3>1 DEF TypeOK, Checks, Answer, AnswersItsQuestion
  <2> QED
    BY <2>4, <2>5
<1>10. ASSUME NEW t \in Threads, Fail(t)
      PROVE  AnswersItsQuestion'
  BY <1>10 DEF Fail, TypeOK, Checks, GoTo, Answer, AnswersItsQuestion
<1>11. ASSUME Close
      PROVE  AnswersItsQuestion'
  BY <1>11 DEF Close, TypeOK, Checks, GoTo, Answer, AnswersItsQuestion
<1>12. ASSUME NEW works \in BOOLEAN, WorkerLoads(works)
      PROVE  AnswersItsQuestion'
  BY <1>12 DEF WorkerLoads, TypeOK, Checks, GoTo, Answer, AnswersItsQuestion
<1>13. ASSUME WorkerTakes
      PROVE  AnswersItsQuestion'
  BY <1>13 DEF WorkerTakes, TypeOK, Checks, GoTo, Answer, AnswersItsQuestion
<1>14. ASSUME NEW text \in ReplyTexts, WorkerReplies(text)
      PROVE  AnswersItsQuestion'
  BY <1>14 DEF WorkerReplies, TypeOK, Checks, GoTo, Answer, AnswersItsQuestion
<1>15. ASSUME NEW torn \in BOOLEAN, WorkerDies(torn)
      PROVE  AnswersItsQuestion'
  BY <1>15 DEF WorkerDies, TypeOK, Checks, GoTo, Answer, AnswersItsQuestion
<1> QED
  BY <1>1, <1>2, <1>3, <1>4, <1>5, <1>6, <1>7, <1>8,
     <1>9, <1>10, <1>11, <1>12, <1>13, <1>14, <1>15
  DEF Next, Holder, Worker, WorkerReplies, ReplyTexts, Verdict

-----------------------------------------------------------------------------
(* Theorems.                                                               *)

LEMMA Initially ==
  Init => IInv
<1> SUFFICES ASSUME Init PROVE IInv
  OBVIOUS
<1>1. TypeOK
  <2>1. [phase : {"idle"}, command : Commands, answer : {"none"}] \subseteq Checks
    BY DEF Checks, Phases, Answers
  <2>2. thread \in [Threads -> Checks]
    BY <2>1 DEF Init
  <2>3. <<>> \in Seq(Commands) /\ <<>> \in Seq(Chunks)
    OBVIOUS
  <2>4. stdin \in Seq(Commands) /\ stdout \in Seq(Chunks) /\ buffer \in Seq(Chunks)
    BY <2>3 DEF Init
  <2>5. checks \in 0..MaxChecks
    BY ReactiveCheckerAssumption DEF Init
  <2> QED
    BY <2>2, <2>4, <2>5 DEF Init, TypeOK
<1>2. LockInv
  BY ReactiveCheckerAssumption DEF Init, LockInv, Holding
<1>3. WorkerInv
  BY DEF Init, WorkerInv
<1>4. PipeInv
  BY ReactiveCheckerAssumption DEF Init, PipeInv, IdleInv, Quiet
<1>5. AnswersItsQuestion
  BY DEF Init, AnswersItsQuestion
<1> QED
  BY <1>1, <1>2, <1>3, <1>4, <1>5 DEF IInv

LEMMA Inductive ==
  IInv /\ [Next]_vars => IInv'
<1> SUFFICES ASSUME IInv, [Next]_vars PROVE IInv'
  OBVIOUS
<1>1. CASE Next
  BY <1>1, TypeStep, LockStep, WorkerStep, PipeStep, AnswerStep DEF IInv
<1>2. CASE UNCHANGED vars
  <2>1. TypeOK' /\ LockInv' /\ WorkerInv' /\ AnswersItsQuestion'
    BY <1>2 DEF IInv, vars, TypeOK, LockInv, WorkerInv, AnswersItsQuestion
  <2>2. PipeInv'
    BY <1>2 DEF IInv, vars, PipeInv, IdleInv, StartingInv, SendingInv, ReadingInv, Quiet,
                Silent, Torn, Arriving
  <2> QED
    BY <2>1, <2>2 DEF IInv
<1> QED
  BY <1>1, <1>2

\* The threads, the worker and its pipes keep their types.
THEOREM TypeCorrect ==
  Spec => []TypeOK
<1>1. IInv => TypeOK
  BY DEF IInv
<1> QED
  BY Initially, Inductive, <1>1, PTL DEF Spec

\* No command is ever answered with the verdict of another one.
THEOREM AnswersTheQuestion ==
  Spec => []AnswersItsQuestion
<1>1. IInv => AnswersItsQuestion
  BY DEF IInv
<1> QED
  BY Initially, Inductive, <1>1, PTL DEF Spec

\* A worker that is kept between two checks, or is written to, owes nothing: no
\* command is left in its stdin, no chunk in its pipe or in the buffer, and it does
\* not compute.
THEOREM KeptWorkerIsQuiet ==
  Spec => []KeptWorkerOwesNothing
<1>1. ASSUME IInv, lock = Free, handle PROVE KeptWorkerOwesNothing
  BY <1>1 DEF IInv, PipeInv, IdleInv, Quiet, WorkerInv, KeptWorkerOwesNothing
<1>2. ASSUME IInv, NEW t \in Threads, thread[t].phase = "sending"
      PROVE  KeptWorkerOwesNothing
  <2>1. lock = t BY <1>2 DEF IInv, LockInv, Holding
  <2> QED BY <1>2, <2>1 DEF IInv, PipeInv, SendingInv, Quiet, KeptWorkerOwesNothing
<1>3. IInv => KeptWorkerOwesNothing
  BY <1>1, <1>2 DEF KeptWorkerOwesNothing
<1> QED
  BY Initially, Inductive, <1>3, PTL DEF Spec

=============================================================================
