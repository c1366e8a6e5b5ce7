--------------------------- MODULE StreamMonitor ---------------------------
(***************************************************************************)
(* The monitor of one streamed agent run (_run_agent_streaming_impl of     *)
(* equipa/agent_runner.py with the detectors of equipa/monitoring.py).     *)
(*                                                                         *)
(* The agent's CLI prints one message per line: assistant messages with    *)
(* text and tool calls, the results of those calls, a last result message. *)
(* The monitor keeps counters over them, decides when the run is stopped   *)
(* and why, and says at the end whether it succeeded.  The calls run in    *)
(* the agent's processes, concurrently with the monitor.                   *)
(*                                                                         *)
(* A line is read as soon as it is printed, text comes before the calls of *)
(* its message, and a user message carries one tool result.                *)
(***************************************************************************)
EXTENDS Integers, Sequences, FiniteSets, FiniteSetsExt, Functions

CONSTANTS
    Messages,         \* assistant messages [text, calls]
    Setups,           \* runs: [exempt, nonGit, gate, retries]
    FinalWarn, Kill,  \* effective_final_warn_turns, effective_kill_turns
    FastReads,        \* fast_escalation_reads
    RatioTurn, RatioReads,
    StuckLimit, StrikeLimit, LoopLimit,
    Monologue, MonologueExempt,
    MaxTurns, MaxTexts, MaxOpen   \* bounds of the model

\* effective_kill_turns is at least 22 (3 retries at most), and
\* effective_final_warn_turns is the larger of 20 and 70% of it.
ASSUME ThresholdsAssumption ==
    /\ {FinalWarn, Kill, FastReads, StuckLimit, StrikeLimit} \subseteq Nat \ {0}
    /\ {RatioTurn, RatioReads, LoopLimit, MaxTurns, MaxTexts, MaxOpen} \subseteq Nat
    /\ {Monologue, MonologueExempt} \subseteq Nat
    /\ FinalWarn < Kill

ReadTools == {"Read", "Grep", "Glob", "Agent"}
EditTools == {"Edit", "Write", "NotebookEdit"}
Verdicts == {"safe", "flagged", "undecided"}
Outputs == {"ok", "bad"}
Reasons == {"none", "stuck", "security", "loop", "paralysis", "monologue",
            "timeout", "error", "repository"}

\* keyword: a Bash command with one of the words that count as a file change.
CallType == [tool: ReadTools \union EditTools \union {"Bash"}, param: STRING,
             keyword: BOOLEAN, verdict: Verdicts]

ASSUME InputsAssumption ==
    /\ \A m \in Messages : /\ m.text \in {"plain", "stuck", "done"}
                           /\ m.calls \in Seq(CallType)
    /\ Setups \subseteq [exempt: BOOLEAN, nonGit: BOOLEAN, gate: BOOLEAN,
                         retries: Nat]

VARIABLES
    setup,       \* what is decided before the agent starts
    phase,       \* "reading", "stopping", "gone" or "ended"
    reason,      \* early_term_reason, by kind
    done,        \* agent_signaled_done
    result,      \* the result message: "none", "ok", "error"
    turn,        \* turn_count
    idle,        \* turns_without_file_change
    reads,       \* consecutive_readonly_tools
    texts,       \* consecutive_text_only_turns
    stuck,       \* stuck_phrase_count
    mustWrite,   \* must_write_next_turn
    finalWarned, \* final_warning_injected
    postReads,   \* post_final_warning_reads
    history,     \* tool_history
    outputs,     \* tool_errors and tool_output_hashes, as outputs
    open,        \* the calls without a result: [turn, flagged, run]
    unrefused,   \* a command that was flagged has run
    pending,     \* pending_flagged, as turns
    strikes,     \* hook_block_strikes
    gateIntact,  \* _gate_fingerprint() = gate_fingerprint
    changed,     \* has_any_file_change
    dirty,       \* the working tree differs from HEAD
    repository,  \* a repository lies in a project that had none
    outcome      \* "none", "success", "failure", "cancelled"

counters == <<turn, idle, reads, texts, stuck>>
warnings == <<mustWrite, finalWarned, postReads>>
security == <<pending, strikes, gateIntact>>
agent == <<open, unrefused, dirty, repository>>
vars == <<setup, phase, reason, done, result, counters, warnings, history,
          outputs, security, agent, changed, outcome>>

Init ==
    /\ setup \in Setups
    /\ phase = "reading" /\ reason = "none" /\ outcome = "none"
    /\ done = FALSE /\ result = "none"
    /\ turn = 0 /\ idle = 0 /\ reads = 0 /\ texts = 0 /\ stuck = 0
    /\ mustWrite = FALSE /\ finalWarned = FALSE /\ postReads = 0
    /\ history = <<>> /\ outputs = <<>> /\ open = {} /\ unrefused = FALSE
    /\ pending = {} /\ strikes = 0 /\ gateIntact = TRUE
    /\ changed = FALSE /\ dirty = FALSE /\ repository = FALSE

-----------------------------------------------------------------------------
(* The detectors.                                                          *)

IsWrite(c) == c.tool \in EditTools \/ (c.tool = "Bash" /\ c.keyword)

Writes(m) == \E c \in Range(m.calls) : IsWrite(c)

Signature(c) == <<c.tool, "|", c.param>>

\* The reading ratio counts the signatures that start with "Read:", "Grep:",
\* "Glob:" or "Agent:".  A signature has a bar there, "Read|...", so none counts
\* and the rule never ends a run.
CountsAsRead(sig) == sig[1] \in ReadTools /\ sig[2] = ":"

ReadingRatioExceeded(h, t, r) ==
    /\ t >= RatioTurn /\ r >= RatioReads /\ h # <<>>
    /\ 4 * Cardinality({i \in DOMAIN h : CountsAsRead(h[i])}) >= 3 * Len(h)

\* The results are appended for every call, the signatures only for the last
\* call of a turn without a file change, and both are indexed by position.
FailedAt(i) == i \in DOMAIN outputs /\ outputs[i] # "ok"

LastFailed == outputs # <<>> /\ FailedAt(Len(outputs))

SameFrom(h, i) == \A j \in i .. Len(h) : h[j] = h[Len(h)]

\* Thresholds are halved, not below 3, when the output at the last position
\* is also the output at the position before it.
SameOutput(h) ==
    LET n == Len(h) IN
    /\ n \in DOMAIN outputs /\ SameFrom(h, n - 1)
    /\ outputs[n - 1] = outputs[n]

RepeatedFailures(h) ==
    1 + Cardinality({i \in 1 .. Len(h) - 1 : SameFrom(h, i) /\ FailedAt(i)})

\* The calls alternate between two signatures from i on, and have failed.
AlternatesFrom(h, i) ==
    LET n == Len(h) IN
    \A j \in i .. n : /\ h[j] = h[IF (n - j) % 2 = 0 THEN n ELSE n - 1]
                      /\ FailedAt(j)

AlternatingFailures(h) ==
    IF Len(h) < 4 \/ h[Len(h)] = h[Len(h) - 1]
      THEN 0
      ELSE Cardinality({i \in DOMAIN h : AlternatesFrom(h, i)})

IsLoop(h) ==
    /\ Len(h) >= 2 /\ LastFailed
    /\ \/ RepeatedFailures(h) >= LoopLimit
       \/ SameOutput(h) /\ RepeatedFailures(h) >= Max({3, LoopLimit \div 2})
       \/ AlternatingFailures(h) >= LoopLimit + 1

-----------------------------------------------------------------------------
(* One assistant message.  Its blocks are gone through first.              *)

Stuck(m) == stuck + (IF m.text = "stuck" THEN 1 ELSE 0)

\* The last block that gives a reason gives the reason.
BlockReason(m) ==
    IF \E c \in Range(m.calls) :
          \/ c.verdict = "undecided"
          \/ c.verdict = "flagged" /\ ~setup.gate
      THEN "security"
      ELSE IF m.text = "stuck" /\ Stuck(m) >= StuckLimit THEN "stuck" ELSE "none"

Awaited(m) ==
    {turn + i : i \in {j \in DOMAIN m.calls :
                       m.calls[j].verdict = "flagged" /\ setup.gate}}

Issued(m) ==
    {[turn |-> turn + i, flagged |-> m.calls[i].verdict # "safe", run |-> "no"] :
        i \in DOMAIN m.calls}

Blocks(m) ==
    /\ phase = "reading" /\ turn + Len(m.calls) =< MaxTurns
    /\ Cardinality(open) =< MaxOpen
    /\ turn' = turn + Len(m.calls)
    /\ stuck' = Stuck(m)
    /\ done' = (done \/ m.text = "done")
    /\ pending' = pending \union Awaited(m)
    /\ open' = open \union Issued(m)
    /\ changed' = (changed \/ Writes(m))
    /\ UNCHANGED <<setup, result, outputs, strikes, gateIntact, unrefused,
                   dirty, repository, outcome>>

\* The loop is left after a message that gives a reason or says it is done.
Decide(why) ==
    /\ reason' = why
    /\ phase' = IF why # "none" \/ done' THEN "stopping" ELSE "reading"

\* A message without calls.
TextTurn(m) ==
    /\ m.calls = <<>> /\ texts < MaxTexts
    /\ Blocks(m)
    /\ texts' = texts + 1
    /\ Decide(IF turn > MonologueExempt /\ texts' >= Monologue THEN "monologue"
              ELSE IF mustWrite /\ ~setup.exempt THEN "paralysis"
              ELSE BlockReason(m))
    /\ UNCHANGED <<idle, reads, warnings, history>>

\* A message with calls, from a role that need not change files.
ExemptTurn(m) ==
    /\ m.calls # <<>> /\ setup.exempt
    /\ Blocks(m)
    /\ texts' = 0
    /\ Decide(BlockReason(m))
    /\ UNCHANGED <<idle, reads, warnings, history>>

\* A message with a call that changes files.
WriteTurn(m) ==
    /\ Writes(m) /\ ~setup.exempt
    /\ Blocks(m)
    /\ texts' = 0 /\ idle' = 0 /\ reads' = 0
    /\ mustWrite' = FALSE /\ postReads' = 0
    /\ Decide(BlockReason(m))
    /\ UNCHANGED <<finalWarned, history>>

\* _evaluate_paralysis_retry_read_gate: a later retry that starts by reading
\* has one read.
RetryGateArms(tool) ==
    /\ setup.retries >= 2 /\ ~changed /\ tool \in ReadTools
    /\ turn' = 1 /\ ~mustWrite

FastEscalation(tool) == reads' >= FastReads /\ ~finalWarned /\ ~RetryGateArms(tool)

\* The final warning is given by one of three rules; the first two already
\* count the call that triggered them, the third starts with the next call.
Escalates(tool) == RetryGateArms(tool) \/ FastEscalation(tool)

\* Mutant of FinalWarningDue: the threshold is the kill threshold.
LateFinalWarning == idle' >= Kill /\ ~finalWarned

FinalWarningDue == idle' >= FinalWarn /\ ~finalWarned

\* A message with calls and no file change; its last call stands for it.
ReadTurn(m) ==
    LET last == m.calls[Len(m.calls)]
        tool == last.tool
        bound == mustWrite \/ Escalates(tool)
    IN
    /\ m.calls # <<>> /\ ~Writes(m) /\ ~setup.exempt
    /\ Blocks(m)
    /\ texts' = 0 /\ idle' = idle + 1
    /\ reads' = reads + (IF tool \in ReadTools THEN 1 ELSE 0)
    /\ history' = Append(history, Signature(last))
    /\ postReads' = postReads + (IF bound THEN 1 ELSE 0)
    /\ mustWrite' = (bound \/ FinalWarningDue)
    /\ finalWarned' = (finalWarned \/ Escalates(tool) \/ FinalWarningDue)
    /\ Decide(IF idle' >= Kill \/ (bound /\ postReads' >= 2) THEN "paralysis"
              ELSE IF IsLoop(history') THEN "loop"
              ELSE IF BlockReason(m) # "none" THEN BlockReason(m)
              ELSE IF ReadingRatioExceeded(history', turn', reads') THEN "paralysis"
              ELSE "none")

Assistant ==
    \E m \in Messages :
        TextTurn(m) \/ ExemptTurn(m) \/ WriteTurn(m) \/ ReadTurn(m)

-----------------------------------------------------------------------------
(* The agent's processes, from a call to the end of the process tree.      *)

Alive == phase \in {"reading", "stopping"}

\* A call runs: it may change files, and may make a repository.
Run(c) ==
    /\ Alive /\ c.run = "no"
    /\ open' = (open \ {c}) \union {[c EXCEPT !.run = "ran"]}
    /\ unrefused' = (unrefused \/ c.flagged)
    /\ dirty' \in BOOLEAN
    /\ repository' \in (IF setup.nonGit THEN {repository, TRUE} ELSE {FALSE})
    /\ UNCHANGED <<setup, phase, reason, done, result, counters, warnings,
                   history, outputs, security, changed, outcome>>

\* The CLI's PreToolUse hook refuses a flagged command.
Refuse(c) ==
    /\ Alive /\ setup.gate /\ c.flagged /\ c.run = "no"
    /\ open' = (open \ {c}) \union {[c EXCEPT !.run = "refused"]}
    /\ UNCHANGED <<setup, phase, reason, done, result, counters, warnings,
                   history, outputs, security, unrefused, dirty, repository,
                   changed, outcome>>

\* The hook script or the checker it loads is edited.
GateChanges ==
    /\ Alive /\ setup.gate /\ gateIntact
    /\ gateIntact' = FALSE
    /\ UNCHANGED <<setup, phase, reason, done, result, counters, warnings,
                   history, outputs, pending, strikes, agent, changed, outcome>>

-----------------------------------------------------------------------------
(* The other messages, and the ends of the stream.                         *)

\* Mutant of FlaggedReason: one refused command too many is let through.
LenientFlaggedReason(c) ==
    IF c.turn \notin pending THEN "none"
    ELSE IF gateIntact /\ c.run = "refused" /\ strikes < StrikeLimit THEN "none"
    ELSE "security"

\* The verdict on a flagged command, given by its result.
FlaggedReason(c) ==
    IF c.turn \notin pending THEN "none"
    ELSE IF gateIntact /\ c.run = "refused" /\ strikes + 1 < StrikeLimit
      THEN "none"
      ELSE "security"

ToolResult(c, out) ==
    /\ phase = "reading" /\ c.run # "no"
    /\ c.run = "refused" => out = "bad"
    /\ open' = open \ {c}
    /\ pending' = pending \ {c.turn}
    /\ strikes' = strikes + (IF c.turn \in pending /\ gateIntact /\ c.run = "refused"
                               THEN 1 ELSE 0)
    /\ outputs' = Append(outputs, out)
    /\ LET seen == dirty /\ ~setup.nonGit IN
       /\ changed' = (changed \/ seen)
       /\ idle' = IF seen THEN 0 ELSE idle
    /\ reason' = IF FlaggedReason(c) = "none" /\ setup.nonGit /\ repository
                   THEN "repository" ELSE FlaggedReason(c)
    /\ phase' = IF reason' # "none" THEN "stopping" ELSE "reading"
    /\ UNCHANGED <<setup, done, result, turn, reads, texts, stuck, warnings,
                   history, gateIntact, unrefused, dirty, repository, outcome>>

\* The loop is left: the result message, the end of the output, a deadline, or
\* an exception in the handling of a message.
LeaveLoop(why, message) ==
    /\ phase = "reading"
    /\ phase' = "stopping" /\ reason' = why /\ result' = message
    /\ UNCHANGED <<setup, done, counters, warnings, history, outputs,
                   security, agent, changed, outcome>>

ResultMessage == \E r \in {"ok", "error"} : LeaveLoop("none", r)
EndOfStream == LeaveLoop("none", "none")
Deadline == LeaveLoop("timeout", "none")
MonitorError == LeaveLoop("error", "none")

\* Mutant of Terminate: a flagged command without a result is forgotten.
ForgetfulTerminate ==
    /\ phase = "stopping" /\ phase' = "gone"
    /\ UNCHANGED <<setup, reason, done, result, counters, warnings, history,
                   outputs, security, agent, changed, outcome>>

\* A flagged command without a result fails the run; then the process tree is
\* stopped.
Terminate ==
    /\ phase = "stopping"
    /\ phase' = "gone"
    /\ reason' = IF pending # {} /\ reason = "none" THEN "security" ELSE reason
    /\ UNCHANGED <<setup, done, result, counters, warnings, history, outputs,
                   security, agent, changed, outcome>>

Succeeds ==
    IF result # "none" THEN result = "ok" ELSE done \/ changed

\* With the processes gone the repository is looked for once more, and the
\* result is built.
Finish ==
    /\ phase = "gone"
    /\ phase' = "ended"
    /\ reason' = IF setup.nonGit /\ repository /\ reason = "none"
                   THEN "repository" ELSE reason
    /\ outcome' = IF reason' = "none" /\ Succeeds THEN "success" ELSE "failure"
    /\ UNCHANGED <<setup, done, result, counters, warnings, history, outputs,
                   security, agent, changed>>

\* The task is cancelled: the tree is stopped at once, and nothing returned.
Cancelled ==
    /\ phase # "ended"
    /\ phase' = "ended" /\ outcome' = "cancelled"
    /\ UNCHANGED <<setup, reason, done, result, counters, warnings, history,
                   outputs, security, agent, changed>>

Next ==
    \/ Assistant
    \/ \E c \in open : \/ Run(c) \/ Refuse(c)
                        \/ \E out \in Outputs : ToolResult(c, out)
    \/ GateChanges
    \/ ResultMessage \/ EndOfStream \/ Deadline \/ MonitorError
    \/ Terminate \/ Finish \/ Cancelled

Spec == Init /\ [][Next]_vars

-----------------------------------------------------------------------------
(* The counters stay within the limits at which the monitor stops the run:
   no reader gets past the kill threshold, past its one read after the final
   warning, or past the limits on stuck phrases and refused commands. *)
TypeOK ==
    /\ setup \in Setups
    /\ phase \in {"reading", "stopping", "gone", "ended"}
    /\ reason \in Reasons /\ outcome \in {"none", "success", "failure", "cancelled"}
    /\ done \in BOOLEAN /\ result \in {"none", "ok", "error"}
    /\ turn \in Nat /\ texts \in Nat /\ reads \in Nat
    /\ idle \in 0 .. Kill /\ stuck \in 0 .. StuckLimit
    /\ strikes \in 0 .. StrikeLimit /\ postReads \in 0 .. 2
    /\ mustWrite \in BOOLEAN /\ finalWarned \in BOOLEAN
    /\ \A i \in DOMAIN outputs : outputs[i] \in Outputs
    /\ open \subseteq [turn: 1 .. turn, flagged: BOOLEAN,
                        run: {"no", "ran", "refused"}]
    /\ pending \subseteq {c.turn : c \in open}
    /\ unrefused \in BOOLEAN /\ gateIntact \in BOOLEAN
    /\ changed \in BOOLEAN /\ dirty \in BOOLEAN /\ repository \in BOOLEAN

(* A run is only reported as successful when every flagged command the monitor
   read was refused before it ran, and when no repository has appeared in a
   project that had none: a command whose result never came, a gate that was
   edited and a repository made by the last step all fail the run. *)
SuccessIsClean ==
    outcome = "success" =>
        /\ ~unrefused
        /\ setup.nonGit => ~repository

(* A run is ended as analysis paralysis only after the final warning, given for
   an earlier message: the idle and the post-read rules that end it have had
   their warning.  The reading-ratio rule would be an exception, and is none only
   because it never applies (see CountsAsRead): the comment in the code means it
   for an agent that relapses after an early edit, and four idle calls in a row
   are enough for it, fewer than for a warning. *)
WarnedBeforeKill ==
    [][reason # "paralysis" /\ reason' = "paralysis" => finalWarned]_vars

=============================================================================
