---------------------------- MODULE StreamProofs ----------------------------
(***************************************************************************)
(* Proofs about StreamMonitor: the counters stay within their limits, a    *)
(* run that succeeded ran no flagged command, and no reader is stopped     *)
(* without the final warning, for every set of messages and threshold.     *)
(***************************************************************************)
EXTENDS StreamMonitor, FiniteSetTheorems, TLAPS

-----------------------------------------------------------------------------
(* The inductive invariant.                                                *)

Signatures == {Signature(c) : c \in CallType}

Recorded == history \in Seq(Signatures) /\ outputs \in Seq(Outputs)

\* A monitor that still reads is below every limit.
BelowLimits ==
    phase = "reading" =>
        /\ reason = "none"
        /\ idle < Kill /\ postReads < 2
        /\ strikes < StrikeLimit /\ stuck < StuckLimit

\* The flag and the counters that stop a reader follow the final warning.
WarningFirst ==
    /\ mustWrite => finalWarned
    /\ ~mustWrite => postReads = 0
    /\ idle >= FinalWarn => finalWarned

Listening == phase \in {"reading", "stopping"}

\* While no reason is known every flagged call is waited for, and one that ran
\* is among them.
Awaiting ==
    /\ \A c, d \in open : c.turn = d.turn => c = d
    /\ Listening /\ reason = "none" => \A c \in open : c.flagged => c.turn \in pending
    /\ Listening /\ reason = "none" /\ unrefused =>
         \E c \in open : c.flagged /\ c.run = "ran"
    /\ phase = "gone" /\ reason = "none" => ~unrefused
    /\ phase # "ended" => outcome = "none"

IndInv == TypeOK /\ Recorded /\ BelowLimits /\ WarningFirst /\ Awaiting /\ SuccessIsClean

-----------------------------------------------------------------------------
LEMMA Limits ==
    /\ FinalWarn \in Nat /\ Kill \in Nat /\ FinalWarn < Kill /\ FinalWarn > 0
    /\ StuckLimit \in Nat /\ StuckLimit > 0
    /\ StrikeLimit \in Nat /\ StrikeLimit > 0
BY ThresholdsAssumption

LEMMA CallsAreCalls ==
    ASSUME NEW m \in Messages
    PROVE  /\ m.calls \in Seq(CallType)
           /\ DOMAIN m.calls = 1 .. Len(m.calls) /\ Len(m.calls) \in Nat
           /\ \A i \in DOMAIN m.calls : m.calls[i] \in CallType
           /\ Range(m.calls) = {m.calls[i] : i \in DOMAIN m.calls}
<1>1. m.calls \in Seq(CallType) BY InputsAssumption
<1> QED BY <1>1 DEF Range

\* The signatures are built with a bar: none counts as a read, and the reading
\* ratio is never exceeded.
LEMMA RatioNeverExceeded ==
    ASSUME NEW h \in Seq(Signatures), NEW t \in Nat, NEW r \in Nat
    PROVE  ~ReadingRatioExceeded(h, t, r)
<1>1. ASSUME NEW i \in DOMAIN h PROVE ~CountsAsRead(h[i])
  <2>1. h[i] \in Signatures OBVIOUS
  <2>2. PICK c \in CallType : h[i] = <<c.tool, "|", c.param>>
    BY <2>1 DEF Signatures, Signature
  <2>3. h[i][2] = "|" BY <2>2
  <2> QED BY <2>3 DEF CountsAsRead
<1>2. {i \in DOMAIN h : CountsAsRead(h[i])} = {} BY <1>1
<1>3. Cardinality({i \in DOMAIN h : CountsAsRead(h[i])}) = 0
  BY <1>2, FS_EmptySet
<1>4. h # <<>> => Len(h) > 0 OBVIOUS
<1>5. Len(h) \in Nat OBVIOUS
<1> QED BY <1>3, <1>4, <1>5 DEF ReadingRatioExceeded

LEMMA Initially == Init => IndInv
<1> SUFFICES ASSUME Init PROVE IndInv OBVIOUS
<1> USE Limits DEF Init
<1>1. history \in Seq(Signatures) /\ outputs \in Seq(Outputs) OBVIOUS
<1>2. TypeOK
  <2>1. \A i \in DOMAIN outputs : outputs[i] \in Outputs OBVIOUS
  <2>2. /\ idle \in 0 .. Kill /\ stuck \in 0 .. StuckLimit
        /\ strikes \in 0 .. StrikeLimit /\ postReads \in 0 .. 2
    OBVIOUS
  <2>3. /\ open \subseteq [turn: 1 .. turn, flagged: BOOLEAN,
                           run: {"no", "ran", "refused"}]
        /\ pending \subseteq {c.turn : c \in open}
    OBVIOUS
  <2>4. setup \in Setups /\ reason \in Reasons BY DEF Reasons
  <2> QED BY <2>1, <2>2, <2>3, <2>4 DEF TypeOK
<1>3. BelowLimits /\ WarningFirst BY DEF BelowLimits, WarningFirst
<1>4. Awaiting /\ SuccessIsClean BY DEF Awaiting, SuccessIsClean, Listening
<1> QED BY <1>1, <1>2, <1>3, <1>4 DEF IndInv, Recorded

-----------------------------------------------------------------------------
(* One assistant message.                                                  *)

LEMMA ReasonOfBlocks ==
    ASSUME NEW m \in Messages
    PROVE  BlockReason(m) \in {"none", "security", "stuck"}
BY DEF BlockReason

\* What every assistant message does to the calls, when a known reason is not
\* lost: each flagged call it adds is waited for.
LEMMA MessageCalls ==
    ASSUME IndInv, NEW m \in Messages, Blocks(m),
           reason' = "none" => BlockReason(m) = "none",
           phase' \in {"reading", "stopping"}
    PROVE  /\ open' \subseteq [turn: 1 .. turn', flagged: BOOLEAN,
                               run: {"no", "ran", "refused"}]
           /\ pending' \subseteq {c.turn : c \in open'}
           /\ turn' \in Nat
           /\ Awaiting'
<1> DEFINE Rec(t) == [turn: 1 .. t, flagged: BOOLEAN, run: {"no", "ran", "refused"}]
<1>1. /\ DOMAIN m.calls = 1 .. Len(m.calls) /\ Len(m.calls) \in Nat
      /\ \A i \in DOMAIN m.calls : m.calls[i] \in CallType
      /\ Range(m.calls) = {m.calls[i] : i \in DOMAIN m.calls}
  BY CallsAreCalls
<1>2. /\ turn \in Nat /\ open \subseteq Rec(turn) /\ phase = "reading"
      /\ pending \subseteq {c.turn : c \in open} /\ reason = "none"
      /\ outcome = "none"
  BY DEF IndInv, TypeOK, BelowLimits, Awaiting, Blocks
<1>3. /\ turn' = turn + Len(m.calls) /\ open' = open \union Issued(m)
      /\ pending' = pending \union Awaited(m) /\ unrefused' = unrefused
      /\ outcome' = outcome
  BY DEF Blocks
<1>4. turn' \in Nat /\ turn' >= turn BY <1>1, <1>2, <1>3
<1>5. \A c \in Issued(m) : /\ c \in Rec(turn')
                           /\ c.run = "no" /\ c.turn > turn
  <2>1. TAKE c \in Issued(m)
  <2>2. PICK i \in DOMAIN m.calls :
          c = [turn |-> turn + i, flagged |-> m.calls[i].verdict # "safe", run |-> "no"]
    BY <2>1 DEF Issued
  <2>3. turn + i \in 1 .. turn' /\ turn + i > turn BY <1>1, <1>2, <1>3
  <2> QED BY <2>2, <2>3
<1>6. open' \subseteq Rec(turn')
  <2>1. \A c \in Rec(turn) : c \in Rec(turn') BY <1>2, <1>4
  <2> QED BY <1>2, <1>3, <1>5, <2>1
<1>7. Awaited(m) \subseteq {c.turn : c \in Issued(m)}
  <2> SUFFICES ASSUME NEW t \in Awaited(m) PROVE t \in {c.turn : c \in Issued(m)}
    OBVIOUS
  <2>2. PICK i \in DOMAIN m.calls : t = turn + i BY DEF Awaited
  <2> DEFINE c == [turn |-> turn + i, flagged |-> m.calls[i].verdict # "safe",
                   run |-> "no"]
  <2>3. c \in Issued(m) BY DEF Issued
  <2>4. c.turn = t BY <2>2
  <2> QED BY <2>3, <2>4
<1>8. pending' \subseteq {c.turn : c \in open'} BY <1>2, <1>3, <1>7
<1>9. \A c, d \in open' : c.turn = d.turn => c = d
  <2>1. \A c, d \in open : c.turn = d.turn => c = d BY DEF IndInv, Awaiting
  <2>2. \A c, d \in Issued(m) : c.turn = d.turn => c = d
    <3>1. TAKE c, d \in Issued(m)
    <3>2. PICK i \in DOMAIN m.calls :
            c = [turn |-> turn + i, flagged |-> m.calls[i].verdict # "safe", run |-> "no"]
      BY <3>1 DEF Issued
    <3>3. PICK j \in DOMAIN m.calls :
            d = [turn |-> turn + j, flagged |-> m.calls[j].verdict # "safe", run |-> "no"]
      BY <3>1 DEF Issued
    <3> QED BY <1>1, <1>2, <3>2, <3>3
  <2>3. \A c \in open : c.turn =< turn BY <1>2
  <2>4. \A c \in open, d \in Issued(m) : c.turn # d.turn
    <3>1. TAKE c \in open, d \in Issued(m)
    <3>2. c.turn \in Nat /\ c.turn =< turn BY <1>2
    <3>3. d.turn \in Nat /\ d.turn > turn BY <1>5, <1>4
    <3> QED BY <3>2, <3>3, <1>2
  <2> QED BY <1>3, <2>1, <2>2, <2>4
<1>10. reason' = "none" => \A c \in open' : c.flagged => c.turn \in pending'
  <2> SUFFICES ASSUME reason' = "none", NEW c \in open', c.flagged
               PROVE  c.turn \in pending'
    OBVIOUS
  <2>1. CASE c \in open
    BY <1>2, <1>3, <2>1 DEF IndInv, Awaiting, Listening
  <2>2. CASE c \in Issued(m)
    <3>1. PICK i \in DOMAIN m.calls :
            c = [turn |-> turn + i, flagged |-> m.calls[i].verdict # "safe", run |-> "no"]
      BY <2>2 DEF Issued
    <3>2. m.calls[i].verdict \in Verdicts BY <1>1 DEF CallType
    <3>3. m.calls[i] \in Range(m.calls) BY <1>1
    <3>4. \A d \in Range(m.calls) : /\ d.verdict # "undecided"
                                    /\ d.verdict = "flagged" => setup.gate
      BY DEF BlockReason
    <3>7. m.calls[i].verdict # "safe" BY <3>1
    <3>8. m.calls[i].verdict # "undecided" BY ONLY <3>3, <3>4
    <3>9. m.calls[i].verdict = "flagged" BY <3>2, <3>7, <3>8 DEF Verdicts
    <3>5. m.calls[i].verdict = "flagged" /\ setup.gate
      BY <3>3, <3>4, <3>9
    <3>6. turn + i \in Awaited(m) BY <3>5 DEF Awaited
    <3> QED BY <1>3, <3>1, <3>6
  <2> QED BY <1>3, <2>1, <2>2
<1>11. reason' = "none" /\ unrefused' => \E c \in open' : c.flagged /\ c.run = "ran"
  BY <1>2, <1>3 DEF IndInv, Awaiting, Listening
<1>12. phase' # "gone" OBVIOUS
<1>13. Awaiting' BY <1>2, <1>3, <1>9, <1>10, <1>11, <1>12 DEF Awaiting
<1> QED BY <1>4, <1>6, <1>8, <1>13

\* The parts of the state that an assistant message always changes in the same
\* way stay within their types and limits.
LEMMA MessageTypes ==
    ASSUME IndInv, NEW m \in Messages, NEW why \in Reasons, Blocks(m), Decide(why),
           why = "none" => BlockReason(m) = "none"
    PROVE  /\ setup' \in Setups /\ phase' \in {"reading", "stopping"}
           /\ reason' = why /\ outcome' = "none" /\ phase = "reading"
           /\ phase' = "reading" => why = "none"
           /\ done' \in BOOLEAN /\ result' \in {"none", "ok", "error"}
           /\ strikes' \in 0 .. StrikeLimit /\ strikes' < StrikeLimit
           /\ stuck' \in 0 .. StuckLimit
           /\ phase' = "reading" => stuck' < StuckLimit
           /\ \A i \in DOMAIN outputs' : outputs'[i] \in Outputs
           /\ unrefused' \in BOOLEAN /\ gateIntact' \in BOOLEAN
           /\ changed' \in BOOLEAN /\ dirty' \in BOOLEAN /\ repository' \in BOOLEAN
<1>1. phase = "reading" /\ TypeOK /\ BelowLimits /\ outcome = "none"
  BY DEF IndInv, Blocks, Awaiting
<1>2. reason' = why /\ phase' = IF why # "none" \/ done' THEN "stopping" ELSE "reading"
  BY DEF Decide
<1>3. stuck' = Stuck(m) /\ stuck < StuckLimit /\ stuck \in 0 .. StuckLimit
  BY <1>1 DEF Blocks, TypeOK, BelowLimits
<1>4. stuck' \in 0 .. StuckLimit BY <1>3, Limits DEF Stuck
<1>5. Stuck(m) >= StuckLimit => BlockReason(m) # "none"
  BY <1>3, Limits DEF Stuck, BlockReason
<1>6. phase' = "reading" => stuck' < StuckLimit
  <2>1. why = "none" => ~(Stuck(m) >= StuckLimit) BY <1>5
  <2> QED BY <1>2, <1>3, <1>4, <2>1, Limits
<1>7. done' \in BOOLEAN /\ changed' \in BOOLEAN BY DEF Blocks
<1>8. /\ setup' = setup /\ result' = result /\ outputs' = outputs /\ strikes' = strikes
      /\ gateIntact' = gateIntact /\ unrefused' = unrefused /\ dirty' = dirty
      /\ repository' = repository /\ outcome' = outcome
  BY DEF Blocks
<1>9. \A i \in DOMAIN outputs' : outputs'[i] \in Outputs BY <1>1, <1>8 DEF TypeOK
<1> QED
  BY <1>1, <1>2, <1>4, <1>6, <1>7, <1>8, <1>9 DEF TypeOK, BelowLimits

\* The invariant after an assistant message, from what its kind changes.
LEMMA MessageKeepsInv ==
    ASSUME IndInv, NEW m \in Messages, NEW why \in Reasons, Blocks(m), Decide(why),
           why = "none" => BlockReason(m) = "none",
           Recorded', WarningFirst', texts' \in Nat, reads' \in Nat,
           idle' \in 0 .. Kill, postReads' \in 0 .. 2,
           mustWrite' \in BOOLEAN, finalWarned' \in BOOLEAN,
           why = "none" => idle' < Kill /\ postReads' < 2
    PROVE  IndInv'
<1>1. /\ setup' \in Setups /\ phase' \in {"reading", "stopping"}
      /\ reason' = why /\ outcome' = "none" /\ phase = "reading"
      /\ phase' = "reading" => why = "none"
      /\ done' \in BOOLEAN /\ result' \in {"none", "ok", "error"}
      /\ strikes' \in 0 .. StrikeLimit /\ strikes' < StrikeLimit
      /\ stuck' \in 0 .. StuckLimit
      /\ phase' = "reading" => stuck' < StuckLimit
      /\ \A i \in DOMAIN outputs' : outputs'[i] \in Outputs
      /\ unrefused' \in BOOLEAN /\ gateIntact' \in BOOLEAN
      /\ changed' \in BOOLEAN /\ dirty' \in BOOLEAN /\ repository' \in BOOLEAN
  BY MessageTypes
<1>2. /\ open' \subseteq [turn: 1 .. turn', flagged: BOOLEAN,
                          run: {"no", "ran", "refused"}]
      /\ pending' \subseteq {c.turn : c \in open'}
      /\ turn' \in Nat
      /\ Awaiting'
  BY <1>1, MessageCalls
<1>3. TypeOK' BY <1>1, <1>2 DEF TypeOK
<1>4. BelowLimits' BY <1>1 DEF BelowLimits
<1>5. SuccessIsClean' BY <1>1 DEF SuccessIsClean
<1> QED BY <1>2, <1>3, <1>4, <1>5 DEF IndInv

LEMMA TextTurnStep ==
    ASSUME IndInv, NEW m \in Messages, TextTurn(m)
    PROVE  /\ IndInv'
           /\ reason' = "paralysis" => finalWarned
<1> DEFINE why == IF turn > MonologueExempt /\ texts' >= Monologue THEN "monologue"
                  ELSE IF mustWrite /\ ~setup.exempt THEN "paralysis"
                  ELSE BlockReason(m)
<1>1. Blocks(m) /\ Decide(why) /\ UNCHANGED <<idle, reads, warnings, history>>
  BY DEF TextTurn
<1>2. BlockReason(m) \in {"none", "security", "stuck"} BY ReasonOfBlocks
<1>3. why \in Reasons BY <1>2 DEF Reasons
<1>4. why = "none" => BlockReason(m) = "none" OBVIOUS
<1>5. why = "paralysis" => finalWarned BY <1>2 DEF IndInv, WarningFirst
<1>6. texts' \in Nat BY DEF TextTurn, IndInv, TypeOK
<1>7. /\ Recorded' /\ WarningFirst' /\ reads' \in Nat /\ idle' \in 0 .. Kill
      /\ postReads' \in 0 .. 2 /\ mustWrite' \in BOOLEAN /\ finalWarned' \in BOOLEAN
      /\ idle' < Kill /\ postReads' < 2
  BY <1>1 DEF IndInv, TypeOK, Recorded, WarningFirst, BelowLimits, warnings, Blocks
<1> HIDE DEF why
<1>8. IndInv' BY <1>1, <1>3, <1>4, <1>6, <1>7, MessageKeepsInv
<1>9. reason' = why BY <1>1 DEF Decide
<1> QED BY <1>5, <1>8, <1>9

LEMMA ExemptTurnStep ==
    ASSUME IndInv, NEW m \in Messages, ExemptTurn(m)
    PROVE  IndInv' /\ reason' # "paralysis"
<1>1. /\ Blocks(m) /\ Decide(BlockReason(m)) /\ texts' = 0
      /\ UNCHANGED <<idle, reads, warnings, history>>
  BY DEF ExemptTurn
<1>2. BlockReason(m) \in {"none", "security", "stuck"} BY ReasonOfBlocks
<1>3. BlockReason(m) \in Reasons BY <1>2 DEF Reasons
<1>4. /\ Recorded' /\ WarningFirst' /\ reads' \in Nat /\ idle' \in 0 .. Kill
      /\ postReads' \in 0 .. 2 /\ mustWrite' \in BOOLEAN /\ finalWarned' \in BOOLEAN
      /\ idle' < Kill /\ postReads' < 2 /\ texts' \in Nat
  BY <1>1 DEF IndInv, TypeOK, Recorded, WarningFirst, BelowLimits, warnings, Blocks
<1>5. IndInv' BY <1>1, <1>3, <1>4, MessageKeepsInv
<1>6. reason' = BlockReason(m) BY <1>1 DEF Decide
<1> QED BY <1>2, <1>5, <1>6

LEMMA WriteTurnStep ==
    ASSUME IndInv, NEW m \in Messages, WriteTurn(m)
    PROVE  IndInv' /\ reason' # "paralysis"
<1>1. /\ Blocks(m) /\ Decide(BlockReason(m)) /\ texts' = 0 /\ idle' = 0 /\ reads' = 0
      /\ mustWrite' = FALSE /\ postReads' = 0 /\ UNCHANGED <<finalWarned, history>>
  BY DEF WriteTurn
<1>2. BlockReason(m) \in {"none", "security", "stuck"} BY ReasonOfBlocks
<1>3. BlockReason(m) \in Reasons BY <1>2 DEF Reasons
<1>4. Recorded' /\ WarningFirst'
  BY <1>1, Limits DEF IndInv, Recorded, WarningFirst, Blocks
<1>7. /\ reads' \in Nat /\ texts' \in Nat
      /\ mustWrite' \in BOOLEAN /\ finalWarned' \in BOOLEAN
  BY <1>1 DEF IndInv, TypeOK
<1>8. /\ idle' \in 0 .. Kill /\ postReads' \in 0 .. 2
      /\ idle' < Kill /\ postReads' < 2
  BY <1>1, Limits
<1>5. IndInv' BY <1>1, <1>3, <1>4, <1>7, <1>8, MessageKeepsInv
<1>6. reason' = BlockReason(m) BY <1>1 DEF Decide
<1> QED BY <1>2, <1>5, <1>6

LEMMA ReadTurnStep ==
    ASSUME IndInv, NEW m \in Messages, ReadTurn(m)
    PROVE  /\ IndInv'
           /\ reason' = "paralysis" => finalWarned
<1> DEFINE last == m.calls[Len(m.calls)]
           tool == last.tool
           bound == mustWrite \/ Escalates(tool)
           why == IF idle' >= Kill \/ (bound /\ postReads' >= 2) THEN "paralysis"
                  ELSE IF IsLoop(history') THEN "loop"
                  ELSE IF BlockReason(m) # "none" THEN BlockReason(m)
                  ELSE IF ReadingRatioExceeded(history', turn', reads') THEN "paralysis"
                  ELSE "none"
<1>1. /\ Blocks(m) /\ Decide(why) /\ texts' = 0 /\ idle' = idle + 1
      /\ reads' = reads + (IF tool \in ReadTools THEN 1 ELSE 0)
      /\ history' = Append(history, Signature(last))
      /\ postReads' = postReads + (IF bound THEN 1 ELSE 0)
      /\ mustWrite' = (bound \/ FinalWarningDue)
      /\ finalWarned' = (finalWarned \/ Escalates(tool) \/ FinalWarningDue)
      /\ m.calls # <<>>
  BY DEF ReadTurn
<1>2. /\ TypeOK /\ Recorded /\ WarningFirst /\ phase = "reading" /\ idle < Kill
      /\ postReads < 2 /\ idle \in 0 .. Kill /\ postReads \in 0 .. 2
      /\ reads \in Nat /\ mustWrite \in BOOLEAN /\ finalWarned \in BOOLEAN
  BY <1>1 DEF IndInv, BelowLimits, TypeOK, Blocks
<1>3. history' \in Seq(Signatures)
  <2>1. last \in CallType BY <1>1, CallsAreCalls
  <2>2. Signature(last) \in Signatures BY <2>1 DEF Signatures
  <2> QED BY <1>1, <1>2, <2>2 DEF Recorded
<1>4. reads' \in Nat /\ idle' \in 0 .. Kill /\ postReads' \in 0 .. 2 /\ texts' \in Nat
  BY <1>1, <1>2, Limits
<1>5. mustWrite' \in BOOLEAN /\ finalWarned' \in BOOLEAN
  BY <1>1, <1>2 DEF FinalWarningDue, Escalates, FastEscalation, RetryGateArms
<1>6. WarningFirst'
  <2>1. mustWrite' => finalWarned' BY <1>1, <1>2 DEF WarningFirst
  <2>2. ~mustWrite' => postReads' = 0
    <3>1. ~mustWrite' => ~bound BY <1>1
    <3>2. ~bound => ~mustWrite /\ postReads' = postReads BY <1>1, <1>2
    <3> QED BY <1>2, <3>1, <3>2 DEF WarningFirst
  <2>3. idle' >= FinalWarn => finalWarned'
    BY <1>1, <1>2 DEF WarningFirst, FinalWarningDue
  <2> QED BY <2>1, <2>2, <2>3 DEF WarningFirst
<1>7. turn' \in Nat
  <2>1. Len(m.calls) \in Nat BY CallsAreCalls
  <2> QED BY <1>1, <1>2, <2>1 DEF Blocks, TypeOK
<1>8. ~ReadingRatioExceeded(history', turn', reads')
  BY <1>3, <1>4, <1>7, RatioNeverExceeded
<1>9. BlockReason(m) \in {"none", "security", "stuck"} BY ReasonOfBlocks
<1>10. why \in Reasons BY <1>9 DEF Reasons
<1>11. why = "none" => BlockReason(m) = "none" OBVIOUS
<1>12. why = "none" => idle' < Kill /\ postReads' < 2
  <2>1. why = "none" => ~(idle' >= Kill) /\ ~(bound /\ postReads' >= 2) OBVIOUS
  <2>2. ~bound => postReads' < 2 BY <1>1, <1>2
  <2> QED BY <1>4, <2>1, <2>2, Limits
<1>13. why = "paralysis" => finalWarned
  <2> SUFFICES ASSUME why = "paralysis" PROVE finalWarned OBVIOUS
  <2>1. idle' >= Kill \/ (bound /\ postReads' >= 2) BY <1>8, <1>9
  <2>2. CASE idle' >= Kill
    <3>1. idle >= FinalWarn BY <1>1, <1>2, <2>2, Limits
    <3> QED BY <1>2, <3>1 DEF WarningFirst
  <2>3. CASE bound /\ postReads' >= 2
    <3>1. postReads # 0 BY <1>1, <1>2, <2>3
    <3> QED BY <1>2, <3>1 DEF WarningFirst
  <2> QED BY <2>1, <2>2, <2>3
<1> HIDE DEF why, bound
<1>14. Recorded' BY <1>1, <1>2, <1>3 DEF Recorded, Blocks
<1>15. IndInv'
  BY <1>1, <1>4, <1>5, <1>6, <1>10, <1>11, <1>12, <1>14, MessageKeepsInv
<1>16. reason' = why BY <1>1 DEF Decide
<1> QED BY <1>13, <1>15, <1>16

-----------------------------------------------------------------------------
(* The agent's processes and the other messages.                           *)

LEMMA RunStep ==
    ASSUME IndInv, NEW c \in open, Run(c) PROVE IndInv' /\ reason' = reason
<1> DEFINE d == [c EXCEPT !.run = "ran"]
           Rec == [turn: 1 .. turn, flagged: BOOLEAN, run: {"no", "ran", "refused"}]
<1>1. /\ open' = (open \ {c}) \union {d} /\ unrefused' = (unrefused \/ c.flagged)
      /\ Alive /\ dirty' \in BOOLEAN
      /\ repository' \in (IF setup.nonGit THEN {repository, TRUE} ELSE {FALSE})
      /\ UNCHANGED <<setup, phase, reason, done, result, counters, warnings,
                     history, outputs, security, changed, outcome>>
  BY DEF Run
<1>2. /\ setup' = setup /\ phase' = phase /\ reason' = reason /\ done' = done
      /\ result' = result /\ turn' = turn /\ idle' = idle /\ reads' = reads
      /\ texts' = texts /\ stuck' = stuck /\ mustWrite' = mustWrite
      /\ finalWarned' = finalWarned /\ postReads' = postReads /\ history' = history
      /\ outputs' = outputs /\ pending' = pending /\ strikes' = strikes
      /\ gateIntact' = gateIntact /\ changed' = changed /\ outcome' = outcome
  BY <1>1 DEF counters, warnings, security
<1>3. open \subseteq Rec /\ TypeOK /\ Awaiting BY DEF IndInv, TypeOK
<1>4. /\ d \in Rec /\ d.turn = c.turn /\ d.flagged = c.flagged /\ d.run = "ran"
  BY <1>3
<1> HIDE DEF d
<1>5. open' \subseteq Rec BY <1>1, <1>3, <1>4
<1>6. pending' \subseteq {e.turn : e \in open'}
  <2>1. \A e \in open : \E f \in open' : f.turn = e.turn BY <1>1, <1>4
  <2>2. pending \subseteq {e.turn : e \in open} BY <1>3 DEF TypeOK
  <2> QED BY <1>2, <2>1, <2>2
<1>7. TypeOK'
  <2>1. unrefused' \in BOOLEAN /\ dirty' \in BOOLEAN /\ repository' \in BOOLEAN
    BY <1>1, <1>3 DEF TypeOK
  <2>2. \A i \in DOMAIN outputs' : outputs'[i] \in Outputs BY <1>2, <1>3 DEF TypeOK
  <2> QED BY <1>2, <1>3, <1>5, <1>6, <2>1, <2>2 DEF TypeOK
<1>8. Awaiting'
  <2>1. \A e, f \in open' : e.turn = f.turn => e = f
    BY <1>1, <1>3, <1>4 DEF Awaiting
  <2>2. Listening /\ reason = "none" => \A e \in open' : e.flagged => e.turn \in pending'
    BY <1>1, <1>2, <1>3, <1>4 DEF Awaiting
  <2>3. Listening /\ reason = "none" /\ unrefused' =>
          \E e \in open' : e.flagged /\ e.run = "ran"
    <3> SUFFICES ASSUME Listening, reason = "none", unrefused'
                 PROVE  \E e \in open' : e.flagged /\ e.run = "ran"
      OBVIOUS
    <3>1. CASE c.flagged BY <1>1, <1>4, <3>1
    <3>2. CASE ~c.flagged
      <4>1. PICK e \in open : e.flagged /\ e.run = "ran"
        BY <1>1, <1>3, <3>2 DEF Awaiting
      <4> QED BY <1>1, <3>2, <4>1
    <3> QED BY <3>1, <3>2
  <2>4. phase # "gone" /\ phase # "ended" BY <1>1 DEF Alive
  <2> QED BY <1>2, <1>3, <2>1, <2>2, <2>3, <2>4 DEF Awaiting, Listening
<1>9. Recorded' /\ BelowLimits' /\ WarningFirst'
  BY <1>2 DEF IndInv, Recorded, BelowLimits, WarningFirst
<1>10. SuccessIsClean'
  BY <1>1, <1>2, <1>3 DEF Awaiting, SuccessIsClean, Alive
<1> QED BY <1>2, <1>7, <1>8, <1>9, <1>10 DEF IndInv

LEMMA RefuseStep ==
    ASSUME IndInv, NEW c \in open, Refuse(c) PROVE IndInv' /\ reason' = reason
<1> DEFINE d == [c EXCEPT !.run = "refused"]
           Rec == [turn: 1 .. turn, flagged: BOOLEAN, run: {"no", "ran", "refused"}]
<1>1. /\ open' = (open \ {c}) \union {d} /\ c.run = "no" /\ Alive
      /\ UNCHANGED <<setup, phase, reason, done, result, counters, warnings,
                     history, outputs, security, unrefused, dirty, repository,
                     changed, outcome>>
  BY DEF Refuse
<1>2. /\ setup' = setup /\ phase' = phase /\ reason' = reason /\ done' = done
      /\ result' = result /\ turn' = turn /\ idle' = idle /\ reads' = reads
      /\ texts' = texts /\ stuck' = stuck /\ mustWrite' = mustWrite
      /\ finalWarned' = finalWarned /\ postReads' = postReads /\ history' = history
      /\ outputs' = outputs /\ pending' = pending /\ strikes' = strikes
      /\ gateIntact' = gateIntact /\ changed' = changed /\ outcome' = outcome
      /\ unrefused' = unrefused /\ dirty' = dirty /\ repository' = repository
  BY <1>1 DEF counters, warnings, security
<1>3. open \subseteq Rec /\ TypeOK /\ Awaiting BY DEF IndInv, TypeOK
<1>4. /\ d \in Rec /\ d.turn = c.turn /\ d.flagged = c.flagged /\ d.run = "refused"
  BY <1>3
<1> HIDE DEF d
<1>5. open' \subseteq Rec BY <1>1, <1>3, <1>4
<1>6. pending' \subseteq {e.turn : e \in open'}
  <2>1. \A e \in open : \E f \in open' : f.turn = e.turn BY <1>1, <1>4
  <2>2. pending \subseteq {e.turn : e \in open} BY <1>3 DEF TypeOK
  <2> QED BY <1>2, <2>1, <2>2
<1>7. TypeOK'
  <2>1. \A i \in DOMAIN outputs' : outputs'[i] \in Outputs BY <1>2, <1>3 DEF TypeOK
  <2> QED BY <1>2, <1>3, <1>5, <1>6, <2>1 DEF TypeOK
<1>8. Awaiting'
  <2>1. \A e, f \in open' : e.turn = f.turn => e = f
    BY <1>1, <1>3, <1>4 DEF Awaiting
  <2>2. Listening /\ reason = "none" => \A e \in open' : e.flagged => e.turn \in pending'
    BY <1>1, <1>2, <1>3, <1>4 DEF Awaiting
  <2>3. Listening /\ reason = "none" /\ unrefused =>
          \E e \in open' : e.flagged /\ e.run = "ran"
    <3> SUFFICES ASSUME Listening, reason = "none", unrefused
                 PROVE  \E e \in open' : e.flagged /\ e.run = "ran"
      OBVIOUS
    <3>1. PICK e \in open : e.flagged /\ e.run = "ran" BY <1>3 DEF Awaiting
    <3> QED BY <1>1, <3>1
  <2>4. phase # "gone" /\ phase # "ended" BY <1>1 DEF Alive
  <2> QED BY <1>2, <1>3, <2>1, <2>2, <2>3, <2>4 DEF Awaiting, Listening
<1>9. Recorded' /\ BelowLimits' /\ WarningFirst' /\ SuccessIsClean'
  BY <1>2 DEF IndInv, Recorded, BelowLimits, WarningFirst, SuccessIsClean
<1> QED BY <1>2, <1>7, <1>8, <1>9 DEF IndInv

LEMMA ToolResultStep ==
    ASSUME IndInv, NEW c \in open, NEW out \in Outputs, ToolResult(c, out)
    PROVE  IndInv' /\ reason' # "paralysis"
<1> DEFINE Rec == [turn: 1 .. turn, flagged: BOOLEAN, run: {"no", "ran", "refused"}]
           refusal == c.turn \in pending /\ gateIntact /\ c.run = "refused"
           seen == dirty /\ ~setup.nonGit
<1>1. /\ phase = "reading" /\ c.run # "no" /\ open' = open \ {c}
      /\ pending' = pending \ {c.turn}
      /\ strikes' = strikes + (IF refusal THEN 1 ELSE 0)
      /\ outputs' = Append(outputs, out)
      /\ changed' = (changed \/ seen) /\ idle' = IF seen THEN 0 ELSE idle
      /\ reason' = IF FlaggedReason(c) = "none" /\ setup.nonGit /\ repository
                     THEN "repository" ELSE FlaggedReason(c)
      /\ phase' = IF reason' # "none" THEN "stopping" ELSE "reading"
      /\ UNCHANGED <<setup, done, result, turn, reads, texts, stuck, warnings,
                     history, gateIntact, unrefused, dirty, repository, outcome>>
  BY DEF ToolResult
<1>2. /\ setup' = setup /\ done' = done /\ result' = result /\ turn' = turn
      /\ reads' = reads /\ texts' = texts /\ stuck' = stuck
      /\ mustWrite' = mustWrite /\ finalWarned' = finalWarned
      /\ postReads' = postReads /\ history' = history /\ gateIntact' = gateIntact
      /\ unrefused' = unrefused /\ dirty' = dirty /\ repository' = repository
      /\ outcome' = outcome
  BY <1>1 DEF warnings
<1>3. /\ open \subseteq Rec /\ TypeOK /\ Awaiting /\ reason = "none"
      /\ strikes \in 0 .. StrikeLimit /\ strikes < StrikeLimit
      /\ idle \in 0 .. Kill /\ idle < Kill
  BY <1>1 DEF IndInv, TypeOK, BelowLimits
<1>4. FlaggedReason(c) \in {"none", "security"} BY DEF FlaggedReason
<1>5. reason' \in {"none", "security", "repository"} BY <1>1, <1>4
<1>6. strikes' \in 0 .. StrikeLimit BY <1>1, <1>3, Limits
<1>7. reason' = "none" => strikes' < StrikeLimit
  <2>1. reason' = "none" => FlaggedReason(c) = "none" BY <1>1
  <2>2. refusal /\ FlaggedReason(c) = "none" => strikes + 1 < StrikeLimit
    BY DEF FlaggedReason
  <2> QED BY <1>1, <1>3, <2>1, <2>2, Limits
<1>8. idle' \in 0 .. Kill /\ idle' < Kill BY <1>1, <1>3, Limits
<1>9. pending' \subseteq {e.turn : e \in open'}
  <2> SUFFICES ASSUME NEW t \in pending' PROVE t \in {e.turn : e \in open'}
    OBVIOUS
  <2>1. t \in pending /\ t # c.turn BY <1>1
  <2>2. PICK e \in open : e.turn = t BY <1>3, <2>1 DEF TypeOK
  <2> QED BY <1>1, <2>1, <2>2
<1>10. TypeOK'
  <2>1. \A i \in DOMAIN outputs' : outputs'[i] \in Outputs
    <3>1. outputs \in Seq(Outputs) BY <1>3 DEF Recorded, IndInv
    <3> QED BY <1>1, <3>1
  <2>2. open' \subseteq Rec BY <1>1, <1>3
  <2>3. changed' \in BOOLEAN BY <1>1
  <2> QED BY <1>1, <1>2, <1>3, <1>5, <1>6, <1>8, <1>9, <2>1, <2>2, <2>3
          DEF TypeOK, Reasons
<1>11. BelowLimits'
  BY <1>1, <1>2, <1>7, <1>8 DEF IndInv, BelowLimits
<1>12. WarningFirst'
  BY <1>1, <1>2, Limits DEF IndInv, WarningFirst
<1>13. Awaiting'
  <2>1. \A e, f \in open' : e.turn = f.turn => e = f BY <1>1, <1>3 DEF Awaiting
  <2>2. reason' = "none" => \A e \in open' : e.flagged => e.turn \in pending'
    BY <1>1, <1>3 DEF Awaiting, Listening
  <2>3. reason' = "none" /\ unrefused => \E e \in open' : e.flagged /\ e.run = "ran"
    <3> SUFFICES ASSUME reason' = "none", unrefused
                 PROVE  \E e \in open' : e.flagged /\ e.run = "ran"
      OBVIOUS
    <3>1. PICK e \in open : e.flagged /\ e.run = "ran"
      BY <1>1, <1>3 DEF Awaiting, Listening
    <3>2. FlaggedReason(c) = "none" BY <1>1
    <3>3. e # c
      <4>1. e.turn \in pending BY <1>1, <1>3, <3>1 DEF Awaiting, Listening
      <4> QED BY <3>1, <3>2, <4>1 DEF FlaggedReason
    <3> QED BY <1>1, <3>1, <3>3
  <2> QED BY <1>1, <1>2, <1>3, <2>1, <2>2, <2>3 DEF Awaiting, Listening
<1>14. SuccessIsClean' BY <1>1, <1>2, <1>3 DEF Awaiting, SuccessIsClean
<1>15. Recorded' BY <1>1, <1>2 DEF IndInv, Recorded
<1> QED BY <1>5, <1>10, <1>11, <1>12, <1>13, <1>14, <1>15 DEF IndInv

\* The steps that change neither a counter nor a call, and only end a phase.
LEMMA PhaseStep ==
    ASSUME IndInv,
           GateChanges \/ ResultMessage \/ EndOfStream \/ Deadline \/ MonitorError
             \/ Terminate \/ Finish \/ Cancelled
    PROVE  /\ IndInv'
           /\ reason' = "paralysis" => reason = "paralysis"
<1>1. /\ setup' = setup /\ done' = done /\ turn' = turn /\ idle' = idle /\ reads' = reads
      /\ texts' = texts /\ stuck' = stuck /\ mustWrite' = mustWrite
      /\ finalWarned' = finalWarned /\ postReads' = postReads /\ history' = history
      /\ outputs' = outputs /\ open' = open /\ unrefused' = unrefused
      /\ pending' = pending /\ strikes' = strikes /\ changed' = changed
      /\ dirty' = dirty /\ repository' = repository
  BY DEF GateChanges, ResultMessage, EndOfStream, Deadline, MonitorError, LeaveLoop,
         Terminate, Finish, Cancelled, counters, warnings, security, agent
<1>2. TypeOK /\ Awaiting /\ BelowLimits /\ SuccessIsClean BY DEF IndInv
<1>3. \A i \in DOMAIN outputs' : outputs'[i] \in Outputs BY <1>1, <1>2 DEF TypeOK
<1>4. Recorded' /\ WarningFirst' BY <1>1 DEF IndInv, Recorded, WarningFirst
<1>5. CASE GateChanges
  <2>1. /\ phase' = phase /\ reason' = reason /\ result' = result /\ outcome' = outcome
        /\ gateIntact' \in BOOLEAN
    BY <1>5 DEF GateChanges
  <2>2. TypeOK' BY <1>1, <1>2, <1>3, <2>1 DEF TypeOK
  <2>3. BelowLimits' /\ Awaiting' /\ SuccessIsClean'
    BY <1>1, <1>2, <2>1 DEF BelowLimits, Awaiting, SuccessIsClean, Listening
  <2> QED BY <1>4, <2>1, <2>2, <2>3 DEF IndInv
<1>6. ASSUME NEW why \in {"none", "timeout", "error"}, NEW r \in {"none", "ok", "error"},
             LeaveLoop(why, r)
      PROVE  IndInv' /\ reason' # "paralysis"
  <2>1. /\ phase = "reading" /\ phase' = "stopping" /\ reason' = why /\ result' = r
        /\ gateIntact' = gateIntact /\ outcome' = outcome /\ reason = "none"
    BY <1>2, <1>6 DEF LeaveLoop, security, BelowLimits
  <2>2. TypeOK' BY <1>1, <1>2, <1>3, <2>1 DEF TypeOK, Reasons
  <2>3. BelowLimits' /\ Awaiting' /\ SuccessIsClean'
    BY <1>1, <1>2, <2>1 DEF BelowLimits, Awaiting, SuccessIsClean, Listening
  <2> QED BY <1>4, <2>1, <2>2, <2>3 DEF IndInv
<1>7. CASE ResultMessage \/ EndOfStream \/ Deadline \/ MonitorError
  BY <1>6, <1>7 DEF ResultMessage, EndOfStream, Deadline, MonitorError
<1>8. CASE Terminate
  <2>1. /\ phase = "stopping" /\ phase' = "gone"
        /\ reason' = IF pending # {} /\ reason = "none" THEN "security" ELSE reason
        /\ result' = result /\ gateIntact' = gateIntact /\ outcome' = outcome
    BY <1>8 DEF Terminate, security
  <2>2. TypeOK' BY <1>1, <1>2, <1>3, <2>1 DEF TypeOK, Reasons
  <2>3. reason' = "none" => ~unrefused
    <3> SUFFICES ASSUME reason' = "none", unrefused PROVE FALSE OBVIOUS
    <3>1. reason = "none" /\ pending = {} BY <2>1
    <3>2. PICK c \in open : c.flagged BY <1>2, <2>1, <3>1 DEF Awaiting, Listening
    <3>3. c.turn \in pending BY <1>2, <2>1, <3>1, <3>2 DEF Awaiting, Listening
    <3> QED BY <3>1, <3>3
  <2>4. BelowLimits' /\ Awaiting' /\ SuccessIsClean'
    BY <1>1, <1>2, <2>1, <2>3 DEF BelowLimits, Awaiting, SuccessIsClean, Listening
  <2> QED BY <1>4, <2>1, <2>2, <2>4 DEF IndInv
<1>9. CASE Finish
  <2>1. /\ phase = "gone" /\ phase' = "ended"
        /\ reason' = IF setup.nonGit /\ repository /\ reason = "none"
                       THEN "repository" ELSE reason
        /\ outcome' = IF reason' = "none" /\ Succeeds THEN "success" ELSE "failure"
        /\ result' = result /\ gateIntact' = gateIntact
    BY <1>9 DEF Finish, security
  <2>5. reason' \in Reasons /\ outcome' \in {"success", "failure"}
    BY <1>2, <2>1 DEF TypeOK, Reasons
  <2>2. TypeOK' BY <1>1, <1>2, <1>3, <2>1, <2>5 DEF TypeOK
  <2>3. BelowLimits' /\ Awaiting'
    BY <1>1, <1>2, <2>1 DEF BelowLimits, Awaiting, Listening
  <2>4. SuccessIsClean'
    BY <1>1, <1>2, <2>1 DEF Awaiting, SuccessIsClean
  <2> QED BY <1>4, <2>1, <2>2, <2>3, <2>4 DEF IndInv
<1>10. CASE Cancelled
  <2>1. /\ phase' = "ended" /\ outcome' = "cancelled" /\ reason' = reason
        /\ result' = result /\ gateIntact' = gateIntact
    BY <1>10 DEF Cancelled, security
  <2>2. TypeOK' BY <1>1, <1>2, <1>3, <2>1 DEF TypeOK
  <2>3. BelowLimits' /\ Awaiting' /\ SuccessIsClean'
    BY <1>1, <1>2, <2>1 DEF BelowLimits, Awaiting, SuccessIsClean, Listening
  <2> QED BY <1>4, <2>1, <2>2, <2>3 DEF IndInv
<1> QED BY <1>5, <1>7, <1>8, <1>9, <1>10

-----------------------------------------------------------------------------
(* The theorems.                                                           *)

LEMMA Invariance ==
    ASSUME IndInv, [Next]_vars
    PROVE  /\ IndInv'
           /\ reason # "paralysis" /\ reason' = "paralysis" => finalWarned
<1>1. CASE UNCHANGED vars
  BY <1>1 DEF vars, counters, warnings, security, agent, IndInv, TypeOK, Recorded,
     BelowLimits, WarningFirst, Awaiting, Listening, SuccessIsClean
<1>2. CASE Assistant
  BY <1>2, TextTurnStep, ExemptTurnStep, WriteTurnStep, ReadTurnStep DEF Assistant
<1>3. CASE \E c \in open : Run(c) \/ Refuse(c) \/ \E out \in Outputs : ToolResult(c, out)
  BY <1>3, RunStep, RefuseStep, ToolResultStep
<1>4. CASE GateChanges \/ ResultMessage \/ EndOfStream \/ Deadline \/ MonitorError
             \/ Terminate \/ Finish \/ Cancelled
  BY <1>4, PhaseStep
<1> QED BY <1>1, <1>2, <1>3, <1>4 DEF Next

LEMMA Always == Spec => []IndInv
BY Initially, Invariance, PTL DEF Spec

\* The counters of the monitor stay within the limits at which it stops a run
\* (the tracking state of _run_agent_streaming_impl).
THEOREM CountersStayBounded == Spec => []TypeOK
<1>1. IndInv => TypeOK BY DEF IndInv
<1> QED BY <1>1, Always, PTL

\* A run reported as successful ran no flagged command and left no repository
\* where there was none (pending_flagged and the last two checks of
\* _run_agent_streaming_impl).
THEOREM SuccessMeansClean == Spec => []SuccessIsClean
<1>1. IndInv => SuccessIsClean BY DEF IndInv
<1> QED BY <1>1, Always, PTL

\* No run is stopped for analysis paralysis before the final warning was given
\* (the escalation of _run_agent_streaming_impl).  The proof needs that no
\* signature counts for the reading ratio, which would stop a run unwarned.
THEOREM KillsAreWarned == Spec => WarnedBeforeKill
<1>1. IndInv /\ [Next]_vars =>
        [reason # "paralysis" /\ reason' = "paralysis" => finalWarned]_vars
  BY Invariance
<1> QED BY <1>1, Always, PTL DEF Spec, WarnedBeforeKill

=============================================================================
