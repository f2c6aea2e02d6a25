------------------------------ MODULE TurnProofs ------------------------------
(***************************************************************************)
(* The safety of the turns, for any conversations, fields, questions,      *)
(* limits, batches and crashes: every variable keeps its type, there is    *)
(* one lead for each escalated conversation, and the buyer reads nothing   *)
(* that has not passed the guard.  When no call names another              *)
(* conversation, a handoff line has its brief and nothing behind it.       *)
(***************************************************************************)
EXTENDS Turn, SequenceTheorems, TLAPS

\* What an answer of the model holds: calls, and each one names its conversation
\* when none is misaddressed.
LEMMA CallsTyped ==
    ASSUME NEW c \in Convs, NEW call \in Calls(c)
    PROVE  /\ call \in AllCalls
           /\ "misaddressed" \notin Faults => call.conv = c
BY DEF Calls, Call, AllCalls, Failed, Named

\* A batch of the model is a sequence of calls, and of its own conversation's where
\* none is misaddressed.
LEMMA BatchTyped ==
    ASSUME NEW c \in Convs, NEW batch \in Batches(c)
    PROVE  /\ batch \in Seq(AllCalls)
           /\ "misaddressed" \notin Faults => \A i \in DOMAIN batch : batch[i].conv = c
<1>1. PICK n \in 0 .. MaxBatch : batch \in [1 .. n -> Calls(c)]
  BY DEF Batches
<1>2. n \in Nat
  BY TurnLimitsAssumption
<1>3. \A i \in 1 .. n : batch[i] \in AllCalls
  BY <1>1, CallsTyped
<1>4. batch \in [1 .. n -> AllCalls]
  BY <1>1, <1>3
<1>5. batch \in Seq(AllCalls)
  BY <1>2, <1>4, SeqDef
<1>. QED
  BY <1>1, <1>5, CallsTyped

\* What is known of the turn of a conversation, and of a sequence of calls.
LEMMA TurnTyped ==
    ASSUME TypeOK, NEW c \in Convs
    PROVE  /\ turn[c] \in Turns
           /\ turn[c].pc \in {"idle", "model", "repair", "brief"} \cup Working
           /\ turn[c].step \in 0 .. StepCap
           /\ turn[c].rest \in Seq(AllCalls)
           /\ turn[c].text \in Texts
           /\ turn[c].progressed \in BOOLEAN
           /\ turn[c].booked \in BOOLEAN
           /\ turn[c].escalated \in BOOLEAN
<1>1. turn[c] \in Turns
  BY DEF TypeOK
<1>. QED
  BY <1>1 DEF Turns

\* No turn and no text are a turn and a text.
LEMMA NoTurnTyped == NoTurn \in Turns /\ NoText \in Texts
<1>1. <<>> \in Seq(AllCalls)
  BY EmptySeq
<1>. QED
  BY <1>1, TurnLimitsAssumption DEF NoTurn, Turns, NoText, Texts, Asks

\* What a batch has left is calls of the batch.
LEMMA FirstCall ==
    ASSUME NEW rest \in Seq(AllCalls), rest # <<>>
    PROVE  /\ Head(rest) \in AllCalls
           /\ Tail(rest) \in Seq(AllCalls)
           /\ \A i \in DOMAIN Tail(rest) : \E j \in DOMAIN rest : Tail(rest)[i] = rest[j]
           /\ \E j \in DOMAIN rest : Head(rest) = rest[j]
BY HeadTailProperties, LenProperties

\* Whatever is stored is a row.
LEMMA RowsTyped ==
    /\ Buyers \in Rows /\ Hold \in Rows
    /\ \A text \in Texts : Reply(text) \in Rows /\ Handoff(text) \in Rows
BY DEF Buyers, Hold, Reply, Handoff, Rows, Texts, Asks

-------------------------------------------------------------------------------
(* What a step can do to the leads and to the talk.                        *)

\* A step leaves the leads and the statuses alone, escalates, or fills in a brief.
Briefs(c, prose) ==
    [i \in DOMAIN leads |->
        IF leads[i].conv = c THEN [leads[i] EXCEPT !.brief = prose] ELSE leads[i]]

LeadStep ==
    \/ UNCHANGED <<leads, status>>
    \/ \E d \in Convs, reason \in Reasons :
          leads' = Escalated(d, reason) /\ status' = EscalatedStatus(d)
    \/ \E d \in Convs, prose \in {"written", "template"} :
          leads' = Briefs(d, prose) /\ UNCHANGED status

\* A verdict of the evaluator is a reason.
LEMMA VerdictIsReason ==
    ASSUME NEW c \in Convs, Verdict(c) # "none"
    PROVE  Verdict(c) \in Reasons
BY DEF Verdict, Reasons

\* How a step may change leads and statuses.
LEMMA LeadSteps == TypeOK /\ [Next]_vars => LeadStep
<1>. SUFFICES ASSUME TypeOK, [Next]_vars PROVE LeadStep
  OBVIOUS
<1>1. CASE Crash \/ UNCHANGED vars
  BY <1>1 DEF Crash, vars, stored, LeadStep
<1>2. ASSUME NEW c \in Convs, Start(c) PROVE LeadStep
  BY <1>2 DEF Start, StartSilent, StartTriggered, StartModel, Stored, LeadStep
<1>3. ASSUME NEW c \in Convs, ModelStep(c) PROVE LeadStep
  <2>1. ASSUME NEW prose \in {"written", "template"}, BriefWritten(c, prose) PROVE LeadStep
    BY <2>1 DEF BriefWritten, LeadStep, Briefs
  <2>2. ASSUME NEW batch \in Batches(c), ModelCallsTools(c, batch) PROVE LeadStep
    BY <2>2 DEF ModelCallsTools, stored, LeadStep
  <2>3. ASSUME NEW text \in Texts, ModelReplies(c, text) \/ RepairReplies(c, text)
        PROVE  LeadStep
    BY <2>3 DEF ModelReplies, RepairReplies, AfterGuard, stored, LeadStep
  <2>4. CASE ModelDown(c) \/ ModelMalformed(c) \/ RepairFails(c)
    BY <2>4 DEF ModelDown, ModelMalformed, RepairFails, AfterGuard, LeadStep
  <2>. QED
    BY <1>3, <2>1, <2>2, <2>3, <2>4 DEF ModelStep
<1>4. ASSUME NEW c \in Convs, Triggered(c) PROVE LeadStep
  BY <1>4 DEF Triggered, Escalate, LeadStep, Reasons
<1>5. ASSUME NEW c \in Convs, Dispatch(c) PROVE LeadStep
  <2>1. Head(turn[c].rest) \in AllCalls
    BY <1>5, TurnTyped, FirstCall DEF Dispatch
  <2>2. Head(turn[c].rest).conv \in Convs
    BY <2>1 DEF AllCalls
  <2>. QED
    BY <1>5, <2>2 DEF Dispatch, LeadStep, Reasons
<1>6. ASSUME NEW c \in Convs, LogCall(c) \/ HandOff(c) PROVE LeadStep
  BY <1>6 DEF LogCall, HandOff, LeadStep
<1>7. ASSUME NEW c \in Convs, EndBatch(c) PROVE LeadStep
  BY <1>7 DEF EndBatch, Escalate, LeadStep, Reasons
<1>8. ASSUME NEW c \in Convs, Evaluate(c) PROVE LeadStep
  BY <1>8, VerdictIsReason DEF Evaluate, Escalate, LeadStep
<1>. QED
  BY <1>1, <1>2, <1>3, <1>4, <1>5, <1>6, <1>7, <1>8 DEF Next, Step, Done

\* A step writes at most one row, and nothing in it is ungrounded when no turn
\* keeps a text that is.
Checked == \A c \in Convs : turn[c].text.grounded

TalkStep ==
    \/ UNCHANGED talk
    \/ \E c \in Convs, row \in Rows :
          row.grounded /\ talk' = [talk EXCEPT ![c] = Append(@, row)]

\* A turn that ends with a grounded row adds that row to its own talk.
LEMMA Ending ==
    ASSUME NEW c \in Convs, NEW row \in Rows, NEW out, row.grounded, Ends(c, row, out)
    PROVE  TalkStep
BY DEF Ends, TalkStep

\* A turn that finishes escalated adds a grounded text and the line behind it.
LEMMA Finishing ==
    ASSUME NEW c \in Convs, NEW text \in Texts, text.grounded, NEW rows,
           FinishEscalated(c, text, rows)
    PROVE  TalkStep
<1>1. Handoff(text) \in Rows /\ Handoff(text).grounded
  BY RowsTyped DEF Handoff
<1>. QED
  BY <1>1, Ending DEF FinishEscalated, TalkStep

\* How a step may change what was said.
LEMMA TalkSteps == TypeOK /\ Checked /\ [Next]_vars => TalkStep
<1>. SUFFICES ASSUME TypeOK, Checked, [Next]_vars PROVE TalkStep
  OBVIOUS
<1>. NoText \in Texts /\ NoText.grounded
  BY NoTurnTyped DEF NoText
<1>. Buyers.grounded /\ Hold.grounded
  BY DEF Buyers, Hold
<1>1. CASE Crash \/ UNCHANGED vars
  BY <1>1 DEF Crash, vars, stored, TalkStep
<1>2. ASSUME NEW c \in Convs, Start(c) PROVE TalkStep
  BY <1>2, Ending, RowsTyped
  DEF Start, StartSilent, StartTriggered, StartModel, Stored, TalkStep
<1>3. ASSUME NEW c \in Convs, ModelStep(c) PROVE TalkStep
  <2>1. ASSUME NEW prose \in {"written", "template"}, BriefWritten(c, prose) PROVE TalkStep
    BY <2>1 DEF BriefWritten, TalkStep
  <2>2. ASSUME NEW batch \in Batches(c), ModelCallsTools(c, batch) PROVE TalkStep
    BY <2>2 DEF ModelCallsTools, stored, TalkStep
  <2>3. ASSUME NEW text \in Texts, ModelReplies(c, text) \/ RepairReplies(c, text)
        PROVE  TalkStep
    BY <2>3 DEF ModelReplies, RepairReplies, AfterGuard, stored, TalkStep
  <2>4. CASE ModelMalformed(c) \/ RepairFails(c)
    BY <2>4 DEF ModelMalformed, Raises, RepairFails, AfterGuard, TalkStep
  <2>5. CASE ModelDown(c)
    BY <2>5, Ending, RowsTyped DEF ModelDown
  <2>. QED
    BY <1>3, <2>1, <2>2, <2>3, <2>4, <2>5 DEF ModelStep
<1>4. ASSUME NEW c \in Convs, Triggered(c) PROVE TalkStep
  BY <1>4, Finishing DEF Triggered, Escalate
<1>5. ASSUME NEW c \in Convs, Dispatch(c) \/ LogCall(c) PROVE TalkStep
  BY <1>5 DEF Dispatch, LogCall, TalkStep
<1>6. ASSUME NEW c \in Convs, HandOff(c) PROVE TalkStep
  <2>1. Handoff(turn[c].text) \in Rows /\ Handoff(turn[c].text).grounded
    BY TurnTyped, RowsTyped DEF Checked, Handoff
  <2>. QED
    BY <1>6, <2>1, Ending DEF HandOff
<1>7. ASSUME NEW c \in Convs, EndBatch(c) PROVE TalkStep
  BY <1>7, Finishing DEF EndBatch, Escalate, TalkStep
<1>8. ASSUME NEW c \in Convs, Evaluate(c) PROVE TalkStep
  <2>1. turn[c].text \in Texts /\ turn[c].text.grounded
    BY TurnTyped DEF Checked
  <2>2. Reply(turn[c].text) \in Rows /\ Reply(turn[c].text).grounded
    BY <2>1, RowsTyped DEF Reply
  <2>. QED
    BY <1>8, <2>1, <2>2, Finishing, Ending DEF Evaluate, Escalate, Raises, TalkStep
<1>. QED
  BY <1>1, <1>2, <1>3, <1>4, <1>5, <1>6, <1>7, <1>8 DEF Next, Step, Done

-------------------------------------------------------------------------------
(* Every variable keeps its type.                                          *)

\* The variables that neither the talk nor the leads are.
OthersTyped ==
    /\ count \in [Convs -> Nat]
    /\ known \in [Convs -> SUBSET Fields]
    /\ asked \in [Convs -> SUBSET Sections]
    /\ unreadable \in [Convs -> BOOLEAN]
    /\ visits \in [Convs -> Nat]
    /\ turn \in [Convs -> Turns]
    /\ outcome \in [Convs -> {"none", "active", "silent", "escalated", "error"}]
    /\ lost \subseteq Convs \X Nat
    /\ crashes \in 0 .. MaxCrashes

\* The turns and outcomes keep their types when a turn ends.
LEMMA OthersEnding ==
    ASSUME TypeOK, NEW c \in Convs, NEW row,
           NEW out \in {"active", "silent", "escalated"}, Ends(c, row, out)
    PROVE  /\ turn' \in [Convs -> Turns]
           /\ outcome' \in [Convs -> {"none", "active", "silent", "escalated", "error"}]
BY NoTurnTyped DEF Ends, TypeOK

\* The turns and outcomes keep their types when a turn raises.
LEMMA OthersRaising ==
    ASSUME TypeOK, NEW c \in Convs, Raises(c)
    PROVE  /\ turn' \in [Convs -> Turns]
           /\ outcome' \in [Convs -> {"none", "active", "silent", "escalated", "error"}]
BY NoTurnTyped DEF Raises, TypeOK

\* The turns and outcomes keep their types when a turn goes to its brief, its
\* evaluation or its handoff.
LEMMA OthersGoing ==
    ASSUME TypeOK, NEW c \in Convs, NEW pc \in {"brief", "evaluate", "handoff"},
           NEW text \in Texts, GoesTo(c, pc, text)
    PROVE  /\ turn' \in [Convs -> Turns]
           /\ outcome' \in [Convs -> {"none", "active", "silent", "escalated", "error"}]
<1>1. [turn[c] EXCEPT !.pc = pc, !.text = text] \in Turns
  BY TurnTyped DEF Turns, Working
<1>2. turn' = [turn EXCEPT ![c] = [turn[c] EXCEPT !.pc = pc, !.text = text]]
  BY DEF GoesTo, TypeOK
<1>. QED
  BY <1>1, <1>2 DEF GoesTo, TypeOK

\* The turns and outcomes keep their types when a turn finishes escalated.
LEMMA OthersFinishing ==
    ASSUME TypeOK, NEW c \in Convs, NEW text \in Texts, NEW rows,
           FinishEscalated(c, text, rows)
    PROVE  /\ turn' \in [Convs -> Turns]
           /\ outcome' \in [Convs -> {"none", "active", "silent", "escalated", "error"}]
BY OthersEnding, OthersGoing DEF FinishEscalated

\* All but leads and talk keep their types when a turn starts.
LEMMA OthersStart ==
    ASSUME TypeOK, NEW c \in Convs, Start(c)
    PROVE  OthersTyped'
<1>1. CASE StartSilent(c)
  BY <1>1, OthersEnding DEF StartSilent, TypeOK, OthersTyped, fallen
<1>2. ASSUME NEW pc \in {"trigger", "model"}, Stored(c, pc) PROVE OthersTyped'
  <2>1. [NoTurn EXCEPT !.pc = pc, !.step = 1] \in Turns
    <3>1. 1 \in 0 .. StepCap
      BY TurnLimitsAssumption
    <3>. QED
      BY <3>1, NoTurnTyped DEF Turns, Working
  <2>. QED
    BY <1>2, <2>1 DEF Stored, TypeOK, OthersTyped, fallen
<1>. QED
  BY <1>1, <1>2 DEF Start, StartTriggered, StartModel

\* All but leads and talk keep their types when the model answers.
LEMMA OthersModelStep ==
    ASSUME TypeOK, NEW c \in Convs, ModelStep(c)
    PROVE  OthersTyped'
<1>1. CASE ModelDown(c)
  BY <1>1, OthersEnding DEF ModelDown, TypeOK, OthersTyped, fallen
<1>2. CASE ModelMalformed(c)
  BY <1>2, OthersRaising DEF ModelMalformed, TypeOK, OthersTyped, fallen
<1>3. ASSUME NEW batch \in Batches(c), ModelCallsTools(c, batch) PROVE OthersTyped'
  <2>1. [turn[c] EXCEPT !.pc = "dispatch", !.rest = batch, !.escalated = FALSE] \in Turns
    BY TurnTyped, BatchTyped DEF Turns, Working
  <2>. QED
    BY <1>3, <2>1 DEF ModelCallsTools, stored, TypeOK, OthersTyped, fallen
<1>4. ASSUME NEW text \in Texts, AfterGuard(c, text) PROVE OthersTyped'
  <2>1. NewCount(c, text) \in Nat
    BY DEF NewCount, TypeOK
  <2>. QED
    BY <1>4, <2>1, OthersGoing DEF AfterGuard, TypeOK, OthersTyped, fallen
<1>5. Clarification \in Texts
  BY DEF Clarification, Texts, Asks
<1>6. ASSUME NEW text \in Texts, ModelReplies(c, text) PROVE OthersTyped'
  <2>1. [turn[c] EXCEPT !.pc = "repair"] \in Turns
    BY TurnTyped DEF Turns
  <2>. QED
    BY <1>4, <1>6, <2>1 DEF ModelReplies, stored, TypeOK, OthersTyped, fallen
<1>7. ASSUME NEW text \in Texts, RepairReplies(c, text) PROVE OthersTyped'
  BY <1>4, <1>5, <1>7 DEF RepairReplies
<1>8. CASE RepairFails(c)
  BY <1>4, <1>5, <1>8 DEF RepairFails
<1>9. ASSUME NEW prose \in {"written", "template"}, BriefWritten(c, prose) PROVE OthersTyped'
  BY <1>9, TurnTyped, OthersGoing DEF BriefWritten, TypeOK, OthersTyped, fallen
<1>. QED
  BY <1>1, <1>2, <1>3, <1>6, <1>7, <1>8, <1>9 DEF ModelStep

\* All but leads and talk keep their types when a tool runs or is logged.
LEMMA OthersToolStep ==
    ASSUME TypeOK, NEW c \in Convs, Dispatch(c) \/ LogCall(c), turn[c].rest # <<>>
    PROVE  OthersTyped'
<1>. DEFINE call == Head(turn[c].rest)
<1>1. call \in AllCalls /\ Tail(turn[c].rest) \in Seq(AllCalls)
  BY TurnTyped, FirstCall
<1>2. /\ call.tool = "profile" => call.of \in SUBSET Fields
      /\ call.conv \in Convs
      /\ call.tool \in {"details", "detailsFailed"} => call.of \in SUBSET Sections
  BY <1>1 DEF AllCalls
<1>. HIDE DEF call
<1>3. CASE Dispatch(c)
  <2>1. [turn[c] EXCEPT !.pc = "logging"] \in Turns
    BY TurnTyped DEF Turns, Working
  <2>2. Known(call) \in [Convs -> SUBSET Fields]
    BY <1>2 DEF Known, TypeOK
  <2>3. Visits(c, call) \in [Convs -> Nat]
    <3>1. Len(talk[c]) \in Nat
      BY LenProperties DEF TypeOK
    <3>. QED
      BY <3>1 DEF Visits, TypeOK
  <2>. QED
    BY <1>3, <2>1, <2>2, <2>3 DEF Dispatch, TypeOK, OthersTyped, fallen, call
<1>4. CASE LogCall(c)
  <2>1. turn' \in [Convs -> Turns]
    <3>. DEFINE logged ==
           [turn[c] EXCEPT !.pc = "dispatch", !.rest = Tail(@),
                           !.progressed = @ \/ call.tool \notin Failed,
                           !.booked = @ \/ call.tool = "book",
                           !.escalated = @ \/ call.tool = "escalate"]
    <3>1. logged \in Turns
      BY <1>1, TurnTyped DEF Turns, Working
    <3>2. turn' = [turn EXCEPT ![c] = logged]
      BY <1>4 DEF LogCall, TypeOK, call
    <3>. QED
      BY <3>1, <3>2 DEF TypeOK
  <2>2. asked' \in [Convs -> SUBSET Sections]
    BY <1>2, <1>4 DEF LogCall, Asked, TypeOK, call
  <2>3. unreadable' \in [Convs -> BOOLEAN]
    BY <1>4 DEF LogCall, Unreadable, TypeOK
  <2>. QED
    BY <1>4, <2>1, <2>2, <2>3 DEF LogCall, TypeOK, OthersTyped, fallen
<1>. QED
  BY <1>3, <1>4

\* All but leads and talk keep their types in the last steps of a turn.
LEMMA OthersLastStep ==
    ASSUME TypeOK, NEW c \in Convs, Triggered(c) \/ EndBatch(c) \/ Evaluate(c) \/ HandOff(c)
    PROVE  OthersTyped'
<1>. NoText \in Texts /\ turn[c].text \in Texts
  BY NoTurnTyped, TurnTyped
<1>1. CASE Triggered(c)
  BY <1>1, OthersFinishing DEF Triggered, Escalate, TypeOK, OthersTyped, fallen
<1>2. CASE EndBatch(c)
  <2>1. ASSUME ~CapReached(c)
        PROVE  [turn[c] EXCEPT !.pc = "model", !.step = NextStep(c)] \in Turns
    <3>1. NextStep(c) \in 0 .. StepCap
      BY <2>1, TurnTyped, TurnLimitsAssumption DEF NextStep, CapReached
    <3>. QED
      BY <3>1, TurnTyped DEF Turns
  <2>2. /\ turn' \in [Convs -> Turns]
        /\ outcome' \in [Convs -> {"none", "active", "silent", "escalated", "error"}]
    <3>1. CASE FinishEscalated(c, NoText, leads)
      BY <3>1, OthersFinishing
    <3>2. CASE Escalate(c, "step_cap_breached", NoText)
      BY <3>2, OthersFinishing DEF Escalate
    <3>3. CASE ~CapReached(c) /\ UNCHANGED outcome
               /\ turn' = [turn EXCEPT ![c].pc = "model", ![c].step = NextStep(c)]
      BY <2>1, <3>3 DEF TypeOK
    <3>. QED
      BY <1>2, <3>1, <3>2, <3>3 DEF EndBatch
  <2>3. UNCHANGED <<count, known, asked, unreadable, visits, lost, crashes>>
    BY <1>2 DEF EndBatch, fallen
  <2>. QED
    BY <2>2, <2>3 DEF TypeOK, OthersTyped
<1>3. CASE Evaluate(c)
  BY <1>3, OthersFinishing, OthersEnding, OthersRaising
  DEF Evaluate, Escalate, TypeOK, OthersTyped, fallen
<1>4. CASE HandOff(c)
  BY <1>4, OthersEnding DEF HandOff, TypeOK, OthersTyped, fallen
<1>. QED
  BY <1>1, <1>2, <1>3, <1>4

\* A call between its two commits is still there to be logged.
Logging == \A c \in Convs : turn[c].pc = "logging" => turn[c].rest # <<>>

\* All but leads and talk keep their types in every step.
LEMMA OthersStep == TypeOK /\ Logging /\ [Next]_vars => OthersTyped'
<1>. SUFFICES ASSUME TypeOK, Logging, [Next]_vars PROVE OthersTyped'
  OBVIOUS
<1>1. CASE Crash
  <2>1. \A c \in Convs : Len(talk[c]) \in Nat
    BY LenProperties DEF TypeOK
  <2>2. lost' \subseteq Convs \X Nat
    BY <1>1, <2>1 DEF Crash, TypeOK
  <2>. QED
    BY <1>1, <2>2, NoTurnTyped, TurnLimitsAssumption DEF Crash, stored, TypeOK, OthersTyped
<1>2. CASE UNCHANGED vars
  BY <1>2 DEF vars, stored, fallen, TypeOK, OthersTyped
<1>3. ASSUME NEW c \in Convs, Dispatch(c) \/ LogCall(c) PROVE OthersTyped'
  <2>1. turn[c].rest # <<>>
    BY <1>3 DEF Dispatch, LogCall, At, Logging
  <2>. QED
    BY <1>3, <2>1, OthersToolStep
<1>. QED
  BY <1>1, <1>2, <1>3, OthersStart, OthersModelStep, OthersLastStep DEF Next, Step, Done

\* Leads and statuses keep their types.
LEMMA LeadsTyped ==
    ASSUME TypeOK, LeadStep
    PROVE  leads' \in Seq(LeadRows) /\ status' \in [Convs -> {"active", "escalated"}]
<1>. leads \in Seq(LeadRows) /\ status \in [Convs -> {"active", "escalated"}]
  BY DEF TypeOK, LeadRows
<1>1. ASSUME NEW d \in Convs, NEW reason \in Reasons,
             leads' = Escalated(d, reason), status' = EscalatedStatus(d)
      PROVE  leads' \in Seq(LeadRows) /\ status' \in [Convs -> {"active", "escalated"}]
  <2>1. Lead(d, reason) \in LeadRows
    BY DEF Lead, LeadRows
  <2>2. Append(leads, Lead(d, reason)) \in Seq(LeadRows)
    BY <2>1, AppendProperties
  <2>. QED
    BY <1>1, <2>2 DEF Escalated, EscalatedStatus
<1>2. ASSUME NEW d \in Convs, NEW prose \in {"written", "template"}, leads' = Briefs(d, prose)
      PROVE  leads' \in Seq(LeadRows)
  <2>1. Len(leads) \in Nat /\ DOMAIN leads = 1 .. Len(leads)
    BY LenProperties
  <2>2. \A i \in 1 .. Len(leads) : leads'[i] \in LeadRows
    <3>1. \A i \in 1 .. Len(leads) : leads[i] \in LeadRows
      BY ElementOfSeq
    <3>. QED
      BY <1>2, <2>1, <3>1 DEF Briefs, LeadRows
  <2>3. leads' \in [1 .. Len(leads) -> LeadRows]
    BY <1>2, <2>1, <2>2 DEF Briefs
  <2>. QED
    BY <2>1, <2>3, SeqDef
<1>. QED
  BY <1>1, <1>2 DEF LeadStep

\* What was said keeps its type.
LEMMA TalkTyped ==
    ASSUME TypeOK, TalkStep
    PROVE  talk' \in [Convs -> Seq(Rows)]
<1>1. \A c \in Convs, row \in Rows : Append(talk[c], row) \in Seq(Rows)
  BY AppendProperties DEF TypeOK
<1>2. CASE UNCHANGED talk
  BY <1>2 DEF TypeOK
<1>3. ASSUME NEW c \in Convs, NEW row \in Rows, talk' = [talk EXCEPT ![c] = Append(@, row)]
      PROVE  talk' \in [Convs -> Seq(Rows)]
  <2>1. talk' = [talk EXCEPT ![c] = Append(talk[c], row)]
    BY <1>3
  <2>. QED
    BY <1>1, <2>1 DEF TypeOK
<1>. QED
  BY <1>2, <1>3 DEF TalkStep

\* Every variable keeps its type in every step.
LEMMA TypeStep == TypeOK /\ Logging /\ Checked /\ [Next]_vars => TypeOK'
BY OthersStep, LeadSteps, LeadsTyped, TalkSteps, TalkTyped DEF OthersTyped, TypeOK, LeadRows

-------------------------------------------------------------------------------
(* One lead for each conversation that is escalated.                       *)

\* What escalating and briefing do to the rows: none is lost, at most one is added
\* at the end, and a brief that was written stays.
LEMMA LeadRowsStep ==
    ASSUME TypeOK, LeadStep
    PROVE  /\ DOMAIN leads = 1 .. Len(leads) /\ Len(leads) \in Nat
           /\ \A i \in DOMAIN leads : /\ i \in DOMAIN leads'
                                      /\ leads'[i].conv = leads[i].conv
                                      /\ leads[i].brief # "empty" => leads'[i].brief # "empty"
           /\ \/ DOMAIN leads' = DOMAIN leads /\ UNCHANGED status
              \/ \E d \in Convs :
                    /\ ~HasLead(d)
                    /\ DOMAIN leads' = 1 .. Len(leads) + 1
                    /\ leads'[Len(leads) + 1].conv = d
                    /\ status' = [status EXCEPT ![d] = "escalated"]
<1>. leads \in Seq(LeadRows)
  BY DEF TypeOK, LeadRows
<1>1. DOMAIN leads = 1 .. Len(leads) /\ Len(leads) \in Nat
  BY LenProperties
<1>2. \A i \in DOMAIN leads : leads[i] \in LeadRows
  BY <1>1, ElementOfSeq
<1>3. ASSUME NEW d \in Convs, NEW reason \in Reasons, ~HasLead(d),
             leads' = Append(leads, Lead(d, reason)),
             status' = [status EXCEPT ![d] = "escalated"]
      PROVE  /\ \A i \in DOMAIN leads : leads'[i] = leads[i]
             /\ DOMAIN leads' = 1 .. Len(leads) + 1
             /\ leads'[Len(leads) + 1].conv = d
  <2>1. Lead(d, reason) \in LeadRows
    BY DEF Lead, LeadRows
  <2>2. /\ Len(leads') = Len(leads) + 1
        /\ leads' \in Seq(LeadRows)
        /\ \A i \in 1 .. Len(leads) : leads'[i] = leads[i]
        /\ leads'[Len(leads) + 1] = Lead(d, reason)
    BY <1>3, <2>1, AppendProperties
  <2>3. DOMAIN leads' = 1 .. Len(leads) + 1
    BY <2>2, LenProperties
  <2>. QED
    BY <1>1, <2>2, <2>3 DEF Lead
<1>4. ASSUME NEW d \in Convs, NEW prose \in {"written", "template"}, leads' = Briefs(d, prose)
      PROVE  /\ DOMAIN leads' = DOMAIN leads
             /\ \A i \in DOMAIN leads : /\ leads'[i].conv = leads[i].conv
                                        /\ leads[i].brief # "empty" => leads'[i].brief # "empty"
  BY <1>2, <1>4 DEF Briefs, LeadRows
<1>. QED
  BY <1>1, <1>3, <1>4 DEF LeadStep, Escalated, EscalatedStatus

\* No step adds a second lead, or a lead without its status.
LEMMA OneLeadStep == TypeOK /\ OneLead /\ LeadStep => OneLead'
<1>. SUFFICES ASSUME TypeOK, OneLead, LeadStep PROVE OneLead'
  OBVIOUS
<1>1. CASE DOMAIN leads' = DOMAIN leads /\ UNCHANGED status
  BY <1>1, LeadRowsStep DEF OneLead, HasLead
<1>2. ASSUME NEW d \in Convs, ~HasLead(d), DOMAIN leads' = 1 .. Len(leads) + 1,
             leads'[Len(leads) + 1].conv = d, status' = [status EXCEPT ![d] = "escalated"]
      PROVE  OneLead'
  <2>. Len(leads) \in Nat /\ DOMAIN leads = 1 .. Len(leads)
    BY LeadRowsStep
  <2>1. \A i \in DOMAIN leads' : i \in DOMAIN leads \/ i = Len(leads) + 1
    BY <1>2
  <2>2. \A i \in DOMAIN leads : leads'[i].conv # d
    BY <1>2, LeadRowsStep DEF HasLead
  <2>3. \A i, j \in DOMAIN leads' : leads'[i].conv = leads'[j].conv => i = j
    BY <1>2, <2>1, <2>2, LeadRowsStep DEF OneLead
  <2>4. \A c \in Convs : HasLead(c)' <=> HasLead(c) \/ c = d
    <3>1. Len(leads) + 1 \in DOMAIN leads'
      BY <1>2
    <3>. QED
      BY <1>2, <2>1, <3>1, LeadRowsStep DEF HasLead
  <2>5. \A c \in Convs : status'[c] = "escalated" <=> status[c] = "escalated" \/ c = d
    BY <1>2 DEF TypeOK
  <2>. QED
    BY <2>3, <2>4, <2>5 DEF OneLead
<1>. QED
  BY <1>1, <1>2, LeadRowsStep

\* Leads and briefs stay.
LEMMA LeadsStay ==
    ASSUME TypeOK, LeadStep, NEW c \in Convs
    PROVE  (HasLead(c) => HasLead(c)') /\ (Briefed(c) => Briefed(c)')
BY LeadRowsStep DEF HasLead, Briefed

-------------------------------------------------------------------------------
(* What the buyer reads has passed the guard.                              *)

\* No step stores an ungrounded text.
LEMMA GroundedStep == TypeOK /\ GroundedOnly /\ TalkStep => GroundedOnly'
<1>. SUFFICES ASSUME TypeOK, GroundedOnly,
                     NEW c \in Convs, NEW row \in Rows, row.grounded,
                     talk' = [talk EXCEPT ![c] = Append(@, row)]
              PROVE  GroundedOnly'
  BY DEF TalkStep, GroundedOnly
<1>1. talk[c] \in Seq(Rows)
  BY DEF TypeOK
<1>2. talk'[c] = Append(talk[c], row) /\ \A d \in Convs \ {c} : talk'[d] = talk[d]
  BY DEF TypeOK
<1>3. \A i \in DOMAIN talk'[c] : talk'[c][i].grounded
  BY <1>1, <1>2, AppendProperties, LenProperties DEF GroundedOnly
<1>. QED
  BY <1>2, <1>3 DEF GroundedOnly

\* A step changes at most the turn of one conversation, unless the process dies,
\* and keeps no text that has not passed the guard.
Kept(t) == t.text.grounded /\ (t.pc = "logging" => t.rest # <<>>)

\* Every step keeps texts that passed the guard, and a call between its two commits.
LEMMA KeptStep == TypeOK /\ Checked /\ Logging /\ [Next]_vars => Checked' /\ Logging'
<1>. SUFFICES ASSUME TypeOK, Checked, Logging, [Next]_vars PROVE Checked' /\ Logging'
  OBVIOUS
<1>. DEFINE Fine == Checked' /\ Logging'
<1>1. \A c \in Convs : Kept(turn[c])
  BY DEF Kept, Checked, Logging
<1>2. Kept(NoTurn) /\ NoText.grounded /\ Clarification.grounded
  BY DEF Kept, NoTurn, NoText, Clarification
<1>3. ASSUME \A c \in Convs : Kept(turn'[c]) PROVE Fine
  BY <1>3 DEF Kept, Checked, Logging
<1>4. ASSUME NEW c \in Convs, NEW t, Kept(t), turn' = [turn EXCEPT ![c] = t] PROVE Fine
  BY <1>1, <1>3, <1>4 DEF TypeOK
<1>5. ASSUME UNCHANGED turn PROVE Fine
  BY <1>1, <1>3, <1>5
<1>. HIDE DEF Fine
<1>6. ASSUME Crash PROVE Fine
  <2>1. \A c \in Convs : Kept(turn'[c])
    BY <1>2, <1>6 DEF Crash
  <2>. QED
    BY <1>3, <2>1
<1>7. ASSUME NEW c \in Convs, NEW row, NEW out, Ends(c, row, out) PROVE Fine
  BY <1>2, <1>4, <1>7 DEF Ends
<1>8. ASSUME NEW c \in Convs, Raises(c) PROVE Fine
  BY <1>2, <1>4, <1>8 DEF Raises
<1>9. ASSUME NEW c \in Convs, NEW pc, pc # "logging", NEW text, text.grounded,
             GoesTo(c, pc, text)
      PROVE  Fine
  <2>1. Kept([turn[c] EXCEPT !.pc = pc, !.text = text])
    BY <1>9, TurnTyped DEF Kept, Turns
  <2>2. turn' = [turn EXCEPT ![c] = [turn[c] EXCEPT !.pc = pc, !.text = text]]
    BY <1>9 DEF GoesTo, TypeOK
  <2>. QED
    BY <1>4, <2>1, <2>2
<1>10. ASSUME NEW c \in Convs, NEW text, text.grounded, NEW rows, FinishEscalated(c, text, rows)
       PROVE  Fine
  BY <1>7, <1>9, <1>10 DEF FinishEscalated
<1>11. ASSUME NEW c \in Convs, Start(c) PROVE Fine
  <2>1. ASSUME NEW pc, pc # "logging", Stored(c, pc) PROVE Fine
    <3>1. Kept([NoTurn EXCEPT !.pc = pc, !.step = 1])
      BY <1>2, <2>1 DEF Kept, NoTurn
    <3>. QED
      BY <1>4, <2>1, <3>1 DEF Stored
  <2>. QED
    BY <1>7, <1>11, <2>1 DEF Start, StartSilent, StartTriggered, StartModel
<1>12. ASSUME NEW c \in Convs, ModelStep(c) PROVE Fine
  <2>1. CASE ModelDown(c) \/ ModelMalformed(c)
    BY <1>7, <1>8, <2>1 DEF ModelDown, ModelMalformed
  <2>2. ASSUME NEW batch \in Batches(c), ModelCallsTools(c, batch) PROVE Fine
    <3>. DEFINE t == [turn[c] EXCEPT !.pc = "dispatch", !.rest = batch, !.escalated = FALSE]
    <3>1. Kept(t)
      BY <1>1, TurnTyped DEF Kept, Turns
    <3>2. turn' = [turn EXCEPT ![c] = t]
      BY <2>2 DEF ModelCallsTools, TypeOK
    <3>. QED
      BY <1>4, <3>1, <3>2
  <2>3. ASSUME NEW text, text.grounded, AfterGuard(c, text) PROVE Fine
    BY <1>9, <2>3 DEF AfterGuard
  <2>4. ASSUME NEW text \in Texts, ModelReplies(c, text) PROVE Fine
    <3>. DEFINE t == [turn[c] EXCEPT !.pc = "repair"]
    <3>1. Kept(t)
      BY <1>1, TurnTyped DEF Kept, Turns
    <3>. QED
      BY <1>4, <2>3, <2>4, <3>1 DEF ModelReplies
  <2>5. ASSUME NEW text \in Texts, RepairReplies(c, text) PROVE Fine
    BY <1>2, <2>3, <2>5 DEF RepairReplies
  <2>6. CASE RepairFails(c)
    BY <1>2, <2>3, <2>6 DEF RepairFails
  <2>7. ASSUME NEW prose \in {"written", "template"}, BriefWritten(c, prose) PROVE Fine
    BY <1>9, <2>7 DEF BriefWritten, Checked
  <2>. QED
    BY <1>12, <2>1, <2>2, <2>4, <2>5, <2>6, <2>7 DEF ModelStep
<1>13. ASSUME NEW c \in Convs, Dispatch(c) PROVE Fine
  <2>1. Kept([turn[c] EXCEPT !.pc = "logging"])
    BY <1>1, <1>13, TurnTyped DEF Dispatch, Kept, Turns
  <2>. QED
    BY <1>4, <1>13, <2>1 DEF Dispatch
<1>14. ASSUME NEW c \in Convs, LogCall(c) PROVE Fine
  <2>1. /\ turn'[c].text = turn[c].text /\ turn'[c].pc = "dispatch"
        /\ \A d \in Convs \ {c} : turn'[d] = turn[d]
    BY <1>14, TurnTyped DEF LogCall, TypeOK, Turns
  <2>. QED
    BY <1>1, <1>3, <2>1 DEF Kept
<1>15. ASSUME NEW c \in Convs, EndBatch(c) PROVE Fine
  <2>1. ASSUME turn' = [turn EXCEPT ![c].pc = "model", ![c].step = NextStep(c)] PROVE Fine
    <3>. DEFINE t == [turn[c] EXCEPT !.pc = "model", !.step = NextStep(c)]
    <3>1. Kept(t)
      BY <1>1, TurnTyped DEF Kept, Turns
    <3>2. turn' = [turn EXCEPT ![c] = t]
      BY <2>1 DEF TypeOK
    <3>. QED
      BY <1>4, <3>1, <3>2
  <2>. QED
    BY <1>2, <1>10, <1>15, <2>1 DEF EndBatch, Escalate
<1>16. ASSUME NEW c \in Convs, Triggered(c) \/ Evaluate(c) \/ HandOff(c) PROVE Fine
  BY <1>2, <1>7, <1>8, <1>10, <1>16 DEF Triggered, Evaluate, HandOff, Escalate, Checked
<1>17. Fine
  BY <1>5, <1>6, <1>11, <1>12, <1>13, <1>14, <1>15, <1>16 DEF Next, Step, Done, vars
<1>. QED
  BY <1>17 DEF Fine

-------------------------------------------------------------------------------
(* When every call names its own conversation, each handoff has its lead   *)
(* and its brief, and the agent is silent behind it.                       *)

Orderly == \A c \in Convs : Addressed(c)

\* A step of one conversation leaves the turns and the talk of the others alone.
LEMMA OnlyOwn ==
    ASSUME TypeOK, NEW c \in Convs, Start(c) \/ Step(c), NEW d \in Convs \ {c}
    PROVE  turn'[d] = turn[d] /\ talk'[d] = talk[d]
<1>1. CASE Start(c)
  BY <1>1 DEF Start, StartSilent, StartTriggered, StartModel, Stored, Ends, TypeOK
<1>2. ASSUME NEW text, NEW rows, FinishEscalated(c, text, rows)
      PROVE  turn'[d] = turn[d] /\ talk'[d] = talk[d]
  BY <1>2 DEF FinishEscalated, GoesTo, Ends, TypeOK
<1>3. CASE ModelStep(c)
  BY <1>3 DEF ModelStep, ModelDown, ModelMalformed, ModelCallsTools, ModelReplies,
              RepairReplies, RepairFails, BriefWritten, AfterGuard, GoesTo, Ends, Raises,
              stored, TypeOK
<1>4. CASE Triggered(c) \/ EndBatch(c) \/ Evaluate(c)
  BY <1>2, <1>4 DEF Triggered, EndBatch, Evaluate, Escalate, Ends, Raises, TypeOK
<1>5. CASE Dispatch(c) \/ LogCall(c) \/ HandOff(c)
  BY <1>5 DEF Dispatch, LogCall, HandOff, Ends, TypeOK
<1>. QED
  BY <1>1, <1>3, <1>4, <1>5 DEF Step

\* Only a turn under way takes a step.
LEMMA Busy ==
    ASSUME NEW c \in Convs, Step(c)
    PROVE  turn[c].pc # "idle"
BY DEF Step, ModelStep, ModelDown, ModelMalformed, ModelCallsTools, ModelReplies,
       RepairReplies, RepairFails, BriefWritten, Triggered, Dispatch, LogCall, EndBatch,
       Evaluate, HandOff, At

\* Whoever has had the handoff line has a lead, and is escalated.
LEMMA HandedOffIsOwned ==
    ASSUME OneLead, NEW c \in Convs, Addressed(c), HandedOff(c)
    PROVE  HasLead(c) /\ status[c] = "escalated" /\ turn[c].pc = "idle"
BY DEF Addressed, Briefed, HasLead, OneLead

\* A step that leaves a conversation's turn and talk alone leaves its own lead in
\* order.
LEMMA OtherAddressed ==
    ASSUME TypeOK, LeadStep, NEW d \in Convs, Addressed(d),
           turn'[d] = turn[d], talk'[d] = talk[d]
    PROVE  Addressed(d)'
BY LeadsStay DEF Addressed, HandedOff

\* A conversation is handed off by its handoff line and by nothing else.
LEMMA TalkGrows ==
    ASSUME TypeOK, NEW c \in Convs, NEW row \in Rows,
           talk' = [talk EXCEPT ![c] = Append(@, row)]
    PROVE  HandedOff(c)' <=> HandedOff(c) \/ row.kind = "handoff"
<1>1. talk[c] \in Seq(Rows) /\ talk'[c] = Append(talk[c], row)
  BY DEF TypeOK
<1>2. /\ DOMAIN talk[c] = 1 .. Len(talk[c]) /\ Len(talk[c]) \in Nat
      /\ DOMAIN talk'[c] = 1 .. Len(talk[c]) + 1
      /\ \A i \in 1 .. Len(talk[c]) : talk'[c][i] = talk[c][i]
      /\ talk'[c][Len(talk[c]) + 1] = row
  BY <1>1, AppendProperties, LenProperties
<1>3. \A i \in DOMAIN talk'[c] : i \in DOMAIN talk[c] \/ i = Len(talk[c]) + 1
  BY <1>2
<1>4. Len(talk[c]) + 1 \in DOMAIN talk'[c]
  BY <1>2
<1>. QED
  BY <1>2, <1>3, <1>4 DEF HandedOff

\* A turn that ends with a line that has its brief.
LEMMA AddressedEnds ==
    ASSUME TypeOK, LeadStep, NEW c \in Convs, Addressed(c), NEW row \in Rows, NEW out,
           Ends(c, row, out), row.kind = "handoff" => Briefed(c)'
    PROVE  Addressed(c)'
<1>1. turn'[c] = NoTurn
  BY DEF Ends, TypeOK
<1>2. HandedOff(c)' <=> HandedOff(c) \/ row.kind = "handoff"
  BY TalkGrows DEF Ends
<1>. QED
  BY <1>1, <1>2, LeadsStay DEF Addressed, NoTurn

\* A turn that raises leaves its lead in order.
LEMMA AddressedRaises ==
    ASSUME TypeOK, LeadStep, NEW c \in Convs, Addressed(c), Raises(c)
    PROVE  Addressed(c)'
BY LeadsStay DEF Raises, TypeOK, Addressed, NoTurn, HandedOff

\* A turn that goes on to its brief or its handoff has the lead, or the brief, that
\* takes.
LEMMA AddressedGoes ==
    ASSUME TypeOK, LeadStep, NEW c \in Convs, Addressed(c), turn[c].pc # "idle",
           NEW pc \in {"brief", "evaluate", "handoff"}, NEW text,
           GoesTo(c, pc, text), UNCHANGED talk,
           pc = "brief" => HasLead(c)', pc = "handoff" => Briefed(c)'
    PROVE  Addressed(c)'
<1>1. turn'[c] = [turn[c] EXCEPT !.pc = pc, !.text = text]
  BY DEF GoesTo, TypeOK
<1>2. /\ turn'[c].pc = pc /\ turn'[c].rest = turn[c].rest
      /\ turn'[c].escalated = turn[c].escalated
  BY <1>1, TurnTyped DEF Turns
<1>. QED
  BY <1>2, LeadsStay DEF Addressed, HandedOff

\* A turn that finishes escalated leaves its lead in order.
LEMMA AddressedFinishes ==
    ASSUME TypeOK, LeadStep, NEW c \in Convs, Addressed(c), turn[c].pc # "idle",
           NEW text \in Texts, FinishEscalated(c, text, leads'), HasLead(c)'
    PROVE  Addressed(c)'
<1>1. CASE \E i \in DOMAIN leads' : leads'[i].conv = c /\ leads'[i].brief = "empty"
  BY <1>1, AddressedGoes DEF FinishEscalated
<1>2. CASE ~\E i \in DOMAIN leads' : leads'[i].conv = c /\ leads'[i].brief = "empty"
  <2>1. Briefed(c)'
    BY <1>2 DEF HasLead, Briefed
  <2>. QED
    BY <1>2, <2>1, RowsTyped, AddressedEnds DEF FinishEscalated
<1>. QED
  BY <1>1, <1>2

\* A turn that starts has its lead in order.
LEMMA AddressedStart ==
    ASSUME TypeOK, OneLead, LeadStep, NEW c \in Convs, Addressed(c), Start(c)
    PROVE  Addressed(c)'
<1>1. CASE StartSilent(c)
  BY <1>1, RowsTyped, AddressedEnds DEF StartSilent, Buyers
<1>2. ASSUME NEW pc \in {"trigger", "model"}, Stored(c, pc), status[c] = "active"
      PROVE  Addressed(c)'
  <2>1. ~HandedOff(c)'
    BY <1>2, HandedOffIsOwned, TalkGrows, RowsTyped DEF Stored, Buyers
  <2>2. turn'[c] = [NoTurn EXCEPT !.pc = pc, !.step = 1]
    BY <1>2 DEF Stored, TypeOK
  <2>. QED
    BY <2>1, <2>2 DEF Addressed, NoTurn
<1>. QED
  BY <1>1, <1>2 DEF Start, StartTriggered, StartModel

\* The model's answer leaves the lead in order.
LEMMA AddressedModelStep ==
    ASSUME TypeOK, LeadStep, "misaddressed" \notin Faults,
           NEW c \in Convs, Addressed(c), ModelStep(c)
    PROVE  Addressed(c)'
<1>. turn[c].pc # "idle"
  BY Busy DEF Step
<1>1. CASE ModelDown(c)
  BY <1>1, RowsTyped, AddressedEnds DEF ModelDown, Hold
<1>2. CASE ModelMalformed(c)
  BY <1>2, AddressedRaises DEF ModelMalformed
<1>3. ASSUME NEW batch \in Batches(c), ModelCallsTools(c, batch) PROVE Addressed(c)'
  <2>1. turn'[c] = [turn[c] EXCEPT !.pc = "dispatch", !.rest = batch, !.escalated = FALSE]
    BY <1>3 DEF ModelCallsTools, TypeOK
  <2>2. turn'[c].pc = "dispatch" /\ turn'[c].rest = batch /\ ~turn'[c].escalated
    BY <2>1, TurnTyped DEF Turns
  <2>3. ~HandedOff(c)'
    BY <1>3 DEF ModelCallsTools, stored, Addressed, HandedOff
  <2>. QED
    BY <2>2, <2>3, BatchTyped DEF Addressed
<1>4. ASSUME NEW text, AfterGuard(c, text) PROVE Addressed(c)'
  BY <1>4, AddressedGoes DEF AfterGuard
<1>5. ASSUME NEW text \in Texts, ModelReplies(c, text) PROVE Addressed(c)'
  <2>1. ASSUME turn' = [turn EXCEPT ![c].pc = "repair"], UNCHANGED <<stored, outcome, fallen>>
        PROVE  Addressed(c)'
    <3>1. /\ turn'[c].pc = "repair" /\ turn'[c].rest = turn[c].rest
          /\ turn'[c].escalated = turn[c].escalated
      BY <2>1, TurnTyped DEF TypeOK, Turns
    <3>. QED
      BY <2>1, <3>1, LeadsStay DEF stored, Addressed, HandedOff
  <2>. QED
    BY <1>4, <1>5, <2>1 DEF ModelReplies
<1>6. ASSUME NEW text \in Texts, RepairReplies(c, text) PROVE Addressed(c)'
  BY <1>4, <1>6 DEF RepairReplies
<1>7. CASE RepairFails(c)
  BY <1>4, <1>7 DEF RepairFails
<1>8. ASSUME NEW prose \in {"written", "template"}, BriefWritten(c, prose)
      PROVE  Addressed(c)'
  <2>1. PICK i \in DOMAIN leads : leads[i].conv = c
    BY <1>8 DEF BriefWritten, At, Addressed, HasLead
  <2>2. i \in DOMAIN leads' /\ leads'[i].conv = c /\ leads'[i].brief = prose
    <3>1. leads \in Seq(LeadRows)
      BY DEF TypeOK, LeadRows
    <3>2. leads[i] \in LeadRows
      BY <2>1, <3>1, LenProperties, ElementOfSeq
    <3>. QED
      BY <1>8, <2>1, <3>2 DEF BriefWritten, LeadRows
  <2>3. Briefed(c)'
    BY <2>2 DEF Briefed
  <2>. QED
    BY <1>8, <2>3, AddressedGoes DEF BriefWritten
<1>. QED
  BY <1>1, <1>2, <1>3, <1>5, <1>6, <1>7, <1>8 DEF ModelStep

\* escalate leaves a lead.
LEMMA EscalatedHasLead ==
    ASSUME TypeOK, NEW c \in Convs, NEW reason \in Reasons, leads' = Escalated(c, reason)
    PROVE  HasLead(c)'
<1>1. CASE HasLead(c)
  BY <1>1 DEF Escalated, HasLead
<1>2. CASE ~HasLead(c)
  <2>1. leads \in Seq(LeadRows) /\ Lead(c, reason) \in LeadRows
    BY DEF TypeOK, LeadRows, Lead
  <2>2. Len(leads) + 1 \in DOMAIN leads' /\ leads'[Len(leads) + 1].conv = c
    BY <1>2, <2>1, AppendProperties, LenProperties DEF Escalated, Lead
  <2>. QED
    BY <2>2 DEF HasLead
<1>. QED
  BY <1>1, <1>2

\* A tool call leaves the lead in order when no call is misaddressed.
LEMMA AddressedToolStep ==
    ASSUME TypeOK, LeadStep, Logging, NEW c \in Convs, Addressed(c),
           Dispatch(c) \/ LogCall(c)
    PROVE  Addressed(c)'
<1>. turn[c].rest # <<>> /\ turn[c].pc # "idle"
  BY DEF Dispatch, LogCall, At, Logging
<1>. DEFINE call == Head(turn[c].rest)
<1>1. ~HandedOff(c)'
  BY DEF Dispatch, LogCall, Addressed, HandedOff
<1>2. CASE Dispatch(c)
  <2>1. /\ turn'[c].pc = "logging" /\ turn'[c].rest = turn[c].rest
        /\ turn'[c].escalated = turn[c].escalated
    BY <1>2, TurnTyped DEF Dispatch, TypeOK, Turns
  <2>2. call.conv = c
    BY TurnTyped, FirstCall DEF Addressed
  <2>3. ASSUME call.tool = "escalate" PROVE HasLead(c)'
    BY <1>2, <2>2, <2>3, EscalatedHasLead DEF Dispatch, Reasons
  <2>. QED
    BY <1>1, <2>1, <2>3, LeadsStay DEF Addressed
<1>3. CASE LogCall(c)
  <2>1. /\ turn'[c].pc = "dispatch" /\ turn'[c].rest = Tail(turn[c].rest)
        /\ turn'[c].escalated => turn[c].escalated \/ call.tool = "escalate"
    BY <1>3, TurnTyped DEF LogCall, TypeOK, Turns
  <2>2. \A i \in DOMAIN turn'[c].rest : turn'[c].rest[i].conv = c
    BY <2>1, TurnTyped, FirstCall DEF Addressed
  <2>3. turn'[c].escalated => HasLead(c)
    BY <1>3, <2>1 DEF LogCall, At, Addressed
  <2>. QED
    BY <1>1, <2>1, <2>2, <2>3, LeadsStay DEF Addressed
<1>. QED
  BY <1>2, <1>3

\* The last steps of a turn leave the lead in order.
LEMMA AddressedLastStep ==
    ASSUME TypeOK, LeadStep, NEW c \in Convs, Addressed(c),
           Triggered(c) \/ EndBatch(c) \/ Evaluate(c) \/ HandOff(c)
    PROVE  Addressed(c)'
<1>. turn[c].pc # "idle"
  BY Busy DEF Step
<1>. NoText \in Texts /\ turn[c].text \in Texts
  BY NoTurnTyped, TurnTyped
<1>1. ASSUME NEW reason \in Reasons, NEW text \in Texts, Escalate(c, reason, text)
      PROVE  Addressed(c)'
  BY <1>1, EscalatedHasLead, AddressedFinishes DEF Escalate
<1>2. CASE Triggered(c)
  BY <1>1, <1>2 DEF Triggered, Reasons
<1>3. CASE EndBatch(c)
  <2>1. CASE turn[c].escalated /\ FinishEscalated(c, NoText, leads) /\ leads' = leads
    <3>1. HasLead(c)'
      BY <2>1, LeadsStay DEF Addressed
    <3>. QED
      BY <2>1, <3>1, AddressedFinishes
  <2>2. CASE Escalate(c, "step_cap_breached", NoText)
    BY <1>1, <2>2 DEF Reasons
  <2>3. CASE /\ turn' = [turn EXCEPT ![c].pc = "model", ![c].step = NextStep(c)]
             /\ UNCHANGED talk
    <3>1. /\ turn'[c].pc = "model" /\ turn'[c].rest = turn[c].rest
          /\ turn'[c].escalated = turn[c].escalated
      BY <2>3, TurnTyped DEF TypeOK, Turns
    <3>. QED
      BY <2>3, <3>1, LeadsStay DEF Addressed, HandedOff
  <2>. QED
    BY <1>3, <2>1, <2>2, <2>3 DEF EndBatch
<1>4. CASE Evaluate(c)
  <2>1. CASE Raises(c)
    BY <2>1, AddressedRaises
  <2>2. CASE Ends(c, Reply(turn[c].text), "active")
    BY <2>2, RowsTyped, AddressedEnds DEF Reply
  <2>3. CASE Verdict(c) # "none" /\ Escalate(c, Verdict(c), turn[c].text)
    BY <1>1, <2>3, VerdictIsReason
  <2>. QED
    BY <1>4, <2>1, <2>2, <2>3 DEF Evaluate
<1>5. CASE HandOff(c)
  <2>1. Briefed(c)'
    BY <1>5, LeadsStay DEF HandOff, At, Addressed
  <2>. QED
    BY <1>5, <2>1, RowsTyped, AddressedEnds DEF HandOff
<1>. QED
  BY <1>2, <1>3, <1>4, <1>5

\* Every conversation's lead stays in order when no call is misaddressed.
LEMMA AddressedStep ==
    TypeOK /\ OneLead /\ Checked /\ Logging /\ Orderly /\ "misaddressed" \notin Faults
        /\ [Next]_vars => Orderly'
<1>. SUFFICES ASSUME TypeOK, OneLead, Checked, Logging, Orderly,
                     "misaddressed" \notin Faults, [Next]_vars
              PROVE  Orderly'
  OBVIOUS
<1>1. LeadStep
  BY LeadSteps
<1>2. ASSUME UNCHANGED vars PROVE Orderly'
  BY <1>2, <1>1, OtherAddressed DEF vars, stored, Orderly
<1>3. ASSUME Crash PROVE Orderly'
  <2>. SUFFICES ASSUME NEW c \in Convs PROVE Addressed(c)'
    BY DEF Orderly
  <2>1. turn'[c] = NoTurn /\ UNCHANGED <<talk, leads>> /\ Addressed(c)
    BY <1>3 DEF Crash, stored, Orderly
  <2>. QED
    BY <2>1 DEF Addressed, NoTurn, HandedOff, Briefed
<1>4. ASSUME NEW c \in Convs, Start(c) \/ Step(c) PROVE Orderly'
  <2>1. Addressed(c)'
    BY <1>1, <1>4, AddressedStart, AddressedModelStep, AddressedToolStep, AddressedLastStep
    DEF Step, Orderly
  <2>2. ASSUME NEW d \in Convs \ {c} PROVE Addressed(d)'
    BY <1>1, <1>4, <2>2, OnlyOwn, OtherAddressed DEF Orderly
  <2>. QED
    BY <2>1, <2>2 DEF Orderly
<1>. QED
  BY <1>2, <1>3, <1>4 DEF Next, Done

\* No step sends anything behind a handoff line.
LEMMA SilentStep ==
    TypeOK /\ OneLead /\ Checked /\ Orderly /\ SilentAfterHandoff /\ [Next]_vars
        => SilentAfterHandoff'
<1>. SUFFICES ASSUME TypeOK, OneLead, Checked, Orderly, SilentAfterHandoff, [Next]_vars,
                     NEW c \in Convs, talk'[c] # talk[c]
              PROVE  \A i, j \in DOMAIN talk'[c] :
                         i < j /\ talk'[c][i].kind = "handoff" => talk'[c][j].kind = "buyer"
  BY DEF SilentAfterHandoff
<1>1. PICK row \in Rows : talk'[c] = Append(talk[c], row)
  BY TalkSteps DEF TalkStep, TypeOK
<1>. talk[c] \in Seq(Rows)
  BY DEF TypeOK
<1>2. /\ DOMAIN talk[c] = 1 .. Len(talk[c]) /\ Len(talk[c]) \in Nat
      /\ DOMAIN talk'[c] = 1 .. Len(talk[c]) + 1
      /\ \A i \in 1 .. Len(talk[c]) : talk'[c][i] = talk[c][i]
      /\ talk'[c][Len(talk[c]) + 1] = row
  BY <1>1, AppendProperties, LenProperties
<1>3. CASE ~HandedOff(c)
  BY <1>2, <1>3 DEF HandedOff
<1>4. CASE HandedOff(c)
  <2>1. Start(c)
    <3>1. \E d \in Convs : Start(d) \/ Step(d)
      BY DEF Next, Done, Crash, vars, stored
    <3>2. Start(c) \/ Step(c)
      BY <3>1, OnlyOwn
    <3>. QED
      BY <1>4, <3>2, Busy, HandedOffIsOwned DEF Orderly
  <2>2. talk'[c] = Append(talk[c], Buyers)
    BY <1>4, <2>1, HandedOffIsOwned
    DEF Orderly, Start, StartSilent, StartTriggered, StartModel, Stored, Ends, TypeOK
  <2>3. talk'[c][Len(talk[c]) + 1].kind = "buyer"
    BY <2>2, RowsTyped, AppendProperties DEF Buyers
  <2>. QED
    BY <1>2, <2>3 DEF SilentAfterHandoff
<1>. QED
  BY <1>3, <1>4

-------------------------------------------------------------------------------
(* A turn, as its conversation's talk sees it.                             *)

\* A step of a turn writes nothing and goes on or raises, or writes the agent's row
\* and is over.
Speaks(c) ==
    \/ talk'[c] = talk[c] /\ (turn'[c].pc # "idle" \/ outcome'[c] = "error")
    \/ /\ \E row \in Rows : row.kind # "buyer" /\ talk'[c] = Append(talk[c], row)
       /\ turn'[c].pc = "idle"

\* A step says nothing, or one thing that ends the turn.
LEMMA SpeaksOnce ==
    ASSUME TypeOK, NEW c \in Convs, Step(c)
    PROVE  turn[c].pc # "idle" /\ Speaks(c)
<1>. turn[c].pc # "idle"
  BY Busy
<1>. turn[c] \in Turns /\ turn[c].text \in Texts /\ NoText \in Texts /\ Clarification \in Texts
  BY TurnTyped, NoTurnTyped DEF Clarification, Texts, Asks
<1>1. ASSUME NEW row \in Rows, row.kind # "buyer", NEW out, Ends(c, row, out)
      PROVE  Speaks(c)
  BY <1>1 DEF Ends, TypeOK, NoTurn, Speaks
<1>2. CASE Raises(c)
  BY <1>2 DEF Raises, TypeOK, Speaks
<1>3. ASSUME NEW pc, pc # "idle", NEW text, GoesTo(c, pc, text), UNCHANGED talk
      PROVE  Speaks(c)
  <2>1. turn'[c] = [turn[c] EXCEPT !.pc = pc, !.text = text]
    BY <1>3 DEF GoesTo, TypeOK
  <2>2. turn'[c].pc = pc
    BY <2>1 DEF Turns
  <2>. QED
    BY <1>3, <2>2 DEF Speaks
<1>4. ASSUME NEW pc, pc # "idle", UNCHANGED talk, turn' = [turn EXCEPT ![c] = [@ EXCEPT !.pc = pc]]
      PROVE  Speaks(c)
  <2>1. turn'[c] = [turn[c] EXCEPT !.pc = pc]
    BY <1>4 DEF TypeOK
  <2>2. turn'[c].pc = pc
    BY <2>1 DEF Turns
  <2>. QED
    BY <1>4, <2>2 DEF Speaks
<1>5. ASSUME NEW text \in Texts, NEW rows, FinishEscalated(c, text, rows)
      PROVE  Speaks(c)
  BY <1>1, <1>3, <1>5, RowsTyped DEF FinishEscalated, Handoff
<1>6. CASE ModelStep(c)
  <2>1. CASE ModelDown(c)
    BY <1>1, <2>1, RowsTyped DEF ModelDown, Hold
  <2>2. CASE ModelMalformed(c)
    BY <1>2, <2>2 DEF ModelMalformed
  <2>3. ASSUME NEW batch \in Batches(c), ModelCallsTools(c, batch) PROVE Speaks(c)
    <3>1. turn'[c] = [turn[c] EXCEPT !.pc = "dispatch", !.rest = batch, !.escalated = FALSE]
      BY <2>3 DEF ModelCallsTools, TypeOK
    <3>2. turn'[c].pc = "dispatch"
      BY <3>1 DEF Turns
    <3>. QED
      BY <2>3, <3>2 DEF ModelCallsTools, stored, Speaks
  <2>4. ASSUME NEW text \in Texts, ModelReplies(c, text) \/ RepairReplies(c, text)
        PROVE  Speaks(c)
    BY <1>3, <1>4, <2>4 DEF ModelReplies, RepairReplies, AfterGuard, stored
  <2>5. CASE RepairFails(c)
    BY <1>3, <2>5 DEF RepairFails, AfterGuard
  <2>6. ASSUME NEW prose \in {"written", "template"}, BriefWritten(c, prose)
        PROVE  Speaks(c)
    BY <1>3, <2>6 DEF BriefWritten
  <2>. QED
    BY <1>6, <2>1, <2>2, <2>3, <2>4, <2>5, <2>6 DEF ModelStep
<1>7. CASE Triggered(c)
  BY <1>5, <1>7 DEF Triggered, Escalate
<1>8. CASE Dispatch(c)
  BY <1>4, <1>8 DEF Dispatch
<1>9. CASE LogCall(c)
  <2>1. /\ turn'[c].pc = "dispatch"
        /\ UNCHANGED talk
    BY <1>9 DEF LogCall, TypeOK, Turns
  <2>. QED
    BY <2>1 DEF Speaks
<1>10. CASE EndBatch(c)
  <2>1. CASE /\ turn' = [turn EXCEPT ![c].pc = "model", ![c].step = NextStep(c)]
             /\ UNCHANGED talk
    <3>1. turn'[c].pc = "model"
      BY <2>1 DEF TypeOK, Turns
    <3>. QED
      BY <2>1, <3>1 DEF Speaks
  <2>. QED
    BY <1>5, <1>10, <2>1 DEF EndBatch, Escalate
<1>11. CASE Evaluate(c)
  BY <1>1, <1>2, <1>5, <1>11, RowsTyped DEF Evaluate, Escalate, Reply
<1>12. CASE HandOff(c)
  BY <1>1, <1>12, RowsTyped DEF HandOff, Handoff
<1>. QED
  BY <1>6, <1>7, <1>8, <1>9, <1>10, <1>11, <1>12 DEF Step

\* A human who owns the lead keeps it.
LEMMA StaysEscalated ==
    ASSUME TypeOK, [Next]_vars, NEW c \in Convs, status[c] = "escalated"
    PROVE  status'[c] = "escalated"
BY LeadSteps DEF LeadStep, EscalatedStatus, TypeOK

-------------------------------------------------------------------------------
\* A database without conversations' rows satisfies the invariant.
LEMMA InvInit == Init => Inv
<1>. SUFFICES ASSUME Init PROVE Inv
  OBVIOUS
<1>1. TypeOK
  BY NoTurnTyped, TurnLimitsAssumption DEF Init, TypeOK
<1>2. OneLead /\ GroundedOnly /\ SilentAfterHandoff
  BY DEF Init, OneLead, HasLead, GroundedOnly, SilentAfterHandoff
<1>3. ASSUME NEW c \in Convs PROVE Addressed(c)
  <2>1. turn[c] = NoTurn /\ talk[c] = <<>>
    BY DEF Init
  <2>2. DOMAIN NoTurn.rest = {} /\ DOMAIN talk[c] = {}
    BY <2>1 DEF NoTurn
  <2>3. ~HandedOff(c)
    BY <2>2 DEF HandedOff
  <2>. QED
    BY <2>1, <2>2, <2>3 DEF Addressed, NoTurn
<1>4. \A c \in Convs : Kept(turn[c])
  BY DEF Init, Kept, NoTurn, NoText
<1>. QED
  BY <1>1, <1>2, <1>3, <1>4 DEF Inv, Kept

\* The inductive invariant outlasts every step.
LEMMA InvStep == Inv /\ [Next]_vars => Inv'
<1>. SUFFICES ASSUME Inv, [Next]_vars PROVE Inv'
  OBVIOUS
<1>1. TypeOK /\ OneLead /\ GroundedOnly /\ Checked /\ Logging
  BY DEF Inv, Checked, Logging
<1>2. TypeOK' /\ OneLead' /\ GroundedOnly' /\ Checked' /\ Logging'
  BY <1>1, TypeStep, LeadSteps, OneLeadStep, TalkSteps, GroundedStep, KeptStep
<1>3. ASSUME "misaddressed" \notin Faults PROVE SilentAfterHandoff' /\ Orderly'
  BY <1>1, <1>3, SilentStep, AddressedStep DEF Inv, Orderly
<1>. QED
  BY <1>2, <1>3 DEF Inv, Checked, Logging, Orderly

\* Every reachable state satisfies the inductive invariant, for any conversations,
\* limits, faults and crashes (agent.py 280-470, dispatch.py, escalation.py).
THEOREM TurnInvariance == Spec => []Inv
BY InvInit, InvStep, PTL DEF Spec

\* Rows, turns and calls keep their shapes; no turn passes the step cap (agent.py 376).
THEOREM TurnTypeCorrect == Spec => []TypeOK
<1>1. Inv => TypeOK
  BY DEF Inv
<1>. QED
  BY <1>1, TurnInvariance, PTL

\* Whoever escalates, and however often, a conversation has one lead, exactly when
\* it is escalated (tools.py 634-641).
THEOREM OneLeadEach == Spec => []OneLead
<1>1. Inv => OneLead
  BY DEF Inv
<1>. QED
  BY <1>1, TurnInvariance, PTL

\* Every row the buyer reads has passed the guard, on each way to him (agent.py
\* 285-330).
THEOREM NothingUngrounded == Spec => []GroundedOnly
<1>1. Inv => GroundedOnly
  BY DEF Inv
<1>. QED
  BY <1>1, TurnInvariance, PTL

\* A buyer told that a broker will call has a lead with a brief, as long as the
\* model escalates no other conversation than the one it speaks in (agent.py 398).
THEOREM HandoffsAreHonoured ==
    ASSUME "misaddressed" \notin Faults
    PROVE  Spec => []HandoffHonoured
<1>1. Inv => HandoffHonoured
  BY DEF Inv, Addressed, HandoffHonoured
<1>. QED
  BY <1>1, TurnInvariance, PTL

\* The agent is silent behind its handoff line, under the same condition (D19,
\* agent.py 319-320).
THEOREM SilentBehindHandoff ==
    ASSUME "misaddressed" \notin Faults
    PROVE  Spec => []SilentAfterHandoff
<1>1. Inv => SilentAfterHandoff
  BY DEF Inv
<1>. QED
  BY <1>1, TurnInvariance, PTL

-------------------------------------------------------------------------------
(***************************************************************************)
(* What a turn carries through when no answer is malformed or misaddressed *)
(* and only the model being down, or the death of the process, gets in its *)
(* way: no lead, no visit, no buyer and no repeated question is left       *)
(* half done, for any conversations, limits, batches and crashes.          *)
(***************************************************************************)


\* Without faults every call can be read.
LEMMA CallsReadable ==
    ASSUME Faults = {}, NEW c \in Convs, NEW batch \in Batches(c)
    PROVE  \A i \in DOMAIN batch : batch[i].tool # "detailsUnreadable"
<1>1. \A call \in Calls(c) : call.tool # "detailsUnreadable"
  BY DEF Calls, Call
<1>2. PICK n \in 0 .. MaxBatch : batch \in [1 .. n -> Calls(c)]
  BY DEF Batches
<1>. QED
  BY <1>1, <1>2

\* The numbers of a conversation are numbers.
LEMMA Limits ==
    ASSUME TypeOK, NEW c \in Convs
    PROVE  /\ ClarificationLimit \in Nat /\ crashes \in Nat /\ count[c] \in Nat
           /\ talk[c] \in Seq(Rows)
BY TurnLimitsAssumption DEF TypeOK

\* The evaluator finds nothing to escalate only for a conversation that has its
\* lead, or that booked nothing and is below the limit.
LEMMA VerdictNone ==
    ASSUME TypeOK, OneLead, NEW c \in Convs, Verdict(c) = "none"
    PROVE  HasLead(c) \/ (~turn[c].booked /\ count[c] < ClarificationLimit)
BY Limits DEF Verdict, Booked, Exhausted, OneLead

-------------------------------------------------------------------------------
(* A step of one conversation leaves the others alone.                     *)

OwnLeadStep(c) ==
    \/ UNCHANGED <<leads, status>>
    \/ \E reason \in Reasons : leads' = Escalated(c, reason) /\ status' = EscalatedStatus(c)
    \/ \E prose \in {"written", "template"} : leads' = Briefs(c, prose) /\ UNCHANGED status

\* A step touches the lead of its own conversation only.
LEMMA OwnLeadSteps ==
    ASSUME TypeOK, Logging, "misaddressed" \notin Faults, NEW c \in Convs, Addressed(c),
           Start(c) \/ Step(c)
    PROVE  OwnLeadStep(c)
<1>1. CASE Start(c)
  BY <1>1 DEF Start, StartSilent, StartTriggered, StartModel, Stored, OwnLeadStep
<1>2. CASE ModelStep(c)
  BY <1>2 DEF ModelStep, ModelDown, ModelMalformed, ModelCallsTools, ModelReplies,
              RepairReplies, RepairFails, BriefWritten, AfterGuard, stored, OwnLeadStep, Briefs
<1>3. CASE Dispatch(c)
  <2>1. Head(turn[c].rest).conv = c
    BY <1>3, TurnTyped, FirstCall DEF Dispatch, Addressed
  <2>. QED
    BY <1>3, <2>1 DEF Dispatch, OwnLeadStep, Reasons
<1>4. CASE Triggered(c) \/ LogCall(c) \/ EndBatch(c) \/ HandOff(c)
  BY <1>4 DEF Triggered, LogCall, EndBatch, HandOff, Escalate, OwnLeadStep, Reasons
<1>5. CASE Evaluate(c)
  BY <1>5, VerdictIsReason DEF Evaluate, Escalate, OwnLeadStep
<1>. QED
  BY <1>1, <1>2, <1>3, <1>4, <1>5 DEF Step

\* A step leaves the lead and the status of other conversations alone.
LEMMA OtherLeads ==
    ASSUME TypeOK, NEW c \in Convs, OwnLeadStep(c), NEW d \in Convs \ {c}
    PROVE  (HasLead(d)' <=> HasLead(d)) /\ status'[d] = status[d]
<1>. leads \in Seq(LeadRows)
  BY DEF TypeOK, LeadRows
<1>1. status'[d] = status[d]
  BY DEF OwnLeadStep, EscalatedStatus, TypeOK
<1>2. ASSUME NEW reason \in Reasons, leads' = Append(leads, Lead(c, reason))
      PROVE  (HasLead(d)' <=> HasLead(d))
  <2>1. Lead(c, reason) \in LeadRows
    BY DEF Lead, LeadRows
  <2>2. /\ DOMAIN leads = 1 .. Len(leads) /\ Len(leads) \in Nat
        /\ DOMAIN leads' = 1 .. Len(leads) + 1
        /\ \A i \in 1 .. Len(leads) : leads'[i] = leads[i]
        /\ leads'[Len(leads) + 1].conv = c
    BY <1>2, <2>1, AppendProperties, LenProperties DEF Lead
  <2>. QED
    BY <2>2 DEF HasLead
<1>3. ASSUME NEW prose \in {"written", "template"}, leads' = Briefs(c, prose)
      PROVE  (HasLead(d)' <=> HasLead(d))
  <2>1. \A i \in DOMAIN leads : leads'[i].conv = leads[i].conv
    BY <1>3, LenProperties, ElementOfSeq DEF Briefs, LeadRows
  <2>2. DOMAIN leads' = DOMAIN leads
    BY <1>3 DEF Briefs
  <2>. QED
    BY <2>1, <2>2 DEF HasLead
<1>4. CASE UNCHANGED leads
  BY <1>1, <1>4 DEF HasLead
<1>. QED
  BY <1>1, <1>2, <1>3, <1>4 DEF OwnLeadStep, Escalated

\* A step leaves the records of other conversations alone.
LEMMA OtherRecords ==
    ASSUME TypeOK, NEW c \in Convs, Start(c) \/ Step(c), NEW d \in Convs \ {c}
    PROVE  /\ count'[d] = count[d] /\ unreadable'[d] = unreadable[d]
           /\ visits'[d] = visits[d]
           /\ UNCHANGED <<lost, crashes>>
<1>1. CASE Start(c)
  BY <1>1 DEF Start, StartSilent, StartTriggered, StartModel, Stored, fallen
<1>2. CASE ModelStep(c)
  BY <1>2 DEF ModelStep, ModelDown, ModelMalformed, ModelCallsTools, ModelReplies,
              RepairReplies, RepairFails, BriefWritten, AfterGuard, stored, fallen, TypeOK
<1>3. CASE Dispatch(c) \/ LogCall(c)
  BY <1>3 DEF Dispatch, LogCall, Visits, Unreadable, fallen, TypeOK
<1>4. CASE Triggered(c) \/ EndBatch(c) \/ Evaluate(c) \/ HandOff(c)
  BY <1>4 DEF Triggered, EndBatch, Evaluate, HandOff, fallen
<1>. QED
  BY <1>1, <1>2, <1>3, <1>4 DEF Step

\* A step leaves what other conversations must carry through alone.
LEMMA OtherCarried ==
    ASSUME TypeOK, Logging, "misaddressed" \notin Faults, NEW c \in Convs, Addressed(c),
           Start(c) \/ Step(c), NEW d \in Convs \ {c}, Carried(d)
    PROVE  Carried(d)'
<1>1. turn'[d] = turn[d] /\ talk'[d] = talk[d]
  BY OnlyOwn
<1>2. (HasLead(d)' <=> HasLead(d)) /\ status'[d] = status[d]
  BY OwnLeadSteps, OtherLeads
<1>3. /\ count'[d] = count[d] /\ unreadable'[d] = unreadable[d]
      /\ visits'[d] = visits[d]
      /\ UNCHANGED <<lost, crashes>>
  BY OtherRecords
<1>. QED
  BY <1>1, <1>2, <1>3 DEF Carried, AboutTo, HandedOff, CutShort, BookingHeld, HeardOut

-------------------------------------------------------------------------------
(* What a step of the conversation itself does.                            *)

\* What one more row leaves of what excuses a lead or a visit.
LEMMA ExcusesKept ==
    ASSUME TypeOK, NEW c \in Convs, NEW row \in Rows, talk'[c] = Append(talk[c], row),
           UNCHANGED lost, visits'[c] = visits[c]
    PROVE  /\ BookingHeld(c) => BookingHeld(c)'
           /\ visits[c] = Len(talk[c]) /\ row.kind = "hold" => BookingHeld(c)'
           /\ CutShort(c) /\ row.kind = "buyer" => CutShort(c)'
<1>1. /\ DOMAIN talk[c] = 1 .. Len(talk[c]) /\ Len(talk[c]) \in Nat
      /\ DOMAIN talk'[c] = 1 .. Len(talk[c]) + 1
      /\ \A i \in 1 .. Len(talk[c]) : talk'[c][i] = talk[c][i]
      /\ talk'[c][Len(talk[c]) + 1] = row
  BY Limits, AppendProperties, LenProperties
<1>2. visits[c] \in Nat
  BY DEF TypeOK
<1>. QED
  BY <1>1, <1>2 DEF BookingHeld, CutShort

\* A turn that ends with a line for the buyer.
LEMMA CarriedEnds ==
    ASSUME TypeOK, LeadStep, NEW c \in Convs, Carried(c), NEW row \in Rows, NEW out,
           Ends(c, row, out), UNCHANGED <<visits, unreadable, fallen>>,
           row.kind = "buyer" => status'[c] # "active",
           HasLead(c)' =>
               HandedOff(c) \/ row.kind = "handoff" \/ (CutShort(c) /\ row.kind = "buyer"),
           visits[c] # 0 =>
               \/ HasLead(c)' \/ BookingHeld(c)
               \/ visits[c] = Len(talk[c]) /\ row.kind = "hold",
           HasLead(c)' \/ count'[c] < ClarificationLimit + crashes
    PROVE  Carried(c)'
<1>1. turn'[c] = NoTurn /\ talk'[c] = Append(talk[c], row)
  BY DEF Ends, TypeOK
<1>2. /\ DOMAIN talk[c] = 1 .. Len(talk[c]) /\ Len(talk[c]) \in Nat
      /\ DOMAIN talk'[c] = 1 .. Len(talk[c]) + 1
      /\ Len(talk'[c]) = Len(talk[c]) + 1
      /\ \A i \in 1 .. Len(talk[c]) : talk'[c][i] = talk[c][i]
      /\ talk'[c][Len(talk[c]) + 1] = row
  BY <1>1, Limits, AppendProperties, LenProperties
<1>3. HeardOut(c)'
  BY <1>2 DEF HeardOut
<1>4. HandedOff(c) \/ row.kind = "handoff" => HandedOff(c)'
  BY TalkGrows DEF Ends
<1>5. /\ BookingHeld(c) => BookingHeld(c)'
      /\ visits[c] = Len(talk[c]) /\ row.kind = "hold" => BookingHeld(c)'
      /\ CutShort(c) /\ row.kind = "buyer" => CutShort(c)'
  BY <1>1, ExcusesKept DEF fallen
<1>6. DOMAIN NoTurn.rest = {} /\ NoTurn.pc = "idle"
  BY DEF NoTurn
<1>7. turn'[c].pc = "idle" /\ \A i \in DOMAIN turn'[c].rest :
                                   turn'[c].rest[i].tool # "detailsUnreadable"
  BY <1>1, <1>6
<1>. QED
  BY <1>1, <1>3, <1>4, <1>5, <1>7 DEF Carried, AboutTo, fallen

\* A turn that goes on with a text, or with its lead on the way to the brief.
LEMMA CarriedGoes ==
    ASSUME TypeOK, LeadStep, NEW c \in Convs, Carried(c), turn[c].pc # "idle",
           NEW pc \in {"brief", "handoff"}, NEW text, GoesTo(c, pc, text),
           UNCHANGED <<talk, count, visits, unreadable, fallen>>, HasLead(c)'
    PROVE  Carried(c)'
<1>1. /\ turn'[c].pc = pc /\ turn'[c].rest = turn[c].rest
  BY TurnTyped DEF GoesTo, TypeOK, Turns
<1>. QED
  BY <1>1 DEF Carried, HeardOut, BookingHeld, AboutTo, fallen

\* A turn that finishes escalated has carried through what it had to.
LEMMA CarriedFinishes ==
    ASSUME TypeOK, LeadStep, NEW c \in Convs, Carried(c), turn[c].pc # "idle",
           NEW text \in Texts, FinishEscalated(c, text, leads'), HasLead(c)',
           UNCHANGED <<count, visits, unreadable, fallen>>
    PROVE  Carried(c)'
<1>1. CASE \E i \in DOMAIN leads' : leads'[i].conv = c /\ leads'[i].brief = "empty"
  BY <1>1, CarriedGoes DEF FinishEscalated
<1>2. CASE ~\E i \in DOMAIN leads' : leads'[i].conv = c /\ leads'[i].brief = "empty"
  <2>1. Handoff(text) \in Rows /\ Handoff(text).kind = "handoff"
    BY RowsTyped DEF Handoff
  <2>. QED
    BY <1>2, <2>1, CarriedEnds DEF FinishEscalated
<1>. QED
  BY <1>1, <1>2

\* A turn that starts has nothing to carry through yet.
LEMMA CarriedStart ==
    ASSUME TypeOK, OneLead, LeadStep, NEW c \in Convs, Carried(c), Start(c)
    PROVE  Carried(c)'
<1>. turn[c].pc = "idle" /\ turn[c] = NoTurn
  BY DEF Start, StartSilent, StartTriggered, StartModel, Arrives, At, Carried
<1>1. CASE StartSilent(c)
  <2>1. HasLead(c) /\ HasLead(c)' /\ status'[c] # "active"
    BY <1>1 DEF StartSilent, OneLead, TypeOK, HasLead
  <2>2. Buyers \in Rows
    BY RowsTyped
  <2>3. HandedOff(c) \/ CutShort(c)
    BY <2>1 DEF Carried, AboutTo
  <2>4. Buyers.kind = "buyer"
    BY DEF Buyers
  <2>. QED
    BY <1>1, <2>1, <2>2, <2>3, <2>4, CarriedEnds DEF StartSilent
<1>2. ASSUME NEW pc \in {"trigger", "model"}, Stored(c, pc), status[c] = "active"
      PROVE  Carried(c)'
  <2>1. ~HasLead(c)'
    BY <1>2 DEF Stored, OneLead, HasLead
  <2>2. turn'[c] = [NoTurn EXCEPT !.pc = pc, !.step = 1]
    BY <1>2 DEF Stored, TypeOK
  <2>3. turn'[c].pc = pc /\ DOMAIN turn'[c].rest = {}
    BY <2>2 DEF NoTurn
  <2>4. visits[c] # 0 => BookingHeld(c)
    BY <2>1, <1>2 DEF Stored, HasLead, Carried, AboutTo
  <2>5. BookingHeld(c) => BookingHeld(c)'
    <3>1. talk'[c] = Append(talk[c], Buyers) /\ UNCHANGED <<lost, visits>>
      BY <1>2 DEF Stored, TypeOK, fallen
    <3>. QED
      BY <3>1, RowsTyped, ExcusesKept
  <2>. QED
    BY <1>2, <2>1, <2>3, <2>4, <2>5 DEF Stored, Carried, HasLead, HeardOut, fallen
<1>. QED
  BY <1>1, <1>2 DEF Start, StartTriggered, StartModel

\* The model's answer drops nothing that must be carried through.
LEMMA CarriedModelStep ==
    ASSUME TypeOK, LeadStep, Faults = {}, NEW c \in Convs, Addressed(c), Carried(c),
           ModelStep(c)
    PROVE  Carried(c)'
<1>. turn[c].pc # "idle"
  BY Busy DEF Step
<1>1. CASE ModelDown(c)
  <2>1. Hold \in Rows /\ Hold.kind = "hold"
    BY RowsTyped DEF Hold
  <2>2. /\ ~HasLead(c)'
        /\ HasLead(c)' \/ count'[c] < ClarificationLimit + crashes
    BY <1>1 DEF ModelDown, At, Carried, AboutTo, HasLead
  <2>3. visits[c] # 0 => BookingHeld(c) \/ visits[c] = Len(talk[c])
    BY <1>1 DEF ModelDown, At, Carried, AboutTo, HasLead
  <2>. QED
    BY <1>1, <2>1, <2>2, <2>3, CarriedEnds DEF ModelDown
<1>2. ~ModelMalformed(c)
  BY DEF ModelMalformed
<1>3. ASSUME NEW batch \in Batches(c), ModelCallsTools(c, batch) PROVE Carried(c)'
  <2>1. turn'[c] = [turn[c] EXCEPT !.pc = "dispatch", !.rest = batch, !.escalated = FALSE]
    BY <1>3 DEF ModelCallsTools, TypeOK
  <2>2. turn'[c].pc = "dispatch" /\ turn'[c].rest = batch /\ turn'[c].booked = turn[c].booked
    BY <2>1, TurnTyped DEF Turns
  <2>3. ~HasLead(c)
    BY <1>3 DEF ModelCallsTools, At, Carried, AboutTo
  <2>. QED
    BY <1>3, <2>2, <2>3, CallsReadable
    DEF ModelCallsTools, At, stored, fallen, Carried, AboutTo, HasLead, HandedOff, CutShort, BookingHeld, HeardOut
<1>4. ASSUME NEW text, AfterGuard(c, text), turn[c].pc \in {"model", "repair"}
      PROVE  Carried(c)'
  <2>1. /\ turn'[c].pc = "evaluate" /\ turn'[c].rest = turn[c].rest
        /\ turn'[c].booked = turn[c].booked
    BY <1>4, TurnTyped DEF AfterGuard, GoesTo, TypeOK, Turns
  <2>2. ~HasLead(c)
    BY <1>4 DEF Carried, AboutTo
  <2>3. HasLead(c) \/ count'[c] <= ClarificationLimit + crashes
    BY <1>4, Limits, TurnLimitsAssumption DEF AfterGuard, NewCount, Carried, TypeOK
  <2>4. HasLead(c) \/ count'[c] < ClarificationLimit + crashes
                   \/ count'[c] = ClarificationLimit + crashes
    <3>1. count'[c] \in Nat
      BY <1>4, Limits DEF AfterGuard, NewCount, TypeOK
    <3>. QED
      BY <2>3, <3>1, Limits
  <2>. QED
    BY <1>4, <2>1, <2>2, <2>4
    DEF AfterGuard, GoesTo, fallen, Carried, AboutTo, HasLead, HandedOff, CutShort, BookingHeld, HeardOut
<1>5. ASSUME NEW text \in Texts, ModelReplies(c, text) PROVE Carried(c)'
  <2>1. ASSUME turn' = [turn EXCEPT ![c].pc = "repair"], UNCHANGED <<stored, outcome, fallen>>
        PROVE  Carried(c)'
    <3>1. /\ turn'[c].pc = "repair" /\ turn'[c].rest = turn[c].rest
          /\ turn'[c].booked = turn[c].booked
      BY <2>1, TurnTyped DEF TypeOK, Turns
    <3>2. turn[c].pc = "model"
      BY <1>5 DEF ModelReplies, At
    <3>. QED
      BY <2>1, <3>1, <3>2 DEF stored, fallen, Carried, AboutTo, HasLead, HandedOff, CutShort, BookingHeld, HeardOut
  <2>. QED
    BY <1>4, <1>5, <2>1 DEF ModelReplies, At
<1>6. ASSUME NEW text \in Texts, RepairReplies(c, text) PROVE Carried(c)'
  BY <1>4, <1>6 DEF RepairReplies, At
<1>7. CASE RepairFails(c)
  BY <1>4, <1>7 DEF RepairFails, At
<1>8. ASSUME NEW prose \in {"written", "template"}, BriefWritten(c, prose)
      PROVE  Carried(c)'
  <2>1. HasLead(c)'
    BY <1>8, LeadsStay DEF BriefWritten, At, Addressed
  <2>. QED
    BY <1>8, <2>1, CarriedGoes DEF BriefWritten
<1>. QED
  BY <1>1, <1>2, <1>3, <1>5, <1>6, <1>7, <1>8 DEF ModelStep

\* A tool call drops nothing that must be carried through.
LEMMA CarriedToolStep ==
    ASSUME TypeOK, LeadStep, Logging, Faults = {}, NEW c \in Convs, Addressed(c), Carried(c),
           Dispatch(c) \/ LogCall(c)
    PROVE  Carried(c)'
<1>. turn[c].rest # <<>>
  BY DEF Dispatch, LogCall, At, Logging
<1>. DEFINE call == Head(turn[c].rest)
<1>1. /\ call.conv = c /\ call.tool # "detailsUnreadable"
      /\ \A i \in DOMAIN Tail(turn[c].rest) : Tail(turn[c].rest)[i].tool # "detailsUnreadable"
  BY TurnTyped, FirstCall DEF Addressed, Carried
<1>2. /\ UNCHANGED <<talk, count, fallen>>
      /\ turn'[c].pc \in {"dispatch", "logging"}
  BY TurnTyped DEF Dispatch, LogCall, TypeOK, Turns
<1>3. CASE Dispatch(c)
  <2>1. /\ turn'[c].pc = "logging" /\ turn'[c].rest = turn[c].rest
        /\ turn'[c].booked = turn[c].booked /\ turn'[c].escalated = turn[c].escalated
    BY <1>3, TurnTyped DEF Dispatch, TypeOK, Turns
  <2>2. HasLead(c)' => HasLead(c) \/ call.tool = "escalate"
    BY <1>3 DEF Dispatch, HasLead
  <2>3. visits'[c] = visits[c] \/ (call.tool = "book" /\ visits'[c] = Len(talk[c]))
    BY <1>3 DEF Dispatch, Visits, TypeOK
  <2>4. HasLead(c) => HasLead(c)'
    BY LeadsStay
  <2>5. turn[c].pc = "dispatch" /\ UNCHANGED unreadable
    BY <1>3 DEF Dispatch, At
  <2>. QED
    BY <1>2, <2>1, <2>2, <2>3, <2>4, <2>5 DEF fallen, Carried, AboutTo, HandedOff, CutShort, BookingHeld, HeardOut
<1>4. CASE LogCall(c)
  <2>1. /\ turn'[c].pc = "dispatch" /\ turn'[c].rest = Tail(turn[c].rest)
        /\ turn'[c].booked <=> turn[c].booked \/ call.tool = "book"
        /\ turn'[c].escalated <=> turn[c].escalated \/ call.tool = "escalate"
    <3>1. turn \in [Convs -> Turns]
      BY DEF TypeOK
    <3>2. turn' = [turn EXCEPT ![c].pc = "dispatch",
                              ![c].rest = Tail(@),
                              ![c].progressed = @ \/ call.tool \notin Failed,
                              ![c].booked = @ \/ call.tool = "book",
                              ![c].escalated = @ \/ call.tool = "escalate"]
      BY <1>4 DEF LogCall
    <3>3. turn'[c] = [turn[c] EXCEPT !.pc = "dispatch",
                                    !.rest = Tail(@),
                                    !.progressed = @ \/ call.tool \notin Failed,
                                    !.booked = @ \/ call.tool = "book",
                                    !.escalated = @ \/ call.tool = "escalate"]
      BY <3>1, <3>2, Zenon
    <3>4. turn[c] \in Turns
      BY <3>1
    <3>5. turn'[c].pc = "dispatch" /\ turn'[c].rest = Tail(turn[c].rest)
      BY <3>3, <3>4 DEF Turns
    <3>6. turn'[c].booked = (turn[c].booked \/ call.tool = "book")
      BY <3>3, <3>4, Zenon DEF Turns
    <3>7. turn'[c].escalated = (turn[c].escalated \/ call.tool = "escalate")
      BY <3>3, <3>4, Zenon DEF Turns
    <3>. QED
      BY <3>5, <3>6, <3>7
  <2>2. ~unreadable'[c]
    BY <1>1, <1>4 DEF LogCall, Unreadable, Carried, TypeOK
  <2>3. turn[c].pc = "logging" /\ UNCHANGED <<leads, visits, status>>
    BY <1>4 DEF LogCall, At
  <2>. QED
    BY <1>1, <1>2, <2>1, <2>2, <2>3 DEF fallen, Carried, AboutTo, HasLead, HandedOff, CutShort, BookingHeld, HeardOut
<1>. QED
  BY <1>3, <1>4

\* The last steps of a turn carry through what they must.
LEMMA CarriedLastStep ==
    ASSUME TypeOK, OneLead, LeadStep, Faults = {}, NEW c \in Convs, Addressed(c), Carried(c),
           Triggered(c) \/ EndBatch(c) \/ Evaluate(c) \/ HandOff(c)
    PROVE  Carried(c)'
<1>. turn[c].pc # "idle"
  BY Busy DEF Step
<1>. NoText \in Texts /\ turn[c].text \in Texts
  BY NoTurnTyped, TurnTyped
<1>1. ASSUME NEW reason \in Reasons, NEW text \in Texts, Escalate(c, reason, text),
             UNCHANGED <<count, visits, unreadable, fallen>>
      PROVE  Carried(c)'
  BY <1>1, EscalatedHasLead, CarriedFinishes DEF Escalate
<1>2. CASE Triggered(c)
  BY <1>1, <1>2 DEF Triggered, Reasons
<1>3. CASE EndBatch(c)
  <2>1. UNCHANGED <<count, visits, unreadable, fallen>> /\ turn[c].pc = "dispatch"
    BY <1>3 DEF EndBatch, At
  <2>2. CASE turn[c].escalated /\ FinishEscalated(c, NoText, leads) /\ leads' = leads
    <3>1. HasLead(c)'
      BY <2>2, LeadsStay DEF Addressed
    <3>. QED
      BY <2>1, <2>2, <3>1, CarriedFinishes
  <2>3. CASE Escalate(c, "step_cap_breached", NoText)
    BY <1>1, <2>1, <2>3 DEF Reasons
  <2>4. CASE /\ ~turn[c].escalated
             /\ turn' = [turn EXCEPT ![c].pc = "model", ![c].step = NextStep(c)]
             /\ UNCHANGED <<status, leads, talk, outcome>>
    <3>1. /\ turn'[c].pc = "model" /\ turn'[c].rest = turn[c].rest
          /\ turn'[c].booked = turn[c].booked
      BY <2>4, TurnTyped DEF TypeOK, Turns
    <3>. QED
      BY <2>1, <2>4, <3>1 DEF fallen, Carried, AboutTo, HasLead, HandedOff, CutShort, BookingHeld, HeardOut
  <2>. QED
    BY <1>3, <2>2, <2>3, <2>4 DEF EndBatch
<1>4. CASE Evaluate(c)
  <2>1. UNCHANGED <<count, visits, unreadable, fallen>> /\ turn[c].pc = "evaluate"
    BY <1>4 DEF Evaluate, At
  <2>2. ~EvaluateRaises(c)
    BY DEF EvaluateRaises, Carried
  <2>3. CASE Verdict(c) = "none" /\ Ends(c, Reply(turn[c].text), "active")
                                /\ UNCHANGED <<status, leads>>
    <3>1. Reply(turn[c].text) \in Rows /\ Reply(turn[c].text).kind = "reply"
      BY RowsTyped DEF Reply
    <3>2. HasLead(c)' \/ (~turn[c].booked /\ count'[c] < ClarificationLimit + crashes)
      BY <2>1, <2>3, VerdictNone, Limits DEF HasLead
    <3>3. ~HasLead(c)'
      BY <2>1, <2>3 DEF HasLead, Carried, AboutTo
    <3>4. visits[c] # 0 => BookingHeld(c)
      BY <2>1, <2>3, <3>2, <3>3 DEF HasLead, Carried, AboutTo
    <3>. QED
      BY <2>1, <2>3, <3>1, <3>2, <3>3, <3>4, CarriedEnds
  <2>4. CASE Verdict(c) # "none" /\ Escalate(c, Verdict(c), turn[c].text)
    BY <1>1, <2>1, <2>4, VerdictIsReason
  <2>. QED
    BY <1>4, <2>2, <2>3, <2>4 DEF Evaluate
<1>5. CASE HandOff(c)
  <2>1. HasLead(c)'
    BY <1>5, LeadsStay DEF HandOff, At, Addressed, Briefed, HasLead
  <2>2. Handoff(turn[c].text) \in Rows /\ Handoff(turn[c].text).kind = "handoff"
    BY RowsTyped DEF Handoff
  <2>. QED
    BY <1>5, <2>1, <2>2, CarriedEnds DEF HandOff
<1>. QED
  BY <1>2, <1>3, <1>4, <1>5

\* The process dies: what was in flight is counted as lost, the rest stands.
LEMMA CarriedCrash ==
    ASSUME TypeOK, Crash, NEW c \in Convs, Carried(c)
    PROVE  Carried(c)'
<1>1. /\ turn'[c] = NoTurn /\ UNCHANGED stored /\ crashes' = crashes + 1
      /\ lost \subseteq lost'
      /\ turn[c].pc # "idle" => <<c, Len(talk[c])>> \in lost'
  BY DEF Crash
<1>2. NoTurn.pc = "idle" /\ DOMAIN NoTurn.rest = {}
  BY DEF NoTurn
<1>3. HasLead(c) \/ count[c] < ClarificationLimit + crashes'
  BY <1>1, Limits DEF Carried
<1>4. DOMAIN talk[c] = 1 .. Len(talk[c]) /\ Len(talk[c]) \in Nat
  BY Limits, LenProperties
<1>5. /\ CutShort(c) => CutShort(c)'
      /\ turn[c].pc # "idle" => CutShort(c)'
  <2>1. turn[c].pc # "idle" => \E cut \in lost' : cut[1] = c /\ cut[2] = Len(talk[c])
    BY <1>1
  <2>. QED
    BY <1>1, <1>4, <2>1 DEF stored, CutShort
<1>6. HasLead(c)' => HandedOff(c)' \/ CutShort(c)'
  BY <1>1, <1>5 DEF stored, Carried, AboutTo, HasLead, HandedOff
<1>7. visits'[c] # 0 => HasLead(c)' \/ BookingHeld(c)'
  BY <1>1 DEF stored, Carried, AboutTo, HasLead, BookingHeld
<1>8. HeardOut(c)'
  BY <1>1 DEF stored, Carried, HeardOut
<1>. QED
  BY <1>1, <1>2, <1>3, <1>6, <1>7, <1>8 DEF stored, Carried, HasLead

-------------------------------------------------------------------------------
\* At the start nothing has to be carried through.
LEMMA CarriedInit == Init => CarriedThrough
<1>. SUFFICES ASSUME Init, NEW c \in Convs PROVE Carried(c)
  BY DEF CarriedThrough
<1>1. turn[c] = NoTurn /\ DOMAIN NoTurn.rest = {} /\ NoTurn.pc = "idle" /\ ~NoTurn.booked
  BY DEF Init, NoTurn
<1>. QED
  BY <1>1, TurnLimitsAssumption DEF Init, Carried, HasLead, HeardOut

\* Every step carries through what it must.
LEMMA CarriedStep == Inv /\ CarriedThrough /\ [Next]_vars => CarriedThrough'
<1>. SUFFICES ASSUME Inv, CarriedThrough, [Next]_vars, Faults = {}, NEW c \in Convs
              PROVE  Carried(c)'
  BY DEF CarriedThrough
<1>. /\ TypeOK /\ OneLead /\ Logging
     /\ "misaddressed" \notin Faults
     /\ \A d \in Convs : Addressed(d) /\ Carried(d)
  BY DEF Inv, Logging, CarriedThrough
<1>. LeadStep
  BY LeadSteps
<1>1. CASE UNCHANGED vars
  BY <1>1 DEF vars, stored, fallen, Carried, AboutTo, HasLead, HandedOff, CutShort, BookingHeld, HeardOut
<1>2. CASE Crash
  BY <1>2, CarriedCrash
<1>3. ASSUME NEW d \in Convs, Start(d) \/ Step(d) PROVE Carried(c)'
  <2>1. CASE c # d
    BY <1>3, <2>1, OtherCarried
  <2>2. CASE c = d
    BY <1>3, <2>2, CarriedStart, CarriedModelStep, CarriedToolStep, CarriedLastStep DEF Step
  <2>. QED
    BY <2>1, <2>2
<1>. QED
  BY <1>1, <1>2, <1>3 DEF Next, Done

\* Without malformed or misaddressed answers every turn carries through what it
\* began, whatever the model says, calls or fails to say, and however often the
\* process dies in the other turns (agent.py 335-470).
THEOREM EverythingIsCarried == Spec => [](Inv /\ CarriedThrough)
<1>1. Init => Inv /\ CarriedThrough
  BY InvInit, CarriedInit
<1>2. Inv /\ CarriedThrough /\ [Next]_vars => (Inv /\ CarriedThrough)'
  BY InvStep, CarriedStep
<1>. QED
  BY <1>1, <1>2, PTL DEF Spec

\* A lead has its brief and its handoff line as soon as no turn works on it, unless
\* the process died in the turn that made it (brief.py 17-18, agent.py 319-330).
THEOREM LeadsAreComplete ==
    ASSUME Faults = {}
    PROVE  Spec => []LeadComplete
<1>1. Inv /\ CarriedThrough => LeadComplete
  <2>. SUFFICES ASSUME Inv, CarriedThrough, NEW c \in Convs,
                       status[c] = "escalated", turn[c].pc = "idle"
                PROVE  (HandedOff(c) /\ Briefed(c)) \/ CutShort(c)
    BY DEF LeadComplete
  <2>1. HasLead(c) /\ Addressed(c) /\ Carried(c)
    BY DEF Inv, OneLead, CarriedThrough
  <2>. QED
    BY <2>1 DEF Carried, Addressed, AboutTo
<1>. QED
  BY <1>1, EverythingIsCarried, PTL

\* Nobody the agent still owns is left without an answer, unless the process died in
\* the turn of his last message (agent.py 379-383, 464-470).
THEOREM NobodyIsIgnored ==
    ASSUME Faults = {}
    PROVE  Spec => []NobodyIgnored
<1>1. CarriedThrough => NobodyIgnored
  BY DEF CarriedThrough, Carried, NobodyIgnored
<1>. QED
  BY <1>1, EverythingIsCarried, PTL

\* A booked visit has its lead when the turn that booked it is over, or that very
\* turn told the buyer to wait because the model went down, or died (escalation.py 165-168, agent.py 379-383).
THEOREM VisitsAreHandedOver ==
    ASSUME Faults = {}
    PROVE  Spec => []BookedOrHeld
<1>1. Inv /\ CarriedThrough => BookedOrHeld
  <2>. SUFFICES ASSUME Inv, CarriedThrough, NEW c \in Convs, visits[c] # 0,
                       turn[c].pc = "idle"
                PROVE  status[c] = "escalated" \/ BookingHeld(c)
    BY DEF BookedOrHeld
  <2>. QED
    BY DEF Inv, CarriedThrough, Carried, OneLead
<1>. QED
  BY <1>1, EverythingIsCarried, PTL

\* The limit of repeated questions holds, late by at most one question for each
\* death of the process (escalation.py 171-186, 271).
THEOREM LimitHolds ==
    ASSUME Faults = {}
    PROVE  Spec => []CountBelowLimit
<1>1. Inv /\ CarriedThrough => CountBelowLimit
  <2>. SUFFICES ASSUME Inv, CarriedThrough, NEW c \in Convs,
                       status[c] = "active", turn[c].pc = "idle"
                PROVE  count[c] < ClarificationLimit + crashes
    BY DEF CountBelowLimit
  <2>1. ~HasLead(c) /\ Carried(c)
    BY DEF Inv, OneLead, CarriedThrough
  <2>. QED
    BY <2>1 DEF Carried
<1>. QED
  BY <1>1, EverythingIsCarried, PTL
===============================================================================
