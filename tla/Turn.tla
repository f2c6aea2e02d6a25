--------------------------------- MODULE Turn ---------------------------------
(***************************************************************************)
(* The turns of all conversations, which share one database and one        *)
(* asyncio loop: agent._run with the tool dispatch, the grounding guard,   *)
(* the post-turn evaluator, the escalation and its brief.                  *)
(*                                                                         *)
(* A conversation runs one turn at a time (module Debounce).  A turn gives *)
(* the loop away only while a model call is under way; between two of them *)
(* it commits several times, and an action is the code up to the next      *)
(* commit, while the loop stays taken.                                     *)
(* Every conversation belongs to a buyer of its own.                       *)
(*                                                                         *)
(* The model is free: it answers with any text, grounded or not, with any  *)
(* batch of tool calls, or not at all.  Faults names what else may happen. *)
(***************************************************************************)
EXTENDS Integers, Sequences

CONSTANTS
    Convs,                \* the conversations
    Fields,               \* the profile fields qualification asks for
    Questions,            \* what a reply may end by asking, up to rephrasing
    NoQuestion,           \* a reply that asks nothing
    Clarify,              \* the question of guard.CLARIFYING_QUESTION
    StepCap,              \* agent.STEP_CAP
    ClarificationLimit,   \* escalation.CLARIFICATION_LIMIT
    Faults,               \* which of FaultKinds may happen
    MaxBatch,             \* bound: tool calls in one answer
    MaxTalk,              \* bound: no turn starts in a conversation this long
    MaxCrashes            \* bound: how many times the process may die

\* malformed: an answer without a choice (or tool calls without calls).
\* misaddressed: escalate_to_broker with another conversation's id, or
\* update_buyer_profile with its buyer's.
\* badSections: get_property_details with sections that cannot be put in a set.
FaultKinds == {"malformed", "misaddressed", "badSections"}

ASSUME QuestionsAssumption ==
    /\ NoQuestion \notin Questions /\ Clarify \notin Questions /\ Clarify # NoQuestion
ASSUME TurnLimitsAssumption ==
    /\ StepCap \in Nat \ {0}
    /\ ClarificationLimit \in Nat \ {0}
    /\ Faults \subseteq FaultKinds
    /\ MaxBatch \in Nat /\ MaxTalk \in Nat /\ MaxCrashes \in Nat

VARIABLES
    status,      \* conversations.status
    count,       \* conversations.clarification_count
    talk,        \* the message rows of each conversation, oldest first
    leads,       \* the rows of escalations, oldest first
    known,       \* which profile fields each conversation's buyer has
    asked,       \* the sections in the args of its get_property_details rows
    unreadable,  \* whether one of those rows has sections no set can take
    visits,      \* the buyer's row of the last turn of each conversation that confirmed
                 \* a visit, 0 for none
    turn,        \* the turn in flight in each conversation
    outcome,     \* the status of the last finished turn's result; "silent" is the
                 \* conversation's own status with no reply
    lost,        \* the turns in flight when the process died: conversation, buyer's row
    crashes      \* how many times the process died

stored == <<status, count, talk, leads, known, asked, unreadable, visits>>
fallen == <<lost, crashes>>
vars == <<stored, turn, outcome, fallen>>

-------------------------------------------------------------------------------
(* The objects.                                                            *)

Sections == {"pricing", "possession"}
Asks == Questions \cup {NoQuestion, Clarify}
Texts == [ask : Asks, grounded : BOOLEAN]
NoText == [ask |-> NoQuestion, grounded |-> TRUE]

Reasons == {"trigger", "model", "step_cap_breached", "site_visit_booked",
            "possession_and_price_asked", "qualification_complete",
            "clarification_exhausted"}

\* A message row: the buyer's, a reply, the holding line or the handoff line
\* (with the reply it carries).
Buyers == [kind |-> "buyer", ask |-> NoQuestion, grounded |-> TRUE]
Reply(text) == [kind |-> "reply", ask |-> text.ask, grounded |-> text.grounded]
Hold == [kind |-> "hold", ask |-> NoQuestion, grounded |-> TRUE]
Handoff(text) == [kind |-> "handoff", ask |-> text.ask, grounded |-> text.grounded]
Rows == [kind : {"buyer", "reply", "hold", "handoff"}, ask : Asks, grounded : BOOLEAN]

\* A tool call by what it leaves in the database: a failed one of any tool, a
\* read, get_property_details (also when it fails its args are logged), a
\* profile write, a confirmed booking, an escalation.  Sections given as one
\* string are accepted, but logged as letters, of which none is a section: {}.
Failed == {"failed", "detailsFailed", "detailsUnreadable"}
Call(tool, conv, of) == [tool |-> tool, conv |-> conv, of |-> of]
Named(c) == IF "misaddressed" \in Faults THEN Convs ELSE {c}
Calls(c) ==
    {Call(tool, c, {}) : tool \in {"failed", "read", "book"}}
    \cup {Call(tool, c, some) : tool \in {"details", "detailsFailed"},
                                some \in SUBSET Sections}
    \cup {Call("profile", d, some) : d \in Named(c), some \in SUBSET Fields \ {{}}}
    \cup {Call("escalate", d, {}) : d \in Named(c)}
    \cup {Call("detailsUnreadable", c, {}) : x \in Faults \cap {"badSections"}}
Batches(c) == UNION {[1 .. n -> Calls(c)] : n \in 0 .. MaxBatch}

\* A turn: where it is, the step of the model loop, the calls of the answer still
\* to dispatch, what its trace says, and the text it has for the buyer.  It waits
\* in "model", "repair" and "brief", and has just committed the user row in
\* "trigger", a tool's effect in "logging", the count in "evaluate" and the brief
\* in "handoff".
NoTurn == [pc |-> "idle", step |-> 0, rest |-> <<>>, progressed |-> FALSE,
           booked |-> FALSE, escalated |-> FALSE, text |-> NoText]
AllCalls ==
    [tool : {"read", "book", "escalate", "failed", "detailsUnreadable"}, conv : Convs, of : {{}}]
    \cup [tool : {"details", "detailsFailed"}, conv : Convs, of : SUBSET Sections]
    \cup [tool : {"profile"}, conv : Convs, of : SUBSET Fields]
Working == {"trigger", "dispatch", "logging", "evaluate", "handoff"}
Turns == [pc : {"idle", "model", "repair", "brief"} \cup Working, step : 0 .. StepCap,
          rest : Seq(AllCalls), progressed : BOOLEAN, booked : BOOLEAN,
          escalated : BOOLEAN, text : Texts]

LeadRows == [conv : Convs, reason : Reasons, brief : {"empty", "written", "template"}]
Lead(c, reason) == [conv |-> c, reason |-> reason, brief |-> "empty"]
HasLead(c) == \E i \in DOMAIN leads : leads[i].conv = c

\* One loop runs all turns: no other one is between two commits.
LoopFree(c) == \A d \in Convs \ {c} : turn[d].pc \notin Working

At(c, pc) == turn[c].pc = pc /\ LoopFree(c)

-------------------------------------------------------------------------------
(* What the steps are made of.                                             *)

\* The turn is over; row is the last it writes.
Ends(c, row, out) ==
    /\ talk' = [talk EXCEPT ![c] = Append(@, row)]
    /\ turn' = [turn EXCEPT ![c] = NoTurn]
    /\ outcome' = [outcome EXCEPT ![c] = out]

\* An exception left _run: run_turn's finally still sets a result.
Raises(c) ==
    /\ turn' = [turn EXCEPT ![c] = NoTurn]
    /\ outcome' = [outcome EXCEPT ![c] = "error"]
    /\ UNCHANGED talk

\* The turn goes on at pc, with text for the buyer.
GoesTo(c, pc, text) ==
    /\ turn' = [turn EXCEPT ![c].pc = pc, ![c].text = text]
    /\ UNCHANGED outcome

\* Mutant: every escalation inserts a row.
Escalated_Again(c, reason) == Append(leads, Lead(c, reason))

\* escalate_to_broker: the first row of a conversation stays the only one.
Escalated(c, reason) == IF HasLead(c) THEN leads ELSE Append(leads, Lead(c, reason))
EscalatedStatus(c) == IF HasLead(c) THEN status ELSE [status EXCEPT ![c] = "escalated"]

\* Mutant: the handoff line does not wait for the brief.
FinishEscalated_NoBrief(c, text, rows) == Ends(c, Handoff(text), "escalated")

\* finish_escalated: without a row, or with a brief in it, nothing is awaited.
FinishEscalated(c, text, rows) ==
    IF \E i \in DOMAIN rows : rows[i].conv = c /\ rows[i].brief = "empty"
    THEN GoesTo(c, "brief", text) /\ UNCHANGED talk
    ELSE Ends(c, Handoff(text), "escalated")

\* escalate: the tool, then the end of an escalating turn.
Escalate(c, reason, text) ==
    /\ leads' = Escalated(c, reason)
    /\ status' = EscalatedStatus(c)
    /\ FinishEscalated(c, text, Escalated(c, reason))

-------------------------------------------------------------------------------
Init ==
    /\ status = [c \in Convs |-> "active"]
    /\ count = [c \in Convs |-> 0]
    /\ talk = [c \in Convs |-> <<>>]
    /\ leads = <<>>
    /\ known = [c \in Convs |-> {}]
    /\ asked = [c \in Convs |-> {}]
    /\ unreadable = [c \in Convs |-> FALSE]
    /\ visits = [c \in Convs |-> 0]
    /\ turn = [c \in Convs |-> NoTurn]
    /\ outcome = [c \in Convs |-> "none"]
    /\ lost = {}
    /\ crashes = 0

Arrives(c) == At(c, "idle") /\ Len(talk[c]) < MaxTalk

\* A human owns the lead: store the message and stay silent.
StartSilent(c) ==
    /\ Arrives(c)
    /\ status[c] # "active"
    /\ Ends(c, Buyers, "silent")
    /\ UNCHANGED <<status, count, leads, known, asked, unreadable, visits, fallen>>

\* The buyer's message is stored and the turn goes on at pc.
Stored(c, pc) ==
    /\ talk' = [talk EXCEPT ![c] = Append(@, Buyers)]
    /\ turn' = [turn EXCEPT ![c] = [NoTurn EXCEPT !.pc = pc, !.step = 1]]
    /\ UNCHANGED <<status, count, leads, known, asked, unreadable, visits, outcome, fallen>>

\* triggers.match escalates before any model call.
StartTriggered(c) ==
    /\ Arrives(c)
    /\ status[c] = "active"
    /\ Stored(c, "trigger")

Triggered(c) ==
    /\ At(c, "trigger")
    /\ Escalate(c, "trigger", NoText)
    /\ UNCHANGED <<count, known, asked, unreadable, visits, fallen>>

\* Mutant: the status is not looked at.
StartModel_AnyStatus(c) ==
    /\ Arrives(c)
    /\ Stored(c, "model")

StartModel(c) ==
    /\ Arrives(c)
    /\ status[c] = "active"
    /\ Stored(c, "model")

\* Mutant: the exception is not caught.
ModelDown_Uncaught(c) ==
    /\ At(c, "model")
    /\ Raises(c)
    /\ UNCHANGED <<status, count, leads, known, asked, unreadable, visits, fallen>>

\* LLMUnavailable or an API error: the holding line, and the turn is over.
ModelDown(c) ==
    /\ At(c, "model")
    /\ Ends(c, Hold, "active")
    /\ UNCHANGED <<status, count, leads, known, asked, unreadable, visits, fallen>>

\* No choice in the answer, or tool_calls that is None, read outside any try.
ModelMalformed(c) ==
    /\ "malformed" \in Faults
    /\ turn[c].pc \in {"model", "repair", "brief"} /\ LoopFree(c)
    /\ Raises(c)
    /\ UNCHANGED <<status, count, leads, known, asked, unreadable, visits, fallen>>

ModelCallsTools(c, batch) ==
    /\ At(c, "model")
    /\ turn' = [turn EXCEPT ![c].pc = "dispatch", ![c].rest = batch, ![c].escalated = FALSE]
    /\ UNCHANGED <<stored, outcome, fallen>>

\* What one call of conversation c leaves behind: update_buyer_profile writes all
\* of its fields or none, book_site_visit confirms a visit, also one it made
\* before, and the args of every details call are logged.  The newest row of c is
\* the one its turn answers.
Known(call) ==
    IF call.tool = "profile" THEN [known EXCEPT ![call.conv] = @ \cup call.of] ELSE known
Visits(c, call) ==
    IF call.tool = "book" THEN [visits EXCEPT ![c] = Len(talk[c])] ELSE visits
Asked(c, call) ==
    IF call.tool \in {"details", "detailsFailed"} THEN [asked EXCEPT ![c] = @ \cup call.of]
    ELSE asked
Unreadable(c, call) == [unreadable EXCEPT ![c] = @ \/ call.tool = "detailsUnreadable"]

\* One call: the tool's own commit.
Dispatch(c) ==
    LET call == Head(turn[c].rest)
        escalates == call.tool = "escalate"
    IN  /\ At(c, "dispatch")
        /\ turn[c].rest # <<>>
        /\ leads' = IF escalates THEN Escalated(call.conv, "model") ELSE leads
        /\ status' = IF escalates THEN EscalatedStatus(call.conv) ELSE status
        /\ known' = Known(call)
        /\ visits' = Visits(c, call)
        /\ turn' = [turn EXCEPT ![c].pc = "logging"]
        /\ UNCHANGED <<count, talk, asked, unreadable, outcome, fallen>>

\* Mutant: a failed call of escalate_to_broker ends the turn, too.
LogCall_FailedEscalates(c) ==
    LET call == Head(turn[c].rest)
    IN  /\ At(c, "logging")
        /\ asked' = Asked(c, call)
        /\ unreadable' = Unreadable(c, call)
        /\ turn' = [turn EXCEPT ![c].pc = "dispatch",
                                ![c].rest = Tail(@),
                                ![c].progressed = @ \/ call.tool \notin Failed,
                                ![c].booked = @ \/ call.tool = "book",
                                ![c].escalated = @ \/ call.tool \in {"escalate", "failed"}]
        /\ UNCHANGED <<status, count, talk, leads, known, visits, outcome, fallen>>

\* Then its tool_calls row, and what the turn has of it.
LogCall(c) ==
    LET call == Head(turn[c].rest)
    IN  /\ At(c, "logging")
        /\ asked' = Asked(c, call)
        /\ unreadable' = Unreadable(c, call)
        /\ turn' = [turn EXCEPT ![c].pc = "dispatch",
                                ![c].rest = Tail(@),
                                ![c].progressed = @ \/ call.tool \notin Failed,
                                ![c].booked = @ \/ call.tool = "book",
                                ![c].escalated = @ \/ call.tool = "escalate"]
        /\ UNCHANGED <<status, count, talk, leads, known, visits, outcome, fallen>>

\* Mutants: the cap is missed by one step; the steps are not counted.
CapReached_Late(c) == turn[c].step > StepCap
NextStep_Uncounted(c) == turn[c].step

CapReached(c) == turn[c].step = StepCap
NextStep(c) == turn[c].step + 1

\* After the whole batch: hand off, give up at the step cap, or call the model again.
EndBatch(c) ==
    /\ At(c, "dispatch")
    /\ turn[c].rest = <<>>
    /\ \/ /\ turn[c].escalated
          /\ FinishEscalated(c, NoText, leads)
          /\ UNCHANGED <<status, leads>>
       \/ /\ ~turn[c].escalated /\ CapReached(c)
          /\ Escalate(c, "step_cap_breached", NoText)
       \/ /\ ~turn[c].escalated /\ ~CapReached(c)
          /\ turn' = [turn EXCEPT ![c].pc = "model", ![c].step = NextStep(c)]
          /\ UNCHANGED <<status, leads, talk, outcome>>
    /\ UNCHANGED <<count, known, asked, unreadable, visits, fallen>>

\* escalation._last_question of the newest assistant row.
Spoken(c) == {i \in DOMAIN talk[c] : talk[c][i].kind # "buyer"}
PreviousAsk(c) ==
    IF Spoken(c) = {} THEN NoQuestion
    ELSE talk[c][CHOOSE i \in Spoken(c) : \A j \in Spoken(c) : j <= i].ask

\* update_clarification_count: only the same question again, in a turn that
\* achieved nothing, counts.
NewCount(c, text) ==
    IF ~turn[c].progressed /\ text.ask # NoQuestion /\ text.ask = PreviousAsk(c)
    THEN count[c] + 1 ELSE 0

\* Mutants: the limit is missed by one; a booking, too, waits for an idle turn.
Exhausted_Over(c) == count[c] > ClarificationLimit
Booked_Waits(c) == turn[c].booked /\ ~turn[c].progressed

Exhausted(c) == count[c] >= ClarificationLimit
Booked(c) == turn[c].booked

\* escalation.evaluate.
Verdict(c) ==
    CASE HasLead(c) \/ status[c] = "escalated" -> "none"
      [] Booked(c) -> "site_visit_booked"
      [] asked[c] = Sections /\ ~turn[c].progressed -> "possession_and_price_asked"
      [] known[c] = Fields /\ ~turn[c].progressed -> "qualification_complete"
      [] Exhausted(c) -> "clarification_exhausted"
      [] OTHER -> "none"

\* evaluate cannot read the conversation's tool_calls rows.
EvaluateRaises(c) == unreadable[c] /\ ~HasLead(c) /\ status[c] # "escalated"

\* text passed the guard: the count is committed.
AfterGuard(c, text) ==
    /\ count' = [count EXCEPT ![c] = NewCount(c, text)]
    /\ GoesTo(c, "evaluate", text)
    /\ UNCHANGED <<status, talk, leads, known, asked, unreadable, visits, fallen>>

\* The evaluator, then the reply, or the handoff with the reply.
Evaluate(c) ==
    /\ At(c, "evaluate")
    /\ \/ /\ EvaluateRaises(c)
          /\ Raises(c)
          /\ UNCHANGED <<status, leads>>
       \/ /\ ~EvaluateRaises(c) /\ Verdict(c) = "none"
          /\ Ends(c, Reply(turn[c].text), "active")
          /\ UNCHANGED <<status, leads>>
       \/ /\ ~EvaluateRaises(c) /\ Verdict(c) # "none"
          /\ Escalate(c, Verdict(c), turn[c].text)
    /\ UNCHANGED <<count, known, asked, unreadable, visits, fallen>>

\* The model has text for the buyer; the guard lets it pass or asks for a repair.
ModelReplies(c, text) ==
    /\ At(c, "model")
    /\ \/ text.grounded /\ AfterGuard(c, text)
       \/ /\ ~text.grounded
          /\ turn' = [turn EXCEPT ![c].pc = "repair"]
          /\ UNCHANGED <<stored, outcome, fallen>>

Clarification == [ask |-> Clarify, grounded |-> TRUE]

\* Mutant: the repaired text is sent unchecked.
RepairReplies_Unchecked(c, text) ==
    /\ At(c, "repair")
    /\ AfterGuard(c, text)

\* The one repair: a text that is still not grounded is replaced.
RepairReplies(c, text) ==
    /\ At(c, "repair")
    /\ AfterGuard(c, IF text.grounded THEN text ELSE Clarification)

\* The repair call failed, or its text was empty.
RepairFails(c) ==
    /\ At(c, "repair")
    /\ AfterGuard(c, Clarification)

\* The writer answered, or failed and the template stands in.
BriefWritten(c, prose) ==
    /\ At(c, "brief")
    /\ leads' = [i \in DOMAIN leads |->
                   IF leads[i].conv = c THEN [leads[i] EXCEPT !.brief = prose] ELSE leads[i]]
    /\ GoesTo(c, "handoff", turn[c].text)
    /\ UNCHANGED <<status, count, talk, known, asked, unreadable, visits, fallen>>

\* The buyer gets the handoff line.
HandOff(c) ==
    /\ At(c, "handoff")
    /\ Ends(c, Handoff(turn[c].text), "escalated")
    /\ UNCHANGED <<status, count, leads, known, asked, unreadable, visits, fallen>>

\* The process dies between any two commits and comes back; the turns are gone.
Crash ==
    /\ crashes < MaxCrashes
    /\ crashes' = crashes + 1
    /\ lost' = lost \cup {<<c, Len(talk[c])>> : c \in {d \in Convs : turn[d].pc # "idle"}}
    /\ turn' = [c \in Convs |-> NoTurn]
    /\ UNCHANGED <<stored, outcome>>

Start(c) == StartSilent(c) \/ StartTriggered(c) \/ StartModel(c)

ModelStep(c) ==
    \/ ModelDown(c)
    \/ ModelMalformed(c)
    \/ \E batch \in Batches(c) : ModelCallsTools(c, batch)
    \/ \E text \in Texts : ModelReplies(c, text) \/ RepairReplies(c, text)
    \/ RepairFails(c)
    \/ \E prose \in {"written", "template"} : BriefWritten(c, prose)

Step(c) ==
    \/ ModelStep(c)
    \/ Triggered(c) \/ Dispatch(c) \/ LogCall(c) \/ EndBatch(c)
    \/ Evaluate(c) \/ HandOff(c)

\* Every buyer has been heard out: nothing is in flight and no turn may start.
Done == /\ \A c \in Convs : turn[c].pc = "idle" /\ Len(talk[c]) >= MaxTalk
        /\ UNCHANGED vars

Next == (\E c \in Convs : Start(c) \/ Step(c)) \/ Crash \/ Done

\* A model call returns or times out; the loop runs what is ready.
Fairness == \A c \in Convs : WF_vars(Step(c))

Spec == Init /\ [][Next]_vars /\ Fairness

-------------------------------------------------------------------------------
(* Properties.                                                             *)

\* Every variable has the shape its row or object has.
TypeOK ==
    /\ status \in [Convs -> {"active", "escalated"}]
    /\ count \in [Convs -> Nat]
    /\ talk \in [Convs -> Seq(Rows)]
    /\ leads \in Seq(LeadRows)
    /\ known \in [Convs -> SUBSET Fields]
    /\ asked \in [Convs -> SUBSET Sections]
    /\ unreadable \in [Convs -> BOOLEAN]
    /\ visits \in [Convs -> Nat]
    /\ turn \in [Convs -> Turns]
    /\ outcome \in [Convs -> {"none", "active", "silent", "escalated", "error"}]
    /\ lost \subseteq Convs \X Nat
    /\ crashes \in 0 .. MaxCrashes

\* The broker never inherits a lead twice, although the model, the triggers, the
\* step cap and the evaluator can each escalate (tools.py:634-641), and a
\* conversation is silent exactly when there is a lead for somebody to own.
OneLead ==
    /\ \A i, j \in DOMAIN leads : leads[i].conv = leads[j].conv => i = j
    /\ \A c \in Convs : status[c] = "escalated" <=> HasLead(c)

\* After the handoff line the agent never speaks in the conversation again
\* (D19, agent.py:319-320).
SilentAfterHandoff ==
    \A c \in Convs : \A i, j \in DOMAIN talk[c] :
        i < j /\ talk[c][i].kind = "handoff" => talk[c][j].kind = "buyer"

\* A conversation a human owns hears nothing but the handoff line, also when the turn
\* in flight began before: two voices never answer one buyer (agent.py:353-354).
OwnedStaysSilent ==
    [][\A c \in Convs : status[c] = "escalated" =>
          \A i \in DOMAIN talk'[c] \ DOMAIN talk[c] : talk'[c][i].kind \in {"buyer", "handoff"}]_vars

\* What the buyer reads was grounded in this turn's sources, on the direct path,
\* after the repair and when the reply is carried in front of a handoff line.
GroundedOnly ==
    \A c \in Convs : \A i \in DOMAIN talk[c] : talk[c][i].grounded

HandedOff(c) == \E i \in DOMAIN talk[c] : talk[c][i].kind = "handoff"
Briefed(c) == \E i \in DOMAIN leads : leads[i].conv = c /\ leads[i].brief # "empty"

\* A buyer who was told that a broker will call has a lead with a brief.
HandoffHonoured == \A c \in Convs : HandedOff(c) => Briefed(c)

\* The process died in a turn of c, and nothing was said in c since.
CutShort(c) ==
    \E cut \in lost :
        cut[1] = c /\ \A i \in DOMAIN talk[c] : i > cut[2] => talk[c][i].kind = "buyer"

\* A lead no turn works on any more has its brief and its handoff line, unless the
\* process died in the turn that made it: an escalation is never blocked by its own
\* brief (brief.py:17-18), and nothing but a crash can leave it half done.
LeadComplete ==
    \A c \in Convs :
        status[c] = "escalated" /\ turn[c].pc = "idle" =>
            (HandedOff(c) /\ Briefed(c)) \/ CutShort(c)

HeardOut(c) ==
    status[c] = "active" /\ turn[c].pc = "idle" /\ talk[c] # <<>> =>
        \/ talk[c][Len(talk[c])].kind # "buyer"
        \/ <<c, Len(talk[c])>> \in lost

\* A conversation the agent still owns is never left on a buyer's message, unless the
\* process died in the turn of that message.
NobodyIgnored == \A c \in Convs : HeardOut(c)

\* Stuck at its limit, a conversation is handed off in that very turn; a crash
\* between the two commits (escalation.py:271, tools.py:657) delays it by one
\* question, for the count is durable.
CountBelowLimit ==
    \A c \in Convs :
        status[c] = "active" /\ turn[c].pc = "idle" => count[c] < ClarificationLimit + crashes

\* A booked visit is handed off in its own turn (escalation.py:165).
BookedHandsOff ==
    \A c \in Convs : visits[c] # 0 /\ turn[c].pc = "idle" => status[c] = "escalated"

\* The turn that booked last was ended by the holding line, or by the process.
BookingHeld(c) ==
    \/ visits[c] + 1 \in DOMAIN talk[c] /\ talk[c][visits[c] + 1].kind = "hold"
    \/ <<c, visits[c]>> \in lost

\* The only way a booked visit stays without a handoff is that the model went
\* down, or the process, before the end of the very turn that booked it.
BookedOrHeld ==
    \A c \in Convs :
        visits[c] # 0 /\ turn[c].pc = "idle" => status[c] = "escalated" \/ BookingHeld(c)

\* The loop never crashes on model output (dispatch.py:8-10).
NoCrash == \A c \in Convs : outcome[c] # "error"

\* What the turn of c has when its conversation only ever escalates itself: an
\* escalation it counts on has its lead, a handoff line its brief, and nothing is
\* sent behind that line (agent.py 398, 319-326).
Addressed(c) ==
    /\ \A i \in DOMAIN turn[c].rest : turn[c].rest[i].conv = c
    /\ turn[c].escalated \/ turn[c].pc = "brief" => HasLead(c)
    /\ turn[c].pc = "logging" /\ Head(turn[c].rest).tool = "escalate" => HasLead(c)
    /\ turn[c].pc = "handoff" => Briefed(c)
    /\ HandedOff(c) => Briefed(c) /\ turn[c].pc = "idle"

\* The inductive invariant: a text kept for the buyer has passed the guard, a call
\* between its two commits is still there to be logged, and, with calls that name
\* their own conversation, every handoff has its lead.
Inv ==
    /\ TypeOK /\ OneLead /\ GroundedOnly
    /\ \A c \in Convs : turn[c].text.grounded
    /\ \A c \in Convs : turn[c].pc = "logging" => turn[c].rest # <<>>
    /\ "misaddressed" \notin Faults => SilentAfterHandoff /\ \A c \in Convs : Addressed(c)

AboutTo(c, tool) == turn[c].pc = "logging" /\ Head(turn[c].rest).tool = tool

\* How a turn without faults carries through what it began, until it is over or the
\* process dies: a lead to its handoff, a visit to a lead or the holding line, a
\* question too many to a lead (agent.py 379-383, escalation.py 165-184).
Carried(c) ==
    /\ HasLead(c) =>
          \/ turn[c].pc = "idle" /\ (HandedOff(c) \/ CutShort(c))
          \/ turn[c].pc \in {"brief", "handoff"}
          \/ turn[c].pc \in {"dispatch", "logging"} /\ turn[c].escalated
          \/ AboutTo(c, "escalate")
    /\ visits[c] # 0 =>
          \/ HasLead(c) \/ BookingHeld(c)
          \/ /\ turn[c].pc # "idle" /\ visits[c] = Len(talk[c])
             /\ turn[c].booked \/ AboutTo(c, "book")
    /\ \/ HasLead(c)
       \/ count[c] < ClarificationLimit + crashes
       \/ turn[c].pc = "evaluate" /\ count[c] = ClarificationLimit + crashes
    /\ ~unreadable[c] /\ \A i \in DOMAIN turn[c].rest : turn[c].rest[i].tool # "detailsUnreadable"
    /\ turn[c].pc = "idle" => turn[c] = NoTurn
    /\ HeardOut(c)

CarriedThrough == Faults = {} => \A c \in Convs : Carried(c)

\* Every turn ends, whatever the model keeps calling.
TurnEnds == \A c \in Convs : turn[c].pc # "idle" ~> turn[c].pc = "idle"

\* Every lead gets its brief, and its buyer the handoff line, unless the process
\* dies in the turn that made it.
LeadHandedOver ==
    \A c \in Convs : status[c] = "escalated" ~> (HandedOff(c) /\ Briefed(c)) \/ CutShort(c)
===============================================================================
