------------------------------ MODULE AgentProofs ------------------------------
(***************************************************************************)
(* The conversation as a whole is the debounce and the turns at once, and  *)
(* what a POST is told is what the broker will read, for any requests,     *)
(* times, limits, faults and restarts.                                     *)
(***************************************************************************)
EXTENDS Agent, SequenceTheorems, FiniteSetTheorems, TLAPS

\* What is proved of the debounce and of the turns.
DP == INSTANCE DebounceProofs
TP == INSTANCE TurnProofs WITH Convs <- {Conv}, MaxTalk <- 2 * Cardinality(Requests),
                               MaxCrashes <- MaxRestarts

-------------------------------------------------------------------------------
(* Both instances of a module say the same.                                *)

\* The turn seen from here and from its proofs is one and the same.
LEMMA SameTurn ==
    /\ T!Init <=> TP!Init
    /\ T!Start(Conv) <=> TP!Start(Conv)
    /\ T!Step(Conv) <=> TP!Step(Conv)
    /\ T!Crash <=> TP!Crash
    /\ T!Next <=> TP!Next
    /\ T!vars = TP!vars
    /\ T!Working = TP!Working
BY DEF T!FaultKinds, TP!FaultKinds, T!stored, TP!stored, T!fallen, TP!fallen, T!vars, TP!vars,
       T!Sections, TP!Sections, T!Asks, TP!Asks, T!Texts, TP!Texts, T!NoText, TP!NoText,
       T!Reasons, TP!Reasons, T!Buyers, TP!Buyers, T!Reply, TP!Reply, T!Hold, TP!Hold,
       T!Handoff, TP!Handoff, T!Rows, TP!Rows, T!Failed, TP!Failed, T!Call, TP!Call, T!Named,
       TP!Named, T!Calls, TP!Calls, T!Batches, TP!Batches, T!NoTurn, TP!NoTurn, T!AllCalls, TP!AllCalls,
       T!Working, TP!Working, T!Turns, TP!Turns, T!LeadRows, TP!LeadRows, T!Lead, TP!Lead,
       T!HasLead, TP!HasLead, T!LoopFree, TP!LoopFree, T!At, TP!At, T!Ends, TP!Ends, T!Raises,
       TP!Raises, T!GoesTo, TP!GoesTo, T!Escalated, TP!Escalated, T!EscalatedStatus,
       TP!EscalatedStatus, T!FinishEscalated, TP!FinishEscalated, T!Escalate, TP!Escalate,
       T!Init, TP!Init, T!Arrives, TP!Arrives, T!StartSilent, TP!StartSilent, T!Stored,
       TP!Stored, T!StartTriggered, TP!StartTriggered, T!Triggered, TP!Triggered, T!StartModel,
       TP!StartModel, T!ModelDown, TP!ModelDown, T!ModelMalformed, TP!ModelMalformed,
       T!ModelCallsTools, TP!ModelCallsTools, T!Known, TP!Known, T!Visits, TP!Visits, T!Asked,
       TP!Asked, T!Unreadable, TP!Unreadable, T!Dispatch, TP!Dispatch, T!LogCall, TP!LogCall,
       T!CapReached, TP!CapReached, T!NextStep, TP!NextStep, T!EndBatch, TP!EndBatch, T!Spoken,
       TP!Spoken, T!PreviousAsk, TP!PreviousAsk, T!NewCount, TP!NewCount, T!Exhausted,
       TP!Exhausted, T!Booked, TP!Booked, T!Verdict, TP!Verdict, T!EvaluateRaises,
       TP!EvaluateRaises, T!AfterGuard, TP!AfterGuard, T!Evaluate, TP!Evaluate, T!ModelReplies,
       TP!ModelReplies, T!Clarification, TP!Clarification, T!RepairReplies, TP!RepairReplies,
       T!RepairFails, TP!RepairFails, T!BriefWritten, TP!BriefWritten, T!HandOff, TP!HandOff,
       T!Crash, TP!Crash, T!Start, TP!Start, T!ModelStep, TP!ModelStep, T!Step, TP!Step,
       T!Done, TP!Done, T!Next, TP!Next

\* The debounce seen from here and from its proofs is one and the same.
LEMMA SameDebounce ==
    /\ D!Init <=> DP!Init
    /\ \A r \in Requests, id \in D!Ids :
          (D!InboundDuplicate(r, id) \/ D!InboundAccept(r, id))
             <=> (DP!InboundDuplicate(r, id) \/ DP!InboundAccept(r, id))
    /\ \A t \in DOMAIN tasks :
          /\ D!SleepOn(t) <=> DP!SleepOn(t)
          /\ D!Fire(t) <=> DP!Fire(t)
          /\ D!Grant(t) <=> DP!Grant(t)
          /\ \A result : D!FinishTurn(t, result) <=> DP!FinishTurn(t, result)
    /\ \A r \in Requests : D!Return(r) <=> DP!Return(r)
    /\ D!Tick <=> DP!Tick
    /\ D!Restart <=> DP!Restart
    /\ D!Next <=> DP!Next
    /\ D!vars = DP!vars
    /\ D!Ids = DP!Ids
BY DEF D!vars, DP!vars, D!Ids, DP!Ids, D!Results, DP!Results, D!Batch, DP!Batch, D!EmptyBatch,
       DP!EmptyBatch, D!Task, DP!Task, D!Inbound, DP!Inbound, D!IdleRequest, DP!IdleRequest,
       D!cur, DP!cur, D!current, DP!current, D!Min2, DP!Min2, D!Deadline, DP!Deadline,
       D!Duplicate, DP!Duplicate, D!TimerIdle, DP!TimerIdle, D!Due, DP!Due, D!Grantable,
       DP!Grantable, D!Horizon, DP!Horizon, D!Init, DP!Init, D!InboundDuplicate,
       DP!InboundDuplicate, D!Joined, DP!Joined, D!EnsureTimer, DP!EnsureTimer,
       D!InboundAccept, DP!InboundAccept, D!SleepOn, DP!SleepOn, D!Drain, DP!Drain, D!Fire,
       DP!Fire, D!Grant, DP!Grant, D!FinishTurn, DP!FinishTurn, D!StatusFor, DP!StatusFor,
       D!Return, DP!Return, D!Tick, DP!Tick, D!Restart, DP!Restart, D!Quiet, DP!Quiet,
       D!Arrival, DP!Arrival, D!LoopStep, DP!LoopStep, D!Next, DP!Next

-------------------------------------------------------------------------------
(* The agent refines both: every step is a step of the debounce or leaves  *)
(* it alone, and a step of the turns or leaves them alone.                 *)

\* A step that is one of the debounce only, with the loop free.
Bustle ==
    /\ \/ DP!Arrival
       \/ \E t \in DOMAIN tasks : DP!SleepOn(t) \/ DP!Fire(t) \/ DP!Grant(t)
       \/ \E r \in Requests : DP!Return(r)
       \/ DP!Tick
       \/ UNCHANGED DP!vars
    /\ UNCHANGED <<rows, conversation>>

\* A drain, and with it a turn that starts.
Begin ==
    /\ \E t \in DOMAIN tasks : DP!Fire(t) \/ DP!Grant(t)
    /\ rows' # rows
    /\ TP!Start(Conv)

\* The end of a turn.
End == Ended /\ (\E t \in DOMAIN tasks : DP!FinishTurn(t, Result)) /\ UNCHANGED conversation

\* What a step of the conversation is: the bustle around the turn, its beginning, a
\* step of the turn itself, its end, or a restart.
LEMMA StepKinds ==
    [Next]_vars =>
        \/ Bustle
        \/ Begin
        \/ TP!Step(Conv) /\ UNCHANGED inbound
        \/ End
        \/ DP!Restart /\ TP!Crash
<1>. SUFFICES ASSUME [Next]_vars
              PROVE  \/ Bustle
                     \/ Begin
                     \/ TP!Step(Conv) /\ UNCHANGED inbound
                     \/ End
                     \/ DP!Restart /\ TP!Crash
  OBVIOUS
<1>1. ASSUME NEW r \in Requests, NEW id \in D!Ids, Inbound(r, id) PROVE Bustle
  BY <1>1, SameDebounce DEF Inbound, Debounces, Drains, Bustle, DP!Arrival
<1>2. ASSUME NEW t \in DOMAIN tasks, Timers(t) PROVE Bustle \/ Begin
  BY <1>2, SameDebounce, SameTurn DEF Timers, Debounces, Starts, Drains, Bustle, Begin
<1>3. ASSUME NEW t \in DOMAIN tasks, EndTurn(t) PROVE End
  BY <1>3, SameDebounce DEF EndTurn, End
<1>4. CASE (\E r \in Requests : Return(r)) \/ Tick
  BY <1>4, SameDebounce DEF Return, Tick, Debounces, Drains, Bustle
<1>5. CASE Turning
  BY <1>5, SameTurn DEF Turning
<1>6. CASE Restart
  BY <1>6, SameTurn, SameDebounce DEF Restart
<1>7. CASE Quiet \/ UNCHANGED vars
  BY <1>7 DEF Quiet, Bustle, vars, inbound, D!Quiet, D!vars, DP!vars
<1>. QED
  BY <1>1, <1>2, <1>3, <1>4, <1>5, <1>6, <1>7 DEF Next

\* What a turn ended with is a result of the debounce, and never that it goes on.
LEMMA ResultTyped == Result \in DP!Results \ {"none"}
BY DEF Result, DP!Results

\* Every step of the conversation is a step of the debounce and one of the turns, or
\* leaves them as they are.
LEMMA RefinesBoth == [Next]_vars => [DP!Next]_(DP!vars) /\ [TP!Next]_(TP!vars)
<1>. SUFFICES ASSUME [Next]_vars PROVE [DP!Next]_(DP!vars) /\ [TP!Next]_(TP!vars)
  OBVIOUS
<1>1. CASE Bustle
  BY <1>1 DEF Bustle, DP!Next, DP!LoopStep, TP!vars, TP!stored, TP!fallen, conversation
<1>2. CASE Begin
  BY <1>2 DEF Begin, DP!Next, DP!LoopStep, TP!Next
<1>3. CASE TP!Step(Conv) /\ UNCHANGED inbound
  BY <1>3 DEF inbound, DP!vars, TP!Next
<1>4. CASE End
  BY <1>4, ResultTyped
     DEF End, DP!Next, DP!LoopStep, TP!vars, TP!stored, TP!fallen, conversation
<1>5. CASE DP!Restart /\ TP!Crash
  BY <1>5 DEF DP!Next, TP!Next
<1>. QED
  BY <1>1, <1>2, <1>3, <1>4, <1>5, StepKinds

\* What a step of the whole does to the inbound side is what the debounce alone may
\* do, and its turns are turns: what is proved of either holds of them together
\* (agent.py 131-155, 434-451).
THEOREM AgentRefines ==
    Spec => /\ D!Init /\ [][D!Next]_(D!vars)
            /\ T!Init /\ [][T!Next]_(T!vars)
<1>1. Init => D!Init /\ T!Init
  BY DEF Init
<1>2. [Next]_vars => [D!Next]_(D!vars) /\ [T!Next]_(T!vars)
  BY RefinesBoth, SameDebounce, SameTurn
     DEF D!vars, DP!vars, T!vars, TP!vars, T!stored, TP!stored, T!fallen, TP!fallen
<1>. QED
  BY <1>1, <1>2, PTL DEF Spec

Both ==
    /\ DP!Inv /\ DP!Voices /\ DP!TurnAgrees /\ DP!RowsAccepted
    /\ TP!Inv

\* The inductive invariants of both parts hold at the start.
LEMMA BothInit == Init => Both
<1>. SUFFICES ASSUME Init PROVE Both
  OBVIOUS
<1>1. DP!Init /\ TP!Init
  BY SameDebounce, SameTurn DEF Init
<1>2. DP!Inv /\ DP!Voices /\ DP!TurnAgrees
  BY <1>1, DP!InvInit, DP!VoicesInit, DP!MailboxInit, AgentAssumption
     DEF D!NoIdAssumption, D!TimesAssumption
<1>3. DP!RowsAccepted
  BY <1>1 DEF DP!Init, DP!RowsAccepted
<1>4. TP!Inv
  BY <1>1, TP!InvInit, AgentAssumption DEF T!QuestionsAssumption, T!TurnLimitsAssumption, T!FaultKinds, TP!FaultKinds
<1>. QED
  BY <1>2, <1>3, <1>4 DEF Both

\* The inductive invariants of both parts outlast every step.
LEMMA BothStep == Both /\ [Next]_vars => Both'
<1>. SUFFICES ASSUME Both, [Next]_vars PROVE Both'
  OBVIOUS
<1>1. [DP!Next]_(DP!vars) /\ [TP!Next]_(TP!vars)
  BY RefinesBoth
<1>2. DP!Inv' /\ DP!Voices' /\ DP!TurnAgrees' /\ DP!RowsAccepted'
  BY <1>1, DP!InvStep, DP!VoicesStep, DP!MailboxStep, DP!RowsAcceptedStep, AgentAssumption
     DEF Both, D!NoIdAssumption, D!TimesAssumption
<1>3. TP!Inv'
  BY <1>1, TP!InvStep, AgentAssumption DEF Both, T!QuestionsAssumption, T!TurnLimitsAssumption, T!FaultKinds, TP!FaultKinds
<1>. QED
  BY <1>2, <1>3 DEF Both

-------------------------------------------------------------------------------
(* Rows of the buyer, and what is behind them.                             *)

\* The shapes that what follows relies on.
LEMMA Shapes ==
    ASSUME Both
    PROVE  /\ talk[Conv] \in Seq(TP!Rows) /\ Len(talk[Conv]) \in Nat
           /\ DOMAIN talk[Conv] = 1 .. Len(talk[Conv])
           /\ status[Conv] \in {"active", "escalated"}
           /\ DOMAIN rows = 1 .. Len(rows) /\ Len(rows) \in Nat
           /\ DOMAIN batches = 1 .. Len(batches) /\ Len(batches) \in Nat
           /\ holder # 0 => tasks[holder].drained \in DOMAIN batches
<1>1. talk[Conv] \in Seq(TP!Rows) /\ status[Conv] \in {"active", "escalated"}
  BY DEF Both, TP!Inv, TP!TypeOK
<1>2. Len(talk[Conv]) \in Nat /\ DOMAIN talk[Conv] = 1 .. Len(talk[Conv])
  BY <1>1, LenProperties
<1>3. DP!TypeOK /\ DP!TasksAgree
  BY DEF Both, DP!Inv
<1>4. /\ DOMAIN rows = 1 .. Len(rows) /\ Len(rows) \in Nat
      /\ DOMAIN batches = 1 .. Len(batches) /\ Len(batches) \in Nat
      /\ holder # 0 => holder \in DOMAIN tasks
  BY <1>3, DP!Typed, AgentAssumption DEF D!NoIdAssumption, D!TimesAssumption, DP!cur
<1>5. holder # 0 => tasks[holder].drained \in DOMAIN batches
  BY <1>3, <1>4 DEF DP!TasksAgree
<1>. QED
  BY <1>1, <1>2, <1>4, <1>5

\* The last fragment of a row was accepted, into a batch that was made.
LEMMA LastAccepted ==
    ASSUME Both, NEW n \in DOMAIN rows, rows[n].texts # <<>>
    PROVE  /\ LastOf(n) \in Requests /\ DP!Accepted(LastOf(n))
           /\ req[LastOf(n)].batch \in DOMAIN batches
<1>1. /\ rows[n].texts \in Seq(Requests)
      /\ DOMAIN rows[n].texts = 1 .. Len(rows[n].texts) /\ Len(rows[n].texts) \in Nat
      /\ \A m \in DOMAIN rows[n].texts : rows[n].texts[m] \in Requests
  BY DP!RowTextsTyped, AgentAssumption DEF Both, D!NoIdAssumption, D!TimesAssumption
<1>2. Len(rows[n].texts) \in DOMAIN rows[n].texts
  BY <1>1, EmptySeq
<1>3. LastOf(n) \in Requests /\ DP!Accepted(LastOf(n))
  BY <1>1, <1>2 DEF Both, DP!RowsAccepted, LastOf
<1>. QED
  BY <1>3 DEF Both, DP!Voices, DP!Heard

\* A row of its own does not change what was heard before it.
LEMMA HeardGrows ==
    ASSUME talk[Conv] \in Seq(TP!Rows), NEW row \in TP!Rows, talk'[Conv] = Append(talk[Conv], row)
    PROVE  /\ Len(talk'[Conv]) = Len(talk[Conv]) + 1 /\ Len(talk[Conv]) \in Nat
           /\ DOMAIN talk'[Conv] = 1 .. Len(talk[Conv]) + 1
           /\ DOMAIN talk[Conv] = 1 .. Len(talk[Conv])
           /\ \A i \in DOMAIN talk[Conv] :
                 talk'[Conv][i] = talk[Conv][i] /\ (Follows(i) => Follows(i)')
           /\ \A i \in 0 .. Len(talk[Conv]) : Heard(i)' = Heard(i)
           /\ \A i \in DOMAIN talk[Conv] : \A n : Nth(i, n)' <=> Nth(i, n)
           /\ talk'[Conv][Len(talk[Conv]) + 1] = row
           /\ IF row.kind = "buyer"
              THEN Cardinality(Heard(Len(talk[Conv])))' = Cardinality(Heard(Len(talk[Conv]))) + 1
              ELSE Heard(Len(talk[Conv]))' = Heard(Len(talk[Conv]))
<1>1. /\ Len(talk'[Conv]) = Len(talk[Conv]) + 1 /\ Len(talk[Conv]) \in Nat
      /\ DOMAIN talk'[Conv] = 1 .. Len(talk[Conv]) + 1
      /\ DOMAIN talk[Conv] = 1 .. Len(talk[Conv])
      /\ \A i \in DOMAIN talk[Conv] : talk'[Conv][i] = talk[Conv][i]
      /\ talk'[Conv][Len(talk[Conv]) + 1] = row
  BY AppendProperties, LenProperties
<1>2. \A i \in DOMAIN talk[Conv] : Follows(i) => Follows(i)'
  BY <1>1 DEF Follows
<1>3. \A i \in 0 .. Len(talk[Conv]) : Heard(i)' = Heard(i)
  BY <1>1 DEF Heard
<1>4. \A i \in DOMAIN talk[Conv] : \A n : Nth(i, n)' <=> Nth(i, n)
  BY <1>1, <1>3 DEF Nth
<1>5. Heard(Len(talk[Conv]))'
        = Heard(Len(talk[Conv])) \cup {j \in {Len(talk[Conv]) + 1} : row.kind = "buyer"}
  BY <1>1 DEF Heard
<1>6. Heard(Len(talk[Conv])) \subseteq 1 .. Len(talk[Conv])
      /\ Len(talk[Conv]) + 1 \notin Heard(Len(talk[Conv]))
  BY <1>1 DEF Heard
<1>7. IsFiniteSet(Heard(Len(talk[Conv])))
  <2>1. IsFiniteSet(1 .. Len(talk[Conv]))
    BY <1>1, FS_Interval
  <2>. QED
    BY <1>6, <2>1, FS_Subset
<1>8. Cardinality(Heard(Len(talk[Conv])) \cup {Len(talk[Conv]) + 1})
        = Cardinality(Heard(Len(talk[Conv]))) + 1
  BY <1>6, <1>7, FS_AddElement
<1>9. IF row.kind = "buyer"
      THEN Cardinality(Heard(Len(talk[Conv])))' = Cardinality(Heard(Len(talk[Conv]))) + 1
      ELSE Heard(Len(talk[Conv]))' = Heard(Len(talk[Conv]))
  <2>. DEFINE heard == Heard(Len(talk[Conv]))
  <2>1. CASE row.kind = "buyer"
    <3>1. heard' = heard \cup {Len(talk[Conv]) + 1}
      BY <1>5, <2>1
    <3>2. Cardinality(heard)' = Cardinality(heard \cup {Len(talk[Conv]) + 1})
      BY <3>1
    <3>. QED
      BY <1>8, <2>1, <3>2
  <2>2. CASE row.kind # "buyer"
    BY <1>5, <2>2
  <2>. QED
    BY <2>1, <2>2
<1>. QED
  BY <1>1, <1>2, <1>3, <1>4, <1>9

-------------------------------------------------------------------------------
(* Replies stay behind the rows they answer.                               *)

\* When no row is made, the last fragment of each stays where it is.
LEMMA LastStays ==
    ASSUME Both, [DP!Next]_(DP!vars), UNCHANGED rows,
           NEW n \in DOMAIN rows, rows[n].texts # <<>>
    PROVE  LastOf(n)' = LastOf(n) /\ req'[LastOf(n)].batch = req[LastOf(n)].batch
<1>1. LastOf(n)' = LastOf(n)
  BY DEF LastOf
<1>. DEFINE r == LastOf(n)
<1>2. r \in Requests /\ DP!Accepted(r)
  BY LastAccepted
<1>3. DP!Inv /\ DP!Voices
  BY DEF Both
<1>. HIDE DEF r
<1>4. req'[r].batch = req[r].batch
  BY <1>2, <1>3, DP!AcceptedStays, AgentAssumption DEF D!NoIdAssumption, D!TimesAssumption
<1>. QED
  BY <1>1, <1>4 DEF r

\* Nothing that a row's answer is about changes.
LEMMA AnswersStay ==
    ASSUME Both, RowsAnswered, [DP!Next]_(DP!vars), UNCHANGED <<rows, talk, status>>,
           Len(batches') >= Len(batches), Len(batches') \in Nat,
           \A b \in DOMAIN batches : b # Len(batches) =>
               batches'[b].result = batches[b].result /\ b # Len(batches')
    PROVE  RowsAnswered'
<1>. SUFFICES ASSUME NEW n \in DOMAIN rows
              PROVE  /\ rows[n].texts # <<>> /\ req'[LastOf(n)'].batch # Len(batches')
                     /\ batches'[req'[LastOf(n)'].batch].result = "reply" =>
                           \A i \in DOMAIN talk[Conv] :
                               Nth(i, n)' => Follows(i)' \/ status[Conv] = "escalated"
  BY DEF RowsAnswered
<1>1. rows[n].texts # <<>> /\ req[LastOf(n)].batch # Len(batches)
  BY DEF RowsAnswered
<1>2. LastOf(n)' = LastOf(n) /\ req'[LastOf(n)].batch = req[LastOf(n)].batch
      /\ req[LastOf(n)].batch \in DOMAIN batches
  BY <1>1, LastStays, LastAccepted
<1>3. \A i \in DOMAIN talk[Conv] : (Nth(i, n)' <=> Nth(i, n)) /\ (Follows(i)' <=> Follows(i))
  BY DEF Nth, Heard, Follows
<1>. QED
  BY <1>1, <1>2, <1>3 DEF RowsAnswered

\* What goes on around a turn touches neither its row nor its answer.
LEMMA BustleReplies ==
    ASSUME Both, RepliesInv, Bustle
    PROVE  RepliesInv'
<1>1. [DP!Next]_(DP!vars)
  BY DEF Bustle, DP!Next, DP!LoopStep
<1>2. /\ holder' = holder /\ Len(batches') = Len(batches)
      /\ \A b \in DOMAIN batches : b # Len(batches) => batches'[b] = batches[b]
      /\ holder # 0 => tasks'[holder].drained = tasks[holder].drained
  BY DP!BatchesKept, AgentAssumption
     DEF Bustle, Both, D!NoIdAssumption, D!TimesAssumption, DP!cur
<1>3. UNCHANGED <<rows, talk, status, turn, outcome>>
  BY DEF Bustle, conversation
<1>4. TurnAnswers' /\ (Cardinality(Heard(Len(talk[Conv]))) = Len(rows))'
  BY <1>2, <1>3 DEF RepliesInv, TurnAnswers, InTurn, Ended, Heard
<1>5. RowsAnswered'
  <2>1. Len(batches) \in Nat /\ Len(batches') \in Nat /\ Len(batches') >= Len(batches)
    BY <1>2, Shapes
  <2>2. \A b \in DOMAIN batches : b # Len(batches) =>
            batches'[b].result = batches[b].result /\ b # Len(batches')
    BY <1>2
  <2>3. RowsAnswered /\ UNCHANGED <<rows, talk, status>>
    BY <1>3 DEF RepliesInv
  <2>. QED
    BY <1>1, <2>1, <2>2, <2>3, AnswersStay
<1>6. DrainedIsNewest'
  BY <1>1, <1>2, <1>3, LastStays DEF RepliesInv, DrainedIsNewest, RowsAnswered
<1>. QED
  BY <1>4, <1>5, <1>6 DEF RepliesInv

\* A step of the turn appends to the conversation and answers nobody yet.
LEMMA SpeakReplies ==
    ASSUME Both, RepliesInv, TP!Step(Conv), UNCHANGED inbound
    PROVE  RepliesInv'
<1>1. UNCHANGED <<rows, batches, tasks, holder, req>>
  BY DEF inbound
<1>2. TP!TypeOK /\ [TP!Next]_(TP!vars)
  BY DEF Both, TP!Inv, TP!Next
<1>3. turn[Conv].pc # "idle" /\ TP!Speaks(Conv)
  BY <1>2, TP!SpeaksOnce, AgentAssumption
     DEF T!QuestionsAssumption, T!TurnLimitsAssumption, T!FaultKinds, TP!FaultKinds
<1>4. status[Conv] = "escalated" => status'[Conv] = "escalated"
  BY <1>2, TP!StaysEscalated, AgentAssumption
     DEF T!QuestionsAssumption, T!TurnLimitsAssumption, T!FaultKinds, TP!FaultKinds
<1>5. DrainedIsNewest'
  BY <1>1 DEF RepliesInv, DrainedIsNewest, LastOf
<1>6. /\ talk[Conv] \in Seq(TP!Rows) /\ Len(talk[Conv]) \in Nat /\ holder # 0
      /\ DOMAIN talk[Conv] = 1 .. Len(talk[Conv])
      /\ Len(talk[Conv]) # 0 /\ talk[Conv][Len(talk[Conv])].kind = "buyer"
  BY <1>3, Shapes DEF RepliesInv, TurnAnswers, InTurn
<1>7. CASE talk'[Conv] = talk[Conv] /\ (turn'[Conv].pc # "idle" \/ outcome'[Conv] = "error")
  <2>1. TurnAnswers'
    BY <1>1, <1>6, <1>7 DEF TurnAnswers, InTurn, Ended
  <2>2. (Cardinality(Heard(Len(talk[Conv]))) = Len(rows))'
    BY <1>1, <1>7 DEF RepliesInv, Heard
  <2>3. RowsAnswered'
    <3>1. \A i, n : (Nth(i, n)' <=> Nth(i, n)) /\ (Follows(i)' <=> Follows(i))
      BY <1>7 DEF Nth, Heard, Follows
    <3>. QED
      BY <1>1, <1>4, <1>7, <3>1 DEF RepliesInv, RowsAnswered, LastOf
  <2>. QED
    BY <1>5, <2>1, <2>2, <2>3 DEF RepliesInv
<1>8. ASSUME NEW row \in TP!Rows, row.kind # "buyer", talk'[Conv] = Append(talk[Conv], row),
             turn'[Conv].pc = "idle"
      PROVE  RepliesInv'
  <2>1. /\ Len(talk'[Conv]) = Len(talk[Conv]) + 1
        /\ DOMAIN talk'[Conv] = 1 .. Len(talk[Conv]) + 1
        /\ \A i \in DOMAIN talk[Conv] :
              talk'[Conv][i] = talk[Conv][i] /\ (Follows(i) => Follows(i)')
        /\ \A i \in DOMAIN talk[Conv] : \A n : Nth(i, n)' <=> Nth(i, n)
        /\ talk'[Conv][Len(talk[Conv]) + 1] = row
        /\ Heard(Len(talk[Conv]))' = Heard(Len(talk[Conv]))
    BY <1>6, <1>8, HeardGrows
  <2>2. TurnAnswers'
    <3>1. ~InTurn'
      BY <1>8 DEF InTurn
    <3>2. Len(talk'[Conv]) - 1 = Len(talk[Conv]) /\ Len(talk'[Conv]) > 1
      BY <1>6, <2>1
    <3>3. talk'[Conv][Len(talk[Conv])].kind = "buyer" /\ talk'[Conv][Len(talk'[Conv])] = row
      BY <1>6, <2>1
    <3>. QED
      BY <1>8, <3>1, <3>2, <3>3 DEF TurnAnswers
  <2>3. (Cardinality(Heard(Len(talk[Conv]))) = Len(rows))'
    BY <1>1, <2>1 DEF RepliesInv
  <2>4. RowsAnswered'
    <3>1. ASSUME NEW n \in DOMAIN rows, batches[req[LastOf(n)].batch].result = "reply",
                 NEW i \in DOMAIN talk'[Conv], Nth(i, n)'
          PROVE  Follows(i)' \/ status'[Conv] = "escalated"
      <4>1. i \in DOMAIN talk[Conv] \/ i = Len(talk[Conv]) + 1
        BY <1>6, <2>1
      <4>2. i # Len(talk[Conv]) + 1
        BY <1>8, <2>1, <3>1 DEF Nth
      <4>3. Follows(i) \/ status[Conv] = "escalated"
        BY <2>1, <3>1, <4>1, <4>2 DEF RepliesInv, RowsAnswered
      <4>. QED
        BY <1>4, <2>1, <4>1, <4>2, <4>3
    <3>. QED
      BY <1>1, <3>1 DEF RepliesInv, RowsAnswered, LastOf
  <2>. QED
    BY <1>5, <2>2, <2>3, <2>4 DEF RepliesInv
<1>. QED
  BY <1>3, <1>7, <1>8 DEF TP!Speaks

\* A restart loses the requests that wait; the rows stay.
LEMMA RestartReplies ==
    ASSUME Both, RepliesInv, DP!Restart, TP!Crash
    PROVE  RepliesInv'
<1>1. /\ holder' = 0 /\ turn'[Conv].pc = "idle" /\ UNCHANGED <<rows, talk, status>>
      /\ batches' = Append(batches, DP!EmptyBatch)
  BY DEF DP!Restart, TP!Crash, TP!NoTurn, TP!stored
<1>2. [DP!Next]_(DP!vars)
  BY DEF DP!Next
<1>3. batches \in Seq(DP!Batch) /\ DP!EmptyBatch \in DP!Batch
  BY DP!EmptyIsBatch, AgentAssumption
     DEF Both, DP!Inv, DP!TypeOK, D!NoIdAssumption, D!TimesAssumption
<1>4. /\ Len(batches') = Len(batches) + 1 /\ Len(batches) \in Nat
      /\ DOMAIN batches = 1 .. Len(batches)
      /\ \A b \in DOMAIN batches : batches'[b] = batches[b]
  BY <1>1, <1>3, AppendProperties, LenProperties
<1>5. RowsAnswered'
  BY <1>1, <1>2, <1>4, AnswersStay DEF RepliesInv
<1>6. TurnAnswers' /\ DrainedIsNewest' /\ (Cardinality(Heard(Len(talk[Conv]))) = Len(rows))'
  BY <1>1 DEF TurnAnswers, InTurn, Ended, DrainedIsNewest, RepliesInv, Heard
<1>. QED
  BY <1>5, <1>6 DEF RepliesInv

\* A turn begins with the drained buffer as the newest row.
LEMMA BeginReplies ==
    ASSUME Both, RepliesInv, Begin
    PROVE  RepliesInv'
<1>. DEFINE last == Len(talk[Conv])
<1>. PICK new : new = Len(rows) + 1
  OBVIOUS
<1>1. DP!RowFromBuffer /\ UNCHANGED <<req>>
  <2>1. [DP!Next]_(DP!vars) /\ rows' # rows
    BY DEF Begin, DP!Next, DP!LoopStep
  <2>2. DP!RowFromBuffer
    BY <2>1, DP!RowSteps, AgentAssumption DEF Both, D!NoIdAssumption, D!TimesAssumption
  <2>. QED
    BY <2>2 DEF DP!RowFromBuffer
<1>2. /\ Len(rows') = new /\ DOMAIN rows' = 1 .. new
      /\ \A n \in DOMAIN rows : rows'[n] = rows[n]
      /\ rows'[new].texts = batches[Len(batches)].texts
      /\ Len(batches') = Len(batches) + 1 /\ batches'[Len(batches)].result = "none"
      /\ \A b \in DOMAIN batches : batches'[b].result = batches[b].result
  BY <1>1, DP!RowMade, AgentAssumption DEF Both, DP!cur, D!NoIdAssumption, D!TimesAssumption
<1>3. /\ talk'[Conv] = Append(talk[Conv], TP!Buyers) /\ UNCHANGED status
      /\ turn'[Conv].pc # "idle" \/ status[Conv] = "escalated"
      /\ TP!Buyers \in TP!Rows /\ TP!Buyers.kind = "buyer"
  <2>1. /\ talk \in [{Conv} -> Seq(TP!Rows)] /\ turn \in [{Conv} -> TP!Turns]
        /\ status \in [{Conv} -> {"active", "escalated"}]
    BY DEF Both, TP!Inv, TP!TypeOK
  <2>2. TP!Buyers \in TP!Rows /\ TP!Buyers.kind = "buyer"
    BY DEF TP!Buyers, TP!Rows, TP!Asks
  <2>3. TP!Start(Conv)
    BY DEF Begin
  <2>4. CASE TP!StartSilent(Conv)
    BY <2>1, <2>2, <2>4 DEF TP!StartSilent, TP!Ends
  <2>5. ASSUME NEW pc \in {"trigger", "model"}, TP!Stored(Conv, pc)
        PROVE  /\ talk'[Conv] = Append(talk[Conv], TP!Buyers) /\ UNCHANGED status
               /\ turn'[Conv].pc # "idle"
    BY <2>1, <2>5 DEF TP!Stored, TP!NoTurn
  <2>. QED
    BY <2>2, <2>3, <2>4, <2>5 DEF TP!Start, TP!StartTriggered, TP!StartModel
<1>4. /\ talk[Conv] \in Seq(TP!Rows) /\ DOMAIN rows = 1 .. Len(rows) /\ Len(rows) \in Nat
      /\ DOMAIN batches = 1 .. Len(batches) /\ Len(batches) \in Nat
  BY Shapes
<1>5. /\ Len(talk'[Conv]) = last + 1 /\ last \in Nat
      /\ DOMAIN talk'[Conv] = 1 .. last + 1 /\ DOMAIN talk[Conv] = 1 .. last
      /\ \A i \in DOMAIN talk[Conv] : Follows(i) => Follows(i)'
      /\ \A i \in DOMAIN talk[Conv] : \A n : Nth(i, n)' <=> Nth(i, n)
      /\ talk'[Conv][last + 1].kind = "buyer"
      /\ Cardinality(Heard(last))' = Cardinality(Heard(last)) + 1
  BY <1>3, <1>4, HeardGrows
<1>6. (Cardinality(Heard(last)) = Len(rows))'
  BY <1>2, <1>5 DEF RepliesInv
<1>7. rows'[new].texts # <<>> /\ req'[LastOf(new)'].batch = Len(batches)
  <2>. DEFINE texts == batches[Len(batches)].texts
  <2>1. texts # <<>>
    BY <1>1 DEF DP!RowFromBuffer, DP!current, DP!cur
  <2>2. Len(texts) \in DOMAIN texts /\ Len(batches) \in DOMAIN batches
    <3>1. Len(batches) \in DOMAIN batches /\ batches[Len(batches)] \in DP!Batch
      BY DP!Typed, AgentAssumption
         DEF Both, DP!Inv, DP!cur, D!NoIdAssumption, D!TimesAssumption
    <3>2. texts \in Seq(Requests)
      BY <3>1 DEF DP!Batch
    <3>. HIDE DEF texts
    <3>. QED
      BY <2>1, <3>1, <3>2, LenProperties, EmptySeq
  <2>3. LastOf(new)' = texts[Len(texts)]
    BY <1>2 DEF LastOf
  <2>. QED
    BY <1>1, <1>2, <2>1, <2>2, <2>3 DEF Both, DP!TurnAgrees
<1>8. ASSUME NEW n \in DOMAIN rows
      PROVE  /\ rows'[n].texts # <<>> /\ LastOf(n)' = LastOf(n)
             /\ req'[LastOf(n)'].batch = req[LastOf(n)].batch
             /\ req[LastOf(n)].batch \in DOMAIN batches \ {Len(batches)}
  <2>1. rows[n].texts # <<>> /\ req[LastOf(n)].batch # Len(batches)
    BY DEF RepliesInv, RowsAnswered
  <2>2. req[LastOf(n)].batch \in DOMAIN batches
    BY <2>1, LastAccepted
  <2>3. rows'[n] = rows[n]
    BY <1>2
  <2>. QED
    BY <1>1, <2>1, <2>2, <2>3 DEF LastOf
<1>9. TurnAnswers'
  <2>1. holder' # 0
    BY <1>1, DP!Typed, AgentAssumption
       DEF DP!RowFromBuffer, Both, DP!Inv, D!NoIdAssumption, D!TimesAssumption
  <2>. QED
    BY <1>3, <1>5, <2>1 DEF TurnAnswers, InTurn, Ended
<1>10. DrainedIsNewest'
  <2>1. tasks'[holder'].drained = Len(batches)
    BY <1>1 DEF DP!RowFromBuffer, DP!cur
  <2>2. ASSUME NEW n \in DOMAIN rows', req'[LastOf(n)'].batch = Len(batches) PROVE n = new
    BY <1>2, <1>4, <1>8, <2>2
  <2>. QED
    BY <1>2, <2>1, <2>2 DEF DrainedIsNewest
<1>11. RowsAnswered'
  <2>1. ASSUME NEW n \in DOMAIN rows, batches'[req'[LastOf(n)'].batch].result = "reply",
               NEW i \in DOMAIN talk'[Conv], Nth(i, n)'
        PROVE  Follows(i)' \/ status'[Conv] = "escalated"
    <3>1. i \in DOMAIN talk[Conv]
      <4>1. ASSUME i = Len(talk'[Conv]) PROVE FALSE
        <5>1. Cardinality(Heard(last))' = n
          BY <2>1, <4>1 DEF Nth
        <5>. QED
          BY <1>2, <1>4, <1>6, <5>1
      <4>. QED
        BY <1>5, <4>1
    <3>2. batches[req[LastOf(n)].batch].result = "reply" /\ Nth(i, n)
      BY <1>2, <1>5, <1>8, <2>1, <3>1
    <3>3. Follows(i) \/ status[Conv] = "escalated"
      BY <3>1, <3>2 DEF RepliesInv, RowsAnswered
    <3>. QED
      BY <1>3, <1>5, <3>1, <3>3
  <2>2. batches'[req'[LastOf(new)'].batch].result # "reply"
    BY <1>2, <1>7
  <2>3. ASSUME NEW n \in DOMAIN rows'
        PROVE  rows'[n].texts # <<>> /\ req'[LastOf(n)'].batch # Len(batches')
    <3>1. n \in DOMAIN rows \/ n = new
      BY <1>2, <1>4
    <3>. QED
      BY <1>2, <1>4, <1>7, <1>8, <3>1
  <2>4. \A n \in DOMAIN rows' : n \in DOMAIN rows \/ n = new
    BY <1>2, <1>4
  <2>. QED
    BY <2>1, <2>2, <2>3, <2>4 DEF RowsAnswered
<1>. QED
  BY <1>6, <1>9, <1>10, <1>11 DEF RepliesInv

\* The buyer's newest row is the last but one when the agent's is the last.
LEMMA NewestRow ==
    ASSUME DOMAIN talk[Conv] = 1 .. Len(talk[Conv]), Len(talk[Conv]) \in Nat, Len(talk[Conv]) > 1,
           talk[Conv][Len(talk[Conv]) - 1].kind = "buyer",
           talk[Conv][Len(talk[Conv])].kind # "buyer",
           NEW i \in DOMAIN talk[Conv], Nth(i, Cardinality(Heard(Len(talk[Conv]))))
    PROVE  Follows(i)
<1>. DEFINE last == Len(talk[Conv])
<1>1. Heard(i) \subseteq Heard(last) /\ last - 1 \in Heard(last)
  BY DEF Heard
<1>2. IsFiniteSet(Heard(last))
  <2>1. IsFiniteSet(1 .. last) /\ Heard(last) \subseteq 1 .. last
    BY FS_Interval DEF Heard
  <2>. QED
    BY <2>1, FS_Subset
<1>3. Cardinality(Heard(i)) = Cardinality(Heard(last)) /\ talk[Conv][i].kind = "buyer"
  BY DEF Nth
<1>4. Heard(i) = Heard(last)
  BY <1>1, <1>2, <1>3, FS_Subset
<1>5. last - 1 \in 1 .. i
  BY <1>1, <1>4 DEF Heard
<1>6. i = last - 1
  BY <1>3, <1>5
<1>. QED
  BY <1>6 DEF Follows

\* A turn that ends leaves its answer behind its row, or is escalated, or has failed.
LEMMA EndReplies ==
    ASSUME Both, RepliesInv, End
    PROVE  RepliesInv'
<1>1. /\ holder # 0 /\ holder' = 0 /\ Len(batches') = Len(batches) /\ UNCHANGED <<rows, req>>
      /\ \A b \in DOMAIN batches :
            batches'[b].result = IF b = tasks[holder].drained THEN Result ELSE batches[b].result
  BY DP!ResultSet, ResultTyped, AgentAssumption
     DEF End, Both, DP!cur, D!NoIdAssumption, D!TimesAssumption
<1>2. UNCHANGED <<talk, status, turn, outcome>> /\ Ended
  BY DEF End, conversation
<1>3. TurnAnswers' /\ DrainedIsNewest' /\ (Cardinality(Heard(Len(talk[Conv]))) = Len(rows))'
  BY <1>1, <1>2 DEF TurnAnswers, InTurn, Ended, DrainedIsNewest, RepliesInv, Heard
<1>4. ASSUME NEW n \in DOMAIN rows
      PROVE  /\ rows[n].texts # <<>> /\ req[LastOf(n)].batch \in DOMAIN batches
             /\ req[LastOf(n)].batch # Len(batches)
  BY LastAccepted DEF RepliesInv, RowsAnswered
<1>5. \A i, n : (Nth(i, n)' <=> Nth(i, n)) /\ (Follows(i)' <=> Follows(i))
  BY <1>2 DEF Nth, Heard, Follows
<1>6. ASSUME NEW n \in DOMAIN rows, batches'[req[LastOf(n)].batch].result = "reply",
             NEW i \in DOMAIN talk[Conv], Nth(i, n)
      PROVE  Follows(i) \/ status[Conv] = "escalated"
  <2>1. CASE req[LastOf(n)].batch # tasks[holder].drained
    BY <1>1, <1>4, <1>6, <2>1 DEF RepliesInv, RowsAnswered
  <2>2. CASE req[LastOf(n)].batch = tasks[holder].drained
    <3>1. n = Cardinality(Heard(Len(talk[Conv])))
      BY <1>1, <2>2 DEF RepliesInv, DrainedIsNewest
    <3>2. outcome[Conv] # "error"
      BY <1>1, <1>4, <1>6, <2>2 DEF Result
    <3>3. \/ status[Conv] = "escalated"
          \/ /\ Len(talk[Conv]) > 1 /\ talk[Conv][Len(talk[Conv]) - 1].kind = "buyer"
             /\ talk[Conv][Len(talk[Conv])].kind # "buyer"
      BY <1>2, <3>2 DEF RepliesInv, TurnAnswers
    <3>. QED
      BY <1>6, <3>1, <3>3, NewestRow, Shapes
  <2>. QED
    BY <2>1, <2>2
<1>7. RowsAnswered'
  BY <1>1, <1>2, <1>4, <1>5, <1>6 DEF RowsAnswered, LastOf
<1>. QED
  BY <1>3, <1>7 DEF RepliesInv

\* The invariant about replies holds at the start.
LEMMA RepliesInit == Init => RepliesInv
<1>. SUFFICES ASSUME Init PROVE RepliesInv
  OBVIOUS
<1>1. rows = <<>> /\ holder = 0 /\ talk[Conv] = <<>> /\ turn[Conv].pc = "idle"
  BY DEF Init, D!Init, T!Init, T!NoTurn
<1>2. Heard(Len(talk[Conv])) = {}
  BY <1>1 DEF Heard
<1>3. Cardinality(Heard(Len(talk[Conv]))) = Len(rows)
  BY <1>1, <1>2, FS_EmptySet
<1>. QED
  BY <1>1, <1>3 DEF RepliesInv, TurnAnswers, InTurn, Ended, DrainedIsNewest, RowsAnswered

\* The invariant about replies outlasts every step.
LEMMA RepliesStep == Both /\ RepliesInv /\ [Next]_vars => RepliesInv'
BY StepKinds, BustleReplies, BeginReplies, SpeakReplies, EndReplies, RestartReplies

-------------------------------------------------------------------------------
(* The theorems.                                                           *)

\* All three invariants hold of every behaviour.
LEMMA Replies == Spec => [](Both /\ RepliesInv)
<1>1. Init => Both /\ RepliesInv
  BY BothInit, RepliesInit
<1>2. Both /\ RepliesInv /\ [Next]_vars => (Both /\ RepliesInv)'
  BY BothStep, RepliesStep
<1>. QED
  BY <1>1, <1>2, PTL DEF Spec

\* The debounce's invariants and the turns' hold of the agent that is made of both,
\* with a turn in the place of the debounce's delay (agent.py 131-155, 434-451).
THEOREM AgentInvariance == Spec => []Both
BY Replies, PTL

\* However POSTs, timers, turns and restarts interleave, the buyer's rows in talk are
\* the drained buffers one for one, and the row of a POST that was told "reply" has
\* what the agent said directly behind it, unless the lead was escalated
\* (agent.py 436-451, D11).
THEOREM RepliesAreStored == Spec => []ReplyIsStored
<1>1. Both /\ RepliesInv => ReplyIsStored
  <2>. SUFFICES ASSUME Both, RepliesInv PROVE ReplyIsStored
    OBVIOUS
  <2>1. Cardinality(Heard(Len(talk[Conv]))) = Len(rows)
    BY DEF RepliesInv
  <2>2. ASSUME NEW n \in DOMAIN rows, NEW i \in DOMAIN talk[Conv],
               req[LastOf(n)].pc = "returned", req[LastOf(n)].status = "reply", Nth(i, n)
        PROVE  Follows(i) \/ status[Conv] = "escalated"
    <3>1. rows[n].texts # <<>>
      BY DEF RepliesInv, RowsAnswered
    <3>2. LastOf(n) \in Requests /\ DP!Accepted(LastOf(n))
      BY <3>1, LastAccepted
    <3>3. req[LastOf(n)].status = DP!StatusFor(LastOf(n))
      BY <2>2, <3>2 DEF Both, DP!Voices, DP!StatusesAgree
    <3>4. batches[req[LastOf(n)].batch].result = "reply"
      BY <2>2, <3>3 DEF DP!StatusFor
    <3>. QED
      BY <2>2, <3>4 DEF RepliesInv, RowsAnswered
  <2>. QED
    BY <2>1, <2>2 DEF ReplyIsStored
<1>. QED
  BY <1>1, Replies, PTL
===============================================================================
