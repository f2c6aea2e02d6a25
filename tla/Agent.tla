--------------------------------- MODULE Agent ---------------------------------
(***************************************************************************)
(* One conversation of app/agent.py as a whole: the debounce (Debounce)    *)
(* and the turn it runs under its lock (Turn), on one event loop and over  *)
(* one database.  Here a turn is the code itself instead of an arbitrary   *)
(* delay, and a turn starts when the debounce drains its buffer instead of *)
(* when a buyer happens to write.                                          *)
(***************************************************************************)
EXTENDS Integers, Sequences, FiniteSets

CONSTANTS
    Requests, WaIds, NoId, DebounceMs, DebounceMaxMs, LastArrival,   \* Debounce
    Conv, Fields, Questions, NoQuestion, Clarify, StepCap,           \* Turn
    ClarificationLimit, Faults, MaxBatch,
    MaxRestarts     \* bound: how many times the process may be restarted

VARIABLES
    now, seen, rows, batches, seq, timer, tasks, holder, queue, req, restarts,
    status, count, talk, leads, known, asked, unreadable, visits,
    turn, outcome, lost, crashes

D == INSTANCE Debounce

\* The turns are bounded by the requests.
T == INSTANCE Turn WITH Convs <- {Conv}, MaxTalk <- 2 * Cardinality(Requests),
                        MaxCrashes <- MaxRestarts

ASSUME AgentAssumption ==
    /\ IsFiniteSet(Requests)
    /\ D!NoIdAssumption /\ D!TimesAssumption
    /\ T!QuestionsAssumption /\ T!TurnLimitsAssumption

inbound == <<now, seen, rows, batches, seq, timer, tasks, holder, queue, req, restarts>>
conversation == <<status, count, talk, leads, known, asked, unreadable, visits, turn, outcome,
                  lost, crashes>>
vars == <<inbound, conversation>>

Init == D!Init /\ T!Init

-------------------------------------------------------------------------------
\* The turn is inside _run, or has just come out of it.
InTurn == turn[Conv].pc # "idle"
Ended == holder # 0 /\ ~InTurn

\* No coroutine is between two awaits.
LoopFree == turn[Conv].pc \notin T!Working /\ ~Ended

\* run_turn drains the buffer exactly when it goes on to _run.
Drains == rows' # rows

\* A step of the debounce that starts no turn.
Debounces(step) == LoopFree /\ step /\ ~Drains /\ UNCHANGED conversation

\* A step of the debounce that does: _run runs to its first await or its first
\* commit in the same stretch.
Starts(step) == LoopFree /\ step /\ Drains /\ T!Start(Conv)

Inbound(r, id) ==
    \/ Debounces(D!InboundDuplicate(r, id))
    \/ Debounces(D!InboundAccept(r, id))

Timers(t) ==
    \/ Debounces(D!SleepOn(t))
    \/ Debounces(D!Fire(t))  \/ Starts(D!Fire(t))
    \/ Debounces(D!Grant(t)) \/ Starts(D!Grant(t))

Turning == T!Step(Conv) /\ UNCHANGED inbound

Result == IF outcome[Conv] = "error" THEN "error" ELSE "reply"

\* Mutant: _run is not awaited.
EndTurn_NotAwaited(t) ==
    /\ holder # 0
    /\ D!FinishTurn(t, Result)
    /\ UNCHANGED conversation

\* run_turn's finally.
EndTurn(t) ==
    /\ Ended
    /\ D!FinishTurn(t, Result)
    /\ UNCHANGED conversation

Return(r) == Debounces(D!Return(r))

Tick == Debounces(D!Tick)

\* The one process dies, with its tasks and with the turn.
Restart == D!Restart /\ T!Crash

Quiet == LoopFree /\ D!Quiet /\ UNCHANGED conversation

Next ==
    \/ \E r \in Requests, id \in D!Ids : Inbound(r, id)
    \/ \E t \in DOMAIN tasks : Timers(t) \/ EndTurn(t)
    \/ \E r \in Requests : Return(r)
    \/ Turning
    \/ Tick
    \/ Restart
    \/ Quiet

\* A model call returns or times out, and the loop runs whatever is ready.  That a
\* turn ends is not assumed.
Fairness ==
    /\ WF_vars(Turning)
    /\ WF_vars(\E t \in DOMAIN tasks : Timers(t))
    /\ WF_vars(\E t \in DOMAIN tasks : EndTurn(t))
    /\ WF_vars(Tick)
    /\ \A r \in Requests : WF_vars(Return(r))

Spec == Init /\ [][Next]_vars /\ Fairness

-------------------------------------------------------------------------------
(* Properties.                                                             *)

\* The debounce with this turn is the debounce of module Debounce: in particular
\* its assumption that every turn ends follows from the step cap and the timeouts
\* (agent.py 376-410, 434-451).
DebounceSpec == D!Spec

\* The buyer's rows up to row i of talk; the row is his n-th.
Heard(i) == {j \in 1 .. i : talk[Conv][j].kind = "buyer"}
Nth(i, n) == talk[Conv][i].kind = "buyer" /\ Cardinality(Heard(i)) = n

\* The request whose fragment is the last of the n-th row.
LastOf(n) == rows[n].texts[Len(rows[n].texts)]

Follows(i) == i < Len(talk[Conv]) /\ talk[Conv][i + 1].kind # "buyer"

\* What a POST is told is what the broker will read: the one that got the reply has
\* its fragments in a row of their own, and directly behind it stands what the agent
\* said, unless the lead was no longer the agent's.  No turn slips in between
\* although POSTs, timers and turns interleave (agent.py 436-451, D11).
ReplyIsStored ==
    /\ Cardinality(Heard(Len(talk[Conv]))) = Len(rows)
    /\ \A n \in DOMAIN rows : \A i \in DOMAIN talk[Conv] :
        /\ req[LastOf(n)].pc = "returned" /\ req[LastOf(n)].status = "reply"
        /\ Nth(i, n)
        => Follows(i) \/ status[Conv] = "escalated"

\* Every accepted POST is answered or lost with the process, through the sleeping
\* timer, the lock and whatever the turn calls (agent.py 112-155).
Answered == D!Answered

\* Every turn ends, whatever the model keeps calling.
TurnEnds == T!TurnEnds

\* Every lead gets its brief, and its buyer the handoff line, unless the process
\* dies in the turn that made it.
LeadHandedOver == T!LeadHandedOver

-------------------------------------------------------------------------------
(* What ReplyIsStored rests on, beside the invariants of Debounce and Turn *)
(* (AgentProofs).                                                          *)

\* A turn in flight has the lock, and the row it writes next follows the buyer's;
\* when it is out of _run without an exception, that row is there.
TurnAnswers ==
    LET last == Len(talk[Conv])
    IN  /\ InTurn => holder # 0 /\ last # 0 /\ talk[Conv][last].kind = "buyer"
        /\ Ended =>
              \/ outcome[Conv] = "error" \/ status[Conv] = "escalated"
              \/ last > 1 /\ talk[Conv][last - 1].kind = "buyer" /\ talk[Conv][last].kind # "buyer"

\* The row the turn that has the lock was drained into is the newest.
DrainedIsNewest ==
    \A n \in DOMAIN rows :
        holder # 0 /\ req[LastOf(n)].batch = tasks[holder].drained => n = Len(rows)

\* The rows are made of texts, and those whose batch got its reply are followed by it.
RowsAnswered ==
    \A n \in DOMAIN rows :
        /\ rows[n].texts # <<>> /\ req[LastOf(n)].batch # Len(batches)
        /\ batches[req[LastOf(n)].batch].result = "reply" =>
              \A i \in DOMAIN talk[Conv] : Nth(i, n) => Follows(i) \/ status[Conv] = "escalated"

RepliesInv ==
    /\ TurnAnswers /\ DrainedIsNewest /\ RowsAnswered
    /\ Cardinality(Heard(Len(talk[Conv]))) = Len(rows)
===============================================================================
