------------------------------- MODULE Debounce -------------------------------
(***************************************************************************)
(* One conversation of app/agent.py: inbound handling, the sliding         *)
(* debounce window, the per-conversation lock and the drain of the buffer  *)
(* into a turn.  What the turn itself does is module Turn; here it lasts   *)
(* an arbitrary time and ends with a reply or with an exception.           *)
(*                                                                         *)
(* The program is a single asyncio loop: code between two awaits runs      *)
(* alone, so every action below is the code from one await to the next.    *)
(* A request is one POST /conversations/{id}/messages; its text is         *)
(* represented by the request itself.                                      *)
(***************************************************************************)
EXTENDS Integers, Sequences

CONSTANTS
    Requests,        \* the POSTs that may arrive, each at most once
    WaIds,           \* the wa_message_ids a POST may carry (a resend repeats one)
    NoId,            \* a POST without a wa_message_id
    DebounceMs,      \* config.DEBOUNCE_MS, in clock ticks; 0 is a value of its own
    DebounceMaxMs,   \* config.DEBOUNCE_MAX_MS, in clock ticks
    LastArrival,     \* bound: no POST arrives after this tick
    MaxRestarts      \* bound: how many times the process may be restarted

ASSUME NoIdAssumption == NoId \notin WaIds
ASSUME TimesAssumption ==
    /\ DebounceMs \in Nat
    /\ DebounceMaxMs \in Nat
    /\ LastArrival \in Nat
    /\ MaxRestarts \in Nat

VARIABLES
    now,       \* loop.time()
    seen,      \* SEEN
    rows,      \* the user rows of messages, oldest first (survives a restart)
    batches,   \* every Batch object made, oldest first; the last is state.current
    seq,       \* state.seq
    timer,     \* state.timer: an index into tasks, 0 for None
    tasks,     \* every _debounce task created, oldest first
    holder,    \* the task inside state.lock, 0 when it is free
    queue,     \* the tasks waiting for state.lock, first come first served
    req,       \* the on_inbound coroutine of every request
    restarts   \* how many restarts happened

vars == <<now, seen, rows, batches, seq, timer, tasks, holder, queue, req, restarts>>

-------------------------------------------------------------------------------
(* The objects of the process.                                             *)

Ids == WaIds \cup {NoId}
Results == {"none", "reply", "error"}

\* Batch.event is set exactly when result is not "none"; winner 0 is None.
Batch ==
    [texts : Seq(Requests), wa : Ids, first : Nat, last : Nat,
     lastToken : Nat, winner : Nat, result : Results]

EmptyBatch ==
    [texts |-> <<>>, wa |-> NoId, first |-> 0, last |-> 0,
     lastToken |-> 0, winner |-> 0, result |-> "none"]

\* A _debounce task: asleep until wake, then blocked on the lock, then inside
\* run_turn with the batch it drained, then done.
Task ==
    [pc : {"sleeping", "blocked", "turn", "done"}, batch : Nat, wake : Nat, drained : Nat]

\* An on_inbound coroutine: token and batch are its locals, status what it returned.
Inbound ==
    [pc : {"idle", "waiting", "returned", "lost"}, id : Ids, token : Nat, batch : Nat,
     status : {"none", "reply", "error", "coalesced", "duplicate"}]

IdleRequest == [pc |-> "idle", id |-> NoId, token |-> 0, batch |-> 0, status |-> "none"]

cur == Len(batches)
current == batches[cur]

Min2(a, b) == IF a <= b THEN a ELSE b

\* Mutants: the cap on the window is forgotten; only the cap ends it.
Deadline_Uncapped(b) == b.last + DebounceMs
Deadline_CapOnly(b) == b.first + DebounceMaxMs

Deadline(b) == Min2(b.last + DebounceMs, b.first + DebounceMaxMs)

\* Mutants: one half of the resend check is missing.
Duplicate_RowsOnly(id) == id # NoId /\ \E i \in DOMAIN rows : rows[i].wa = id
Duplicate_SeenOnly(id) == id \in seen

Duplicate(id) ==
    /\ id # NoId
    /\ id \in seen \/ \E i \in DOMAIN rows : rows[i].wa = id

TimerIdle == timer = 0 \/ tasks[timer].pc = "done"

Due(t) == tasks[t].pc = "sleeping" /\ tasks[t].wake <= now

Grantable == holder = 0 /\ queue # <<>>

Horizon == LastArrival + DebounceMaxMs

-------------------------------------------------------------------------------
Init ==
    /\ now = 0
    /\ seen = {}
    /\ rows = <<>>
    /\ batches = <<EmptyBatch>>
    /\ seq = 0
    /\ timer = 0
    /\ tasks = <<>>
    /\ holder = 0
    /\ queue = <<>>
    /\ req = [r \in Requests |-> IdleRequest]
    /\ restarts = 0

InboundDuplicate(r, id) ==
    /\ req[r].pc = "idle"
    /\ now <= LastArrival
    /\ Duplicate(id)
    /\ req' = [req EXCEPT ![r] = [@ EXCEPT !.pc = "returned", !.id = id, !.status = "duplicate"]]
    /\ UNCHANGED <<now, seen, rows, batches, seq, timer, tasks, holder, queue, restarts>>

\* Mutant: only the first fragment's token is kept.
Joined_FirstWins(b, r, id, token) ==
    [b EXCEPT !.first = IF b.texts = <<>> THEN now ELSE @,
              !.wa = IF b.texts = <<>> THEN id ELSE @,
              !.texts = Append(@, r),
              !.last = now,
              !.lastToken = IF b.texts = <<>> THEN token ELSE @]

\* The batch b after fragment r, which carries id and token, was appended to it.
Joined(b, r, id, token) ==
    [b EXCEPT !.first = IF b.texts = <<>> THEN now ELSE @,
              !.wa = IF b.texts = <<>> THEN id ELSE @,
              !.texts = Append(@, r),
              !.last = now,
              !.lastToken = token]

\* A new task computes its first delay when the loop first runs it: it is due now.
EnsureTimer ==
    IF TimerIdle
    THEN /\ tasks' = Append(tasks, [pc |-> "sleeping", batch |-> cur, wake |-> now, drained |-> 0])
         /\ timer' = Len(tasks) + 1
    ELSE UNCHANGED <<tasks, timer>>

InboundAccept(r, id) ==
    /\ req[r].pc = "idle"
    /\ now <= LastArrival
    /\ ~Duplicate(id)
    /\ seen' = IF id = NoId THEN seen ELSE seen \cup {id}
    /\ seq' = seq + 1
    /\ batches' = [batches EXCEPT ![cur] = Joined(@, r, id, seq + 1)]
    /\ EnsureTimer
    /\ req' = [req EXCEPT ![r] = [@ EXCEPT !.pc = "waiting", !.id = id,
                                           !.token = seq + 1, !.batch = cur]]
    /\ UNCHANGED <<now, rows, holder, queue, restarts>>

\* A timer whose batch got another fragment since it went to sleep sleeps on.
SleepOn(t) ==
    /\ Due(t)
    /\ Deadline(batches[tasks[t].batch]) > now
    /\ tasks' = [tasks EXCEPT ![t].wake = Deadline(batches[tasks[t].batch])]
    /\ UNCHANGED <<now, seen, rows, batches, seq, timer, holder, queue, req, restarts>>

\* Mutant: the buffer is not swapped for a fresh one before the turn.
Drain_NotSwapped(t) ==
    IF current.texts = <<>>
    THEN /\ tasks' = [tasks EXCEPT ![t].pc = "done"]
         /\ holder' = 0
         /\ UNCHANGED <<batches, rows>>
    ELSE /\ tasks' = [tasks EXCEPT ![t].pc = "turn", ![t].drained = cur]
         /\ holder' = t
         /\ batches' = [batches EXCEPT ![cur].winner = current.lastToken]
         /\ rows' = Append(rows, [texts |-> current.texts, wa |-> current.wa])

\* run_turn by task t, which has the lock: to the first await of _run, or out
\* again when another task has already drained the buffer.
Drain(t) ==
    IF current.texts = <<>>
    THEN /\ tasks' = [tasks EXCEPT ![t].pc = "done"]
         /\ holder' = 0
         /\ UNCHANGED <<batches, rows>>
    ELSE /\ tasks' = [tasks EXCEPT ![t].pc = "turn", ![t].drained = cur]
         /\ holder' = t
         /\ batches' = Append([batches EXCEPT ![cur].winner = current.lastToken], EmptyBatch)
         /\ rows' = Append(rows, [texts |-> current.texts, wa |-> current.wa])

\* Mutant: the fired task stays registered as the timer.
Fire_TimerKept(t) ==
    /\ Due(t)
    /\ Deadline(batches[tasks[t].batch]) <= now
    /\ timer' = timer
    /\ \/ /\ holder = 0 /\ queue = <<>>
          /\ Drain(t)
          /\ UNCHANGED queue
       \/ /\ ~(holder = 0 /\ queue = <<>>)
          /\ tasks' = [tasks EXCEPT ![t].pc = "blocked"]
          /\ queue' = Append(queue, t)
          /\ UNCHANGED <<batches, rows, holder>>
    /\ UNCHANGED <<now, seen, seq, req, restarts>>

\* The window of t is over: it forgets itself as the timer and takes the lock,
\* or queues for it.
Fire(t) ==
    /\ Due(t)
    /\ Deadline(batches[tasks[t].batch]) <= now
    /\ timer' = 0
    /\ \/ /\ holder = 0 /\ queue = <<>>
          /\ Drain(t)
          /\ UNCHANGED queue
       \/ /\ ~(holder = 0 /\ queue = <<>>)
          /\ tasks' = [tasks EXCEPT ![t].pc = "blocked"]
          /\ queue' = Append(queue, t)
          /\ UNCHANGED <<batches, rows, holder>>
    /\ UNCHANGED <<now, seen, seq, req, restarts>>

\* The released lock goes to the task that waited longest.
Grant(t) ==
    /\ Grantable
    /\ t = Head(queue)
    /\ queue' = Tail(queue)
    /\ Drain(t)
    /\ UNCHANGED <<now, seen, seq, timer, req, restarts>>

\* Mutant: an exception leaves the event unset.
FinishTurn_NoFinally(t, result) ==
    /\ tasks[t].pc = "turn"
    /\ batches' = IF result = "error" THEN batches
                  ELSE [batches EXCEPT ![tasks[t].drained].result = result]
    /\ tasks' = [tasks EXCEPT ![t].pc = "done"]
    /\ holder' = 0
    /\ UNCHANGED <<now, seen, rows, seq, timer, queue, req, restarts>>

\* _run returned a reply or raised; either way the event is set and the lock released.
FinishTurn(t, result) ==
    /\ tasks[t].pc = "turn"
    /\ batches' = [batches EXCEPT ![tasks[t].drained].result = result]
    /\ tasks' = [tasks EXCEPT ![t].pc = "done"]
    /\ holder' = 0
    /\ UNCHANGED <<now, seen, rows, seq, timer, queue, req, restarts>>

\* A request whose batch has been answered: the last arrival gets the result.
StatusFor(r) ==
    LET b == batches[req[r].batch]
    IN  IF req[r].token = b.winner THEN b.result ELSE "coalesced"

Return(r) ==
    /\ req[r].pc = "waiting"
    /\ batches[req[r].batch].result # "none"
    /\ req' = [req EXCEPT ![r].pc = "returned", ![r].status = StatusFor(r)]
    /\ UNCHANGED <<now, seen, rows, batches, seq, timer, tasks, holder, queue, restarts>>

\* The loop keeps up: the clock does not pass a due timer or a free lock that
\* somebody waits for.
Tick ==
    /\ now < Horizon
    /\ \A t \in DOMAIN tasks : ~Due(t)
    /\ ~Grantable
    /\ now' = now + 1
    /\ UNCHANGED <<seen, rows, batches, seq, timer, tasks, holder, queue, req, restarts>>

\* Mutant: what was seen before the restart counts after it.
Restart_SeenKept ==
    /\ restarts < MaxRestarts
    /\ restarts' = restarts + 1
    /\ seen' = seen
    /\ batches' = Append(batches, EmptyBatch)
    /\ seq' = 0
    /\ timer' = 0
    /\ tasks' = [t \in DOMAIN tasks |-> [tasks[t] EXCEPT !.pc = "done"]]
    /\ holder' = 0
    /\ queue' = <<>>
    /\ req' = [r \in Requests |->
                 IF req[r].pc = "waiting" THEN [req[r] EXCEPT !.pc = "lost"] ELSE req[r]]
    /\ UNCHANGED <<now, rows>>

\* Everything in process memory dies: the state of the conversation, SEEN, the
\* tasks and the connections of the waiting requests.  The rows stay.
Restart ==
    /\ restarts < MaxRestarts
    /\ restarts' = restarts + 1
    /\ seen' = {}
    /\ batches' = Append(batches, EmptyBatch)
    /\ seq' = 0
    /\ timer' = 0
    /\ tasks' = [t \in DOMAIN tasks |-> [tasks[t] EXCEPT !.pc = "done"]]
    /\ holder' = 0
    /\ queue' = <<>>
    /\ req' = [r \in Requests |->
                 IF req[r].pc = "waiting" THEN [req[r] EXCEPT !.pc = "lost"] ELSE req[r]]
    /\ UNCHANGED <<now, rows>>

\* No POST can come any more and none is waiting: the one way to stop.
Quiet ==
    /\ now = Horizon
    /\ \A r \in Requests : req[r].pc # "waiting"
    /\ UNCHANGED vars

Arrival == \E r \in Requests, id \in Ids : InboundDuplicate(r, id) \/ InboundAccept(r, id)

LoopStep ==
    \/ \E t \in DOMAIN tasks : SleepOn(t) \/ Fire(t) \/ Grant(t)
    \/ \E t \in DOMAIN tasks, result \in Results \ {"none"} : FinishTurn(t, result)
    \/ \E r \in Requests : Return(r)
    \/ Tick

Next == Arrival \/ LoopStep \/ Restart \/ Quiet

\* The loop runs every ready callback, and a turn ends: it makes at most STEP_CAP
\* model calls, each with a timeout (llm.py:57).  Nothing makes a buyer write or
\* the process restart.
Fairness ==
    /\ WF_vars(Tick)
    /\ WF_vars(\E t \in DOMAIN tasks : SleepOn(t) \/ Fire(t) \/ Grant(t))
    /\ WF_vars(\E t \in DOMAIN tasks, result \in Results \ {"none"} : FinishTurn(t, result))
    /\ \A r \in Requests : WF_vars(Return(r))

Spec == Init /\ [][Next]_vars /\ Fairness

-------------------------------------------------------------------------------
(* Properties.                                                             *)

\* Every variable has the shape its object has in the process.
TypeOK ==
    /\ now \in Nat
    /\ seen \subseteq WaIds
    /\ rows \in Seq([texts : Seq(Requests), wa : Ids])
    /\ batches \in Seq(Batch) /\ batches # <<>>
    /\ seq \in Nat
    /\ tasks \in Seq(Task)
    /\ timer \in 0 .. Len(tasks)
    /\ holder \in 0 .. Len(tasks)
    /\ queue \in Seq(DOMAIN tasks)
    /\ req \in [Requests -> Inbound]
    /\ restarts \in 0 .. MaxRestarts

\* A buffered fragment always has a task that has yet to drain the buffer.  Lines
\* 122 and 127-128: a timer that fired must not count as running while its turn
\* does, or what arrives meanwhile waits for ever.
NoLostWakeup ==
    current.texts # <<>> =>
        \E t \in DOMAIN tasks : tasks[t].pc \in {"sleeping", "blocked"}

\* At most one task sleeps, and it is the one _ensure_timer looks at (line 127):
\* no second timer shortens somebody's window.
OneTimer ==
    \A t \in DOMAIN tasks : tasks[t].pc = "sleeping" => t = timer

\* Of the requests one turn answers, exactly the last to arrive returns the
\* result and the others return "coalesced" (D8, lines 153-155).
OneVoice ==
    \A r \in Requests :
        (req[r].pc = "returned" /\ req[r].status # "duplicate") =>
            LET b == batches[req[r].batch]
            IN  IF r = b.texts[Len(b.texts)] THEN req[r].status = b.result
                                             ELSE req[r].status = "coalesced"

\* The unique constraint on messages.wa_message_id never trips: duplicate
\* (lines 100-109) turns every id away that already has a row, also after a
\* restart, so save_message in the drain never raises for that.
UniqueRows ==
    \A i, j \in DOMAIN rows : rows[i].wa = rows[j].wa /\ rows[i].wa # NoId => i = j

\* Two requests with one wa_message_id are never both put into turns.
HandledOnce ==
    \A i, j \in DOMAIN rows : \A m \in DOMAIN rows[i].texts, n \in DOMAIN rows[j].texts :
        LET q == rows[i].texts[m]  r == rows[j].texts[n]
        IN  req[q].id = req[r].id /\ req[q].id # NoId => q = r

\* Nothing buffered outstays its window, and a fast typer cannot starve the turn: once
\* DEBOUNCE_MS has passed without a fragment (at once when it is 0), or DEBOUNCE_MAX_MS
\* since the first one of the buffer, the lock is all it waits for, however often timers
\* were armed, outlived their batch or slept on (lines 112-128).
Prompt ==
    /\ current.texts # <<>>
    /\ now > current.last + DebounceMs \/ now > current.first + DebounceMaxMs
    => queue # <<>>

\* Every accepted request is answered, unless the process is restarted first.
Answered ==
    \A r \in Requests : req[r].pc = "waiting" ~> req[r].pc \in {"returned", "lost"}

\* What the module's docstring says of the window (lines 10-13): a turn takes the
\* buffer only when no fragment came for DEBOUNCE_MS, or DEBOUNCE_MAX_MS after the
\* first one.
WindowHonoured ==
    [][(rows' # rows) => Deadline(current) <= now]_vars

\* The text of r is in the buffer, or a turn took it and it has a row.
InBuffer(r) == \E i \in DOMAIN current.texts : current.texts[i] = r
InRows(r) == \E i \in DOMAIN rows : \E m \in DOMAIN rows[i].texts : rows[i].texts[m] = r

\* A request is turned away as a resend only while the program still has what it
\* resends: the accepted request with that id is in the buffer of the process, or
\* its text is in a row.  What died in the buffer with the process may be sent
\* again (lines 100-109 and 359).
RefusedIsHeld ==
    [][\A r \in Requests :
          req[r].pc = "idle" /\ req'[r].status = "duplicate" =>
              \E q \in Requests :
                  /\ req[q].pc # "idle" /\ req[q].status # "duplicate"
                  /\ req[q].id = req'[r].id
                  /\ InBuffer(q) \/ InRows(q)]_vars

-------------------------------------------------------------------------------
(* The inductive invariant behind the safety properties (DebounceProofs).  *)

\* The task objects, state.timer, the lock and its queue agree with each other.
TasksAgree ==
    /\ timer # 0 => tasks[timer].pc = "sleeping"
    /\ OneTimer
    /\ holder # 0 => tasks[holder].pc = "turn"
    /\ \A t \in DOMAIN tasks :
         /\ tasks[t].batch \in DOMAIN batches
         /\ tasks[t].pc = "turn" => t = holder /\ tasks[t].drained \in DOMAIN batches
    /\ \A i \in DOMAIN queue : tasks[queue[i]].pc = "blocked"
    /\ \A i, j \in DOMAIN queue : queue[i] = queue[j] => i = j

\* What is buffered has a timer, or a task in the lock's queue.
Watched == current.texts # <<>> => timer # 0 \/ queue # <<>>

\* A waiting request waits on the event of a batch.
WaitersAgree ==
    \A r \in Requests : req[r].pc = "waiting" => req[r].batch \in DOMAIN batches

\* The id the buffer will be saved under has no row yet.
BufferedIdIsNew ==
    current.texts # <<>> /\ current.wa # NoId => \A i \in DOMAIN rows : rows[i].wa # current.wa

\* No window began or got a fragment after now, nor after the one that is open.
WindowsInOrder ==
    \A b \in DOMAIN batches :
        /\ batches[b].first <= now /\ batches[b].last <= now
        /\ current.texts # <<>> =>
               batches[b].first <= current.first /\ batches[b].last <= current.last

\* The timer rings by the end of the window: also one that outlived its batch.
TimerInTime ==
    timer # 0 =>
        /\ tasks[timer].wake <= now + DebounceMs
        /\ tasks[timer].wake <= now + DebounceMaxMs
        /\ current.texts # <<>> /\ queue = <<>> => tasks[timer].wake <= Deadline(current)

\* What is buffered has not passed its window while nobody is in the lock's queue.
InTime ==
    current.texts # <<>> /\ queue = <<>> => now <= Deadline(current)

\* The invariant every step preserves.
Inv ==
    /\ TypeOK
    /\ TasksAgree
    /\ WaitersAgree
    /\ Watched
    /\ BufferedIdIsNew
    /\ UniqueRows
    /\ WindowsInOrder
    /\ TimerInTime
    /\ InTime

-------------------------------------------------------------------------------
(* What OneVoice rests on, beside Inv.                                     *)

Accepted(r) == req[r].pc # "idle" /\ req[r].status # "duplicate"

\* An accepted request is one of the texts of the batch it waits on.
Heard ==
    \A r \in Requests : Accepted(r) =>
        /\ req[r].batch \in DOMAIN batches
        /\ \E i \in DOMAIN batches[req[r].batch].texts : batches[req[r].batch].texts[i] = r

\* The last text of a batch, and no other, has its lastToken.
InOrder(b, i) ==
    LET r == batches[b].texts[i]
    IN  /\ Accepted(r)
        /\ i = Len(batches[b].texts) => req[r].token = batches[b].lastToken
        /\ i # Len(batches[b].texts) => req[r].token < batches[b].lastToken

TokensInOrder ==
    /\ current.lastToken <= seq
    /\ \A b \in DOMAIN batches : \A i \in DOMAIN batches[b].texts : InOrder(b, i)

\* The winner of a batch a turn took is its last token; a turn's result is not
\* there yet, and the buffer has none.
WinnerIsLast ==
    /\ current.result = "none"
    /\ \A b \in DOMAIN batches :
          batches[b].result # "none" => batches[b].winner = batches[b].lastToken
    /\ \A t \in DOMAIN tasks : tasks[t].pc = "turn" =>
          LET b == tasks[t].drained
          IN  b # cur /\ batches[b].result = "none" /\ batches[b].winner = batches[b].lastToken

\* A request returned what the result of its batch, which stays, says.
StatusesAgree ==
    \A r \in Requests :
        /\ req[r].pc # "returned" => req[r].status = "none"
        /\ Accepted(r) /\ req[r].pc = "returned" =>
               batches[req[r].batch].result # "none" /\ req[r].status = StatusFor(r)

\* What OneVoice rests on, as an invariant.
Voices == Heard /\ TokensInOrder /\ WinnerIsLast /\ StatusesAgree

-------------------------------------------------------------------------------
(* What HandledOnce rests on, beside these.                                *)

\* Only accepted requests get into the rows.
RowsAccepted ==
    \A i \in DOMAIN rows : \A m \in DOMAIN rows[i].texts : Accepted(rows[i].texts[m])

\* While the process lives it has seen every id it accepted, and each but once.
AcceptedOnce ==
    restarts = 0 =>
        \A r \in Requests : Accepted(r) /\ req[r].id # NoId =>
            /\ req[r].id \in seen
            /\ \A q \in Requests : Accepted(q) /\ req[q].id = req[r].id => q = r

-------------------------------------------------------------------------------
(* What RefusedIsHeld rests on, beside Inv and Voices.                     *)

\* An accepted request with this id is in a row; or in the buffer.
StoredId(id) == \E r \in Requests : Accepted(r) /\ req[r].id = id /\ InRows(r)
BufferedId(id) == \E r \in Requests : Accepted(r) /\ req[r].id = id /\ InBuffer(r)

\* What the process has seen is buffered or stored; a row was saved under the id of
\* one of its texts, as the buffer will be under the id of its first.
SeenIsHeld == \A id \in seen : StoredId(id) \/ BufferedId(id)
RowIdIsHeld == \A i \in DOMAIN rows : rows[i].wa # NoId => StoredId(rows[i].wa)
BufferId == current.texts # <<>> => req[current.texts[1]].id = current.wa

Held == SeenIsHeld /\ RowIdIsHeld /\ BufferId
===============================================================================
