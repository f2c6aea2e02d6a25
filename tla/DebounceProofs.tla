---------------------------- MODULE DebounceProofs ----------------------------
(***************************************************************************)
(* The safety of the debounce, for any requests, ids, times and bounds,    *)
(* and that it implements the mailbox.                                     *)
(***************************************************************************)
EXTENDS DebounceRefinement, SequenceTheorems, TLAPS

\* What an update of one element leaves of a sequence.
LEMMA Updated ==
    ASSUME NEW S, NEW s \in Seq(S), NEW i \in DOMAIN s, NEW e \in S
    PROVE  /\ [s EXCEPT ![i] = e] \in Seq(S)
           /\ DOMAIN [s EXCEPT ![i] = e] = DOMAIN s
           /\ Len([s EXCEPT ![i] = e]) = Len(s)
           /\ \A j \in DOMAIN s : [s EXCEPT ![i] = e][j] = IF j = i THEN e ELSE s[j]
BY ExceptSeq, LenProperties

\* What Append does to a sequence.
LEMMA Appended ==
    ASSUME NEW S, NEW s \in Seq(S), NEW e \in S
    PROVE  /\ Append(s, e) \in Seq(S)
           /\ Append(s, e) # <<>>
           /\ DOMAIN Append(s, e) = 1 .. Len(s) + 1
           /\ Len(Append(s, e)) = Len(s) + 1
           /\ Append(s, e)[Len(s) + 1] = e
           /\ \A j \in DOMAIN s : Append(s, e)[j] = s[j]
OBVIOUS

\* The buffer is a batch, and every index is a natural number.
LEMMA Typed ==
    ASSUME TypeOK
    PROVE  /\ cur \in DOMAIN batches /\ cur \in Nat \ {0}
           /\ DOMAIN batches = 1 .. cur
           /\ DOMAIN tasks = 1 .. Len(tasks) /\ Len(tasks) \in Nat
           /\ DOMAIN queue = 1 .. Len(queue) /\ Len(queue) \in Nat
           /\ DOMAIN rows = 1 .. Len(rows) /\ Len(rows) \in Nat
           /\ current \in Batch
           /\ \A b \in DOMAIN batches : batches[b] \in Batch
           /\ \A t \in DOMAIN tasks : tasks[t] \in Task
           /\ \A i \in DOMAIN queue : queue[i] \in DOMAIN tasks
           /\ timer # 0 => timer \in DOMAIN tasks
           /\ holder # 0 => holder \in DOMAIN tasks
           /\ \A b \in DOMAIN batches : batches[b].first \in Nat /\ batches[b].last \in Nat
           /\ \A t \in DOMAIN tasks : tasks[t].wake \in Nat /\ tasks[t].batch \in Nat
<1>1. cur \in Nat /\ cur # 0 /\ DOMAIN batches = 1 .. cur
  BY LenProperties, EmptySeq DEF TypeOK, cur
<1>2. \A b \in DOMAIN batches : batches[b] \in Batch
  BY <1>1, ElementOfSeq DEF TypeOK, cur
<1>3. DOMAIN tasks = 1 .. Len(tasks) /\ Len(tasks) \in Nat
  BY LenProperties DEF TypeOK
<1>4. DOMAIN queue = 1 .. Len(queue) /\ Len(queue) \in Nat
  BY LenProperties DEF TypeOK
<1>5. DOMAIN rows = 1 .. Len(rows) /\ Len(rows) \in Nat
  BY LenProperties DEF TypeOK
<1>6. \A t \in DOMAIN tasks : tasks[t] \in Task
  BY <1>3, ElementOfSeq DEF TypeOK
<1>7. \A i \in DOMAIN queue : queue[i] \in DOMAIN tasks
  BY <1>4, ElementOfSeq DEF TypeOK
<1>8. (timer # 0 => timer \in DOMAIN tasks) /\ (holder # 0 => holder \in DOMAIN tasks)
  BY <1>3 DEF TypeOK
<1>9. \A b \in DOMAIN batches : batches[b].first \in Nat /\ batches[b].last \in Nat
  BY <1>2 DEF Batch
<1>10. \A t \in DOMAIN tasks : tasks[t].wake \in Nat /\ tasks[t].batch \in Nat
  BY <1>6 DEF Task
<1>11. cur \in DOMAIN batches /\ current \in Batch
  BY <1>1, <1>2 DEF current
<1>. QED
  BY <1>1, <1>2, <1>3, <1>4, <1>5, <1>6, <1>7, <1>8, <1>9, <1>10, <1>11

\* A fresh Batch is a batch.
LEMMA EmptyIsBatch == EmptyBatch \in Batch
BY DEF EmptyBatch, Batch, Ids, Results

\* What a batch is after a fragment joined it: only the first fragment sets the
\* start of the window and the id it is saved under.
LEMMA JoinedIsBatch ==
    ASSUME NEW b \in Batch, NEW r \in Requests, NEW id \in Ids, NEW token \in Nat, now \in Nat
    PROVE  /\ Joined(b, r, id, token) \in Batch
           /\ Joined(b, r, id, token).texts # <<>>
           /\ Joined(b, r, id, token).texts = Append(b.texts, r)
           /\ Joined(b, r, id, token).first = IF b.texts = <<>> THEN now ELSE b.first
           /\ Joined(b, r, id, token).last = now
           /\ Joined(b, r, id, token).wa = IF b.texts = <<>> THEN id ELSE b.wa
<1>1. b.texts \in Seq(Requests)
  BY DEF Batch
<1>2. Append(b.texts, r) \in Seq(Requests) /\ Append(b.texts, r) # <<>>
  BY <1>1, Appended
<1>. QED
  BY <1>2 DEF Joined, Batch

\* A deadline is the smaller of its two parts.
LEMMA DeadlineIsMin ==
    ASSUME NEW b, b.first \in Nat, b.last \in Nat, NEW w \in Nat
    PROVE  /\ Deadline(b) \in Nat
           /\ w <= Deadline(b) <=> w <= b.last + DebounceMs /\ w <= b.first + DebounceMaxMs
BY TimesAssumption DEF Deadline, Min2

-------------------------------------------------------------------------------
\* A process that has just started satisfies the invariant.
THEOREM InvInit == Init => Inv
<1>. SUFFICES ASSUME Init PROVE Inv
  OBVIOUS
<1>1. TypeOK
  <2>1. batches \in Seq(Batch) /\ batches # <<>>
    BY EmptyIsBatch DEF Init
  <2>2. req \in [Requests -> Inbound]
    BY DEF Init, IdleRequest, Inbound, Ids
  <2>. QED
    BY <2>1, <2>2, TimesAssumption DEF Init, TypeOK
<1>2. cur = 1 /\ current = EmptyBatch /\ DOMAIN batches = {1} /\ DOMAIN tasks = {} /\ DOMAIN rows = {} /\ DOMAIN queue = {}
  BY DEF Init, cur, current
<1>3. current.texts = <<>> /\ current.first = 0 /\ current.last = 0
  BY <1>2 DEF EmptyBatch
<1>. QED
  BY <1>1, <1>2, <1>3 DEF Init, Inv, TasksAgree, WaitersAgree, IdleRequest, OneTimer, Watched, BufferedIdIsNew,
     UniqueRows, WindowsInOrder, TimerInTime, InTime, current

-------------------------------------------------------------------------------
(* One lemma per action.                                                   *)

\* A resend changes nothing but the request that carries it.
LEMMA InboundDuplicateInv ==
    ASSUME Inv, NEW r \in Requests, NEW id \in Ids, InboundDuplicate(r, id)
    PROVE  Inv'
<1>. USE DEF Inv
<1>1. UNCHANGED <<now, seen, rows, batches, seq, timer, tasks, holder, queue, restarts>>
  BY DEF InboundDuplicate
<1>2. TypeOK'
  <2>1. [req[r] EXCEPT !.pc = "returned", !.id = id, !.status = "duplicate"] \in Inbound
    BY DEF TypeOK, Inbound
  <2>2. req' \in [Requests -> Inbound]
    BY <2>1 DEF InboundDuplicate, TypeOK
  <2>. QED
    BY <1>1, <2>2 DEF TypeOK
<1>3. WaitersAgree'
  BY <1>1 DEF InboundDuplicate, WaitersAgree, TypeOK
<1>. QED
  BY <1>1, <1>2, <1>3 DEF TasksAgree, OneTimer, Watched, BufferedIdIsNew, UniqueRows,
     WindowsInOrder, TimerInTime, InTime, current, cur

\* An accepted fragment joins the buffer, under an id no row has, and leaves a
\* timer that rings in time.
LEMMA InboundAcceptInv ==
    ASSUME Inv, NEW r \in Requests, NEW id \in Ids, InboundAccept(r, id)
    PROVE  Inv'
<1>. USE DEF Inv
<1>. DEFINE joined == Joined(current, r, id, seq + 1)
            task == [pc |-> "sleeping", batch |-> cur, wake |-> now, drained |-> 0]
<1>1. UNCHANGED <<now, rows, holder, queue, restarts>>
  BY DEF InboundAccept
<1>2. now \in Nat /\ seq \in Nat /\ DebounceMs \in Nat /\ DebounceMaxMs \in Nat
  BY TimesAssumption DEF TypeOK
<1>3. /\ joined \in Batch
      /\ joined.texts # <<>>
      /\ joined.first = IF current.texts = <<>> THEN now ELSE current.first
      /\ joined.last = now
      /\ joined.wa = IF current.texts = <<>> THEN id ELSE current.wa
  BY <1>2, Typed, JoinedIsBatch
<1>4. /\ batches' \in Seq(Batch)
      /\ DOMAIN batches' = DOMAIN batches
      /\ cur' = cur
      /\ current' = joined
      /\ \A b \in DOMAIN batches : b # cur => batches'[b] = batches[b]
  <2>1. batches' = [batches EXCEPT ![cur] = joined]
    BY DEF InboundAccept, current
  <2>. HIDE DEF joined
  <2>. QED
    BY <1>3, <2>1, Typed, Updated DEF TypeOK, current, cur
<1>5. /\ tasks' \in Seq(Task)
      /\ DOMAIN tasks \subseteq DOMAIN tasks'
      /\ \A t \in DOMAIN tasks : tasks'[t] = tasks[t]
      /\ timer' \in DOMAIN tasks' /\ timer' # 0 /\ DOMAIN tasks' = 1 .. Len(tasks')
      /\ tasks'[timer'].pc = "sleeping"
      /\ \A t \in DOMAIN tasks' : t \in DOMAIN tasks \/ (t = timer' /\ tasks'[t] = task)
      /\ timer # 0 => timer' = timer
      /\ timer = 0 => tasks'[timer'] = task
  <2>1. CASE TimerIdle
    <3>1. task \in Task
      BY <1>2, Typed DEF Task
    <3>2. tasks' = Append(tasks, task) /\ timer' = Len(tasks) + 1
      BY <2>1 DEF InboundAccept, EnsureTimer
    <3>3. timer = 0
      BY <2>1, Typed DEF TimerIdle, TasksAgree, TypeOK
    <3>. HIDE DEF task
    <3>4. /\ tasks' \in Seq(Task)
          /\ DOMAIN tasks' = 1 .. Len(tasks) + 1
          /\ Len(tasks') = Len(tasks) + 1
          /\ tasks'[timer'] = task
          /\ \A t \in DOMAIN tasks : tasks'[t] = tasks[t]
      BY <3>1, <3>2, Appended DEF TypeOK
    <3>. QED
      BY <3>2, <3>3, <3>4, Typed DEF task
  <2>2. CASE ~TimerIdle
    <3>1. UNCHANGED <<tasks, timer>>
      BY <2>2 DEF InboundAccept, EnsureTimer
    <3>. QED
      BY <3>1, <2>2, Typed DEF TimerIdle, TasksAgree, TypeOK
  <2>. QED
    BY <2>1, <2>2
<1>. HIDE DEF joined, task
<1>6. TypeOK'
  <2>1. [req[r] EXCEPT !.pc = "waiting", !.id = id, !.token = seq + 1, !.batch = cur] \in Inbound
    <3>1. req[r] \in Inbound
      BY DEF TypeOK
    <3>2. cur \in Nat /\ seq + 1 \in Nat
      BY <1>2, Typed
    <3>. QED
      BY <3>1, <3>2 DEF Inbound
  <2>2. req' \in [Requests -> Inbound]
    BY <2>1 DEF InboundAccept, TypeOK
  <2>3. queue' \in Seq(DOMAIN tasks')
    BY <1>1, <1>5, SeqMonotonic DEF TypeOK
  <2>4. timer' \in 0 .. Len(tasks') /\ holder' \in 0 .. Len(tasks')
    BY <1>1, <1>5, Typed DEF TypeOK
  <2>5. seen' \subseteq WaIds /\ seq' \in Nat
    BY <1>2 DEF InboundAccept, TypeOK, Ids
  <2>6. batches' # <<>>
    BY <1>4, Typed DEF cur
  <2>. QED
    BY <1>1, <1>4, <1>5, <2>2, <2>3, <2>4, <2>5, <2>6 DEF TypeOK
<1>7. TasksAgree'
  <2>1. OneTimer'
    BY <1>5, Typed DEF TasksAgree, OneTimer
  <2>2. holder # 0 => tasks'[holder].pc = "turn"
    BY <1>5, Typed DEF TasksAgree
  <2>3. ASSUME NEW t \in DOMAIN tasks'
        PROVE  /\ tasks'[t].batch \in DOMAIN batches
               /\ tasks'[t].pc = "turn" => t = holder /\ tasks'[t].drained \in DOMAIN batches
    BY <1>5, Typed DEF TasksAgree, task
  <2>4. \A i \in DOMAIN queue : tasks'[queue[i]].pc = "blocked"
    BY <1>5, Typed DEF TasksAgree
  <2>5. \A i, j \in DOMAIN queue : queue[i] = queue[j] => i = j
    BY DEF TasksAgree
  <2>. QED
    BY <1>1, <1>4, <1>5, <2>1, <2>2, <2>3, <2>4, <2>5 DEF TasksAgree
<1>8. Watched'
  BY <1>5 DEF Watched
<1>9. BufferedIdIsNew'
  <2>1. id # NoId => \A i \in DOMAIN rows : rows[i].wa # id
    BY DEF InboundAccept, Duplicate
  <2>. QED
    BY <1>1, <1>3, <1>4, <2>1 DEF BufferedIdIsNew
<1>10. UniqueRows'
  BY <1>1 DEF UniqueRows
<1>11. WindowsInOrder'
  <2>1. \A b \in DOMAIN batches :
          /\ batches[b].first <= now /\ batches[b].last <= now
          /\ current.texts # <<>> => batches[b].first <= current.first
    BY DEF WindowsInOrder
  <2>2. joined.first <= now /\ joined.first \in Nat
    BY <1>2, <1>3, <2>1, Typed DEF current
  <2>3. ASSUME NEW b \in DOMAIN batches'
        PROVE  /\ batches'[b].first <= now /\ batches'[b].first <= joined.first
               /\ batches'[b].last <= now
    <3>1. CASE b = cur
      BY <1>2, <1>3, <1>4, <2>2, <3>1 DEF current
    <3>2. CASE b # cur
      BY <1>3, <1>4, <2>1, <3>2
    <3>. QED
      BY <3>1, <3>2
  <2>. QED
    BY <1>1, <1>3, <1>4, <2>3 DEF WindowsInOrder
<1>12. TimerInTime'
  <2>1. CASE timer = 0
    <3>1. tasks'[timer'].wake = now
      BY <1>5, <2>1 DEF task
    <3>2. joined.first = now \/ (current.texts # <<>> /\ queue # <<>>)
      BY <1>3, <2>1 DEF Watched
    <3>. QED
      BY <1>1, <1>2, <1>3, <1>4, <3>1, <3>2 DEF TimerInTime, Deadline, Min2
  <2>2. CASE timer # 0
    <3>1. timer' = timer /\ tasks'[timer'] = tasks[timer] /\ tasks[timer].wake \in Nat
      BY <1>5, <2>2, Typed
    <3>2. current.first \in Nat /\ current.last \in Nat
      BY Typed DEF Batch
    <3>3. current.last <= now
      BY Typed DEF WindowsInOrder, current
    <3>4. joined.first \in Nat /\ joined.last \in Nat
      BY <1>2, <1>3, <3>2
    <3>5. /\ tasks[timer].wake <= now + DebounceMs /\ tasks[timer].wake <= now + DebounceMaxMs
          /\ current.texts # <<>> /\ queue = <<>> => tasks[timer].wake <= current.first + DebounceMaxMs
      BY <2>2, <3>1, <3>2, DeadlineIsMin DEF TimerInTime
    <3>6. queue = <<>> => tasks[timer].wake <= Deadline(joined)
      BY <1>2, <1>3, <3>1, <3>4, <3>5, DeadlineIsMin
    <3>. QED
      BY <1>1, <1>2, <1>4, <2>2, <3>1, <3>5, <3>6 DEF TimerInTime
  <2>. QED
    BY <2>1, <2>2
<1>13. InTime'
  <2>1. current.first \in Nat /\ current.last \in Nat
    BY Typed DEF Batch
  <2>2. current.last <= now
    BY Typed DEF WindowsInOrder, current
  <2>. QED
    BY <1>1, <1>2, <1>3, <1>4, <2>1, <2>2 DEF InTime, Deadline, Min2
<1>14. WaitersAgree'
  <2>1. ASSUME NEW q \in Requests, req'[q].pc = "waiting"
        PROVE  req'[q].batch \in DOMAIN batches
    <3>1. CASE q = r
      BY <3>1, Typed DEF InboundAccept, TypeOK, Inbound
    <3>2. CASE q # r
      BY <2>1, <3>2 DEF InboundAccept, TypeOK, WaitersAgree
    <3>. QED
      BY <3>1, <3>2
  <2>. QED
    BY <1>4, <2>1 DEF WaitersAgree
<1>. QED
  BY <1>6, <1>7, <1>8, <1>9, <1>10, <1>11, <1>12, <1>13, <1>14

\* A timer that sleeps on wakes no later than the cap of the batch it was made for,
\* which is no later than the cap of the buffer.
LEMMA SleepOnInv ==
    ASSUME Inv, NEW t \in DOMAIN tasks, SleepOn(t)
    PROVE  Inv'
<1>. USE DEF Inv
<1>. DEFINE b == batches[tasks[t].batch]
            task == [tasks[t] EXCEPT !.wake = Deadline(b)]
<1>1. UNCHANGED <<now, seen, rows, batches, seq, timer, holder, queue, req, restarts>>
  BY DEF SleepOn
<1>2. now \in Nat /\ DebounceMs \in Nat /\ DebounceMaxMs \in Nat
  BY TimesAssumption DEF TypeOK
<1>3. t = timer /\ tasks[t].pc = "sleeping" /\ tasks[t] \in Task /\ tasks[t].batch \in DOMAIN batches
  BY Typed DEF SleepOn, Due, TasksAgree, OneTimer
<1>4. b \in Batch /\ b.first \in Nat /\ b.last \in Nat /\ current.first \in Nat /\ current.last \in Nat
  BY <1>3, Typed DEF Batch
<1>5. Deadline(b) \in Nat /\ Deadline(b) <= b.first + DebounceMaxMs /\ Deadline(b) <= b.last + DebounceMs
  BY <1>2, <1>4 DEF Deadline, Min2
<1>6. task \in Task /\ task.pc = "sleeping" /\ task.wake = Deadline(b) /\ task.batch = tasks[t].batch
  BY <1>3, <1>5 DEF Task
<1>7. /\ b.first <= now /\ b.last <= now
      /\ current.texts # <<>> => b.first <= current.first /\ b.last <= current.last
  BY <1>3 DEF WindowsInOrder
<1>8. tasks' = [tasks EXCEPT ![t] = task]
  BY DEF SleepOn
<1>. HIDE DEF task
<1>9. /\ tasks' \in Seq(Task)
      /\ DOMAIN tasks' = DOMAIN tasks
      /\ Len(tasks') = Len(tasks)
      /\ \A u \in DOMAIN tasks : tasks'[u] = IF u = t THEN task ELSE tasks[u]
  BY <1>6, <1>8, Updated DEF TypeOK
<1>10. TypeOK'
  BY <1>1, <1>9 DEF TypeOK
<1>11. TasksAgree'
  <2>1. OneTimer' /\ (timer # 0 => tasks'[timer].pc = "sleeping")
    BY <1>1, <1>3, <1>6, <1>9 DEF TasksAgree, OneTimer
  <2>2. holder # 0 => tasks'[holder].pc = "turn"
    BY <1>3, <1>9, Typed DEF TasksAgree
  <2>3. ASSUME NEW u \in DOMAIN tasks
        PROVE  /\ tasks'[u].batch \in DOMAIN batches
               /\ tasks'[u].pc = "turn" => u = holder /\ tasks'[u].drained \in DOMAIN batches
    BY <1>3, <1>6, <1>9 DEF TasksAgree
  <2>4. \A i \in DOMAIN queue : tasks'[queue[i]].pc = "blocked"
    BY <1>3, <1>9, Typed DEF TasksAgree
  <2>5. \A i, j \in DOMAIN queue : queue[i] = queue[j] => i = j
    BY DEF TasksAgree
  <2>. QED
    BY <1>1, <1>9, <2>1, <2>2, <2>3, <2>4, <2>5 DEF TasksAgree
<1>12. TimerInTime'
  <2>1. timer' = t /\ tasks'[t].wake = Deadline(b)
    BY <1>1, <1>3, <1>6, <1>9
  <2>2. now' = now /\ queue' = queue /\ current' = current
    BY <1>1 DEF current, cur
  <2>3. Deadline(b) <= now + DebounceMaxMs /\ Deadline(b) <= now + DebounceMs
    BY <1>2, <1>4, <1>5, <1>7
  <2>4. current.texts # <<>> => Deadline(b) <= Deadline(current)
    <3>1. SUFFICES ASSUME current.texts # <<>>
                   PROVE  /\ Deadline(b) <= current.last + DebounceMs
                          /\ Deadline(b) <= current.first + DebounceMaxMs
      BY <1>4, <1>5, DeadlineIsMin
    <3>2. b.first <= current.first /\ b.last <= current.last
      BY <1>7, <3>1
    <3>. HIDE DEF b
    <3>. QED
      BY <1>2, <1>4, <1>5, <3>2
  <2>5. Deadline(current)' = Deadline(current)
    BY <2>2 DEF Deadline
  <2>. QED
    BY <2>1, <2>2, <2>3, <2>4, <2>5 DEF TimerInTime
<1>. QED
  BY <1>1, <1>10, <1>11, <1>12 DEF WaitersAgree, Watched, BufferedIdIsNew, UniqueRows,
     WindowsInOrder, InTime, Deadline, current, cur

\* What a drain leaves: an empty buffer, the task in its turn or done, and rows
\* whose ids are still all different.
Drained(t) ==
    /\ tasks' \in Seq(Task)
    /\ DOMAIN tasks' = DOMAIN tasks /\ Len(tasks') = Len(tasks)
    /\ \A u \in DOMAIN tasks : u # t => tasks'[u] = tasks[u]
    /\ tasks'[t].batch = tasks[t].batch
    /\ \/ /\ tasks'[t].pc = "done" /\ holder' = 0
       \/ /\ tasks'[t].pc = "turn" /\ holder' = t
          /\ tasks'[t].drained \in DOMAIN batches'
    /\ batches' \in Seq(Batch) /\ batches' # <<>>
    /\ DOMAIN batches \subseteq DOMAIN batches'
    /\ current'.texts = <<>>
    /\ \A b \in DOMAIN batches' :
         \/ batches'[b].first = 0 /\ batches'[b].last = 0
         \/ /\ b \in DOMAIN batches
            /\ batches'[b].first = batches[b].first /\ batches'[b].last = batches[b].last
    /\ rows' \in Seq([texts : Seq(Requests), wa : Ids])
    /\ UniqueRows'

\* A drain leaves that.
LEMMA DrainLeaves ==
    ASSUME Inv, NEW t \in DOMAIN tasks, Drain(t)
    PROVE  Drained(t)
<1>. TypeOK /\ TasksAgree /\ WaitersAgree /\ Watched /\ BufferedIdIsNew /\ UniqueRows /\ WindowsInOrder
     /\ TimerInTime /\ InTime
  BY DEF Inv
<1>1. CASE current.texts = <<>>
  <2>. DEFINE task == [tasks[t] EXCEPT !.pc = "done"]
  <2>1. tasks' = [tasks EXCEPT ![t] = task] /\ holder' = 0 /\ UNCHANGED <<batches, rows>>
    BY <1>1 DEF Drain
  <2>2. task \in Task /\ task.pc = "done" /\ task.batch = tasks[t].batch
    BY Typed DEF Task
  <2>. HIDE DEF task
  <2>3. /\ tasks' \in Seq(Task)
        /\ DOMAIN tasks' = DOMAIN tasks /\ Len(tasks') = Len(tasks)
        /\ \A u \in DOMAIN tasks : tasks'[u] = IF u = t THEN task ELSE tasks[u]
    BY <2>1, <2>2, Updated DEF TypeOK
  <2>4. current' = current /\ UniqueRows'
    BY <2>1 DEF current, cur, UniqueRows
  <2>5. batches' \in Seq(Batch) /\ batches' # <<>> /\ rows' \in Seq([texts : Seq(Requests), wa : Ids])
    BY <2>1 DEF TypeOK
  <2>. QED
    BY <1>1, <2>1, <2>2, <2>3, <2>4, <2>5 DEF Drained
<1>2. CASE current.texts # <<>>
  <2>. DEFINE task == [tasks[t] EXCEPT !.pc = "turn", !.drained = cur]
              closed == [current EXCEPT !.winner = current.lastToken]
              row == [texts |-> current.texts, wa |-> current.wa]
              kept == [batches EXCEPT ![cur] = closed]
  <2>1. /\ tasks' = [tasks EXCEPT ![t] = task]
        /\ holder' = t
        /\ batches' = Append(kept, EmptyBatch)
        /\ rows' = Append(rows, row)
    BY <1>2 DEF Drain, current
  <2>2. task \in Task /\ task.pc = "turn" /\ task.batch = tasks[t].batch /\ task.drained = cur
    BY Typed DEF Task
  <2>3. closed \in Batch /\ closed.first = current.first /\ closed.last = current.last
    <3>1. current \in Batch
      BY Typed
    <3>. QED
      BY <3>1 DEF Batch
  <2>4. row \in [texts : Seq(Requests), wa : Ids] /\ row.wa = current.wa
    <3>1. current \in Batch
      BY Typed
    <3>. QED
      BY <3>1 DEF Batch
  <2>. HIDE DEF task, closed, row
  <2>5. /\ tasks' \in Seq(Task)
        /\ DOMAIN tasks' = DOMAIN tasks /\ Len(tasks') = Len(tasks)
        /\ \A u \in DOMAIN tasks : tasks'[u] = IF u = t THEN task ELSE tasks[u]
    BY <2>1, <2>2, Updated DEF TypeOK
  <2>6. /\ kept \in Seq(Batch) /\ DOMAIN kept = DOMAIN batches /\ Len(kept) = cur
        /\ \A b \in DOMAIN batches : kept[b] = IF b = cur THEN closed ELSE batches[b]
    BY <2>3, Typed, Updated DEF TypeOK, cur
  <2>. HIDE DEF kept
  <2>7. /\ batches' \in Seq(Batch) /\ batches' # <<>>
        /\ DOMAIN batches' = 1 .. cur + 1
        /\ Len(batches') = cur + 1
        /\ batches'[cur + 1] = EmptyBatch
        /\ \A b \in DOMAIN batches : batches'[b] = kept[b]
    <3>1. batches' = Append(kept, EmptyBatch)
      BY <2>1
    <3>. QED
      BY <2>6, <3>1, Appended, EmptyIsBatch
  <2>8. current' = EmptyBatch
    BY <2>7 DEF current, cur
  <2>9. DOMAIN batches = 1 .. cur /\ cur \in Nat \ {0}
    BY Typed
  <2>10. \A b \in DOMAIN batches' :
           \/ batches'[b].first = 0 /\ batches'[b].last = 0
           \/ /\ b \in DOMAIN batches
              /\ batches'[b].first = batches[b].first /\ batches'[b].last = batches[b].last
    <3>1. \A b \in DOMAIN batches :
            batches'[b].first = batches[b].first /\ batches'[b].last = batches[b].last
      BY <2>3, <2>6, <2>7 DEF current
    <3>2. batches'[cur + 1].first = 0 /\ batches'[cur + 1].last = 0
      BY <2>7 DEF EmptyBatch
    <3>. QED
      BY <3>1, <3>2, <2>7, <2>9
  <2>11. /\ rows' \in Seq([texts : Seq(Requests), wa : Ids])
         /\ DOMAIN rows' = 1 .. Len(rows) + 1
         /\ rows'[Len(rows) + 1] = row
         /\ \A i \in DOMAIN rows : rows'[i] = rows[i]
    <3>1. rows \in Seq([texts : Seq(Requests), wa : Ids]) /\ rows' = Append(rows, row)
      BY <2>1 DEF TypeOK
    <3>. QED
      BY <2>4, <3>1, Appended
  <2>12. UniqueRows'
    <3>1. \A i \in DOMAIN rows : rows[i].wa = row.wa => row.wa = NoId
      BY <1>2, <2>4 DEF BufferedIdIsNew
    <3>2. DOMAIN rows = 1 .. Len(rows) /\ Len(rows) \in Nat
      BY Typed
    <3>3. ASSUME NEW i \in DOMAIN rows', NEW j \in DOMAIN rows',
                 rows'[i].wa = rows'[j].wa, rows'[i].wa # NoId
          PROVE  i = j
      <4>1. CASE i \in DOMAIN rows /\ j \in DOMAIN rows
        BY <2>11, <3>3, <4>1 DEF UniqueRows
      <4>2. CASE ~(i \in DOMAIN rows /\ j \in DOMAIN rows)
        BY <2>11, <3>1, <3>2, <3>3, <4>2
      <4>. QED
        BY <4>1, <4>2
    <3>. QED
      BY <3>3 DEF UniqueRows
  <2>13. /\ tasks'[t].pc = "turn" /\ holder' = t /\ tasks'[t].batch = tasks[t].batch
         /\ tasks'[t].drained \in DOMAIN batches'
    <3>1. cur \in DOMAIN batches'
      BY <2>7, <2>9
    <3>. QED
      BY <2>1, <2>2, <2>5, <3>1
  <2>14. current'.texts = <<>>
    BY <2>8 DEF EmptyBatch
  <2>15. \A u \in DOMAIN tasks : u # t => tasks'[u] = tasks[u]
    BY <2>5
  <2>16. DOMAIN batches \subseteq DOMAIN batches'
    BY <2>7, <2>9
  <2>. QED
    BY <2>5, <2>7, <2>10, <2>11, <2>12, <2>13, <2>14, <2>15, <2>16 DEF Drained
<1>. QED
  BY <1>1, <1>2

\* A task whose window is over stops being the timer, and drains or queues.
LEMMA FireInv ==
    ASSUME Inv, NEW t \in DOMAIN tasks, Fire(t)
    PROVE  Inv'
<1>. TypeOK /\ TasksAgree /\ WaitersAgree /\ Watched /\ BufferedIdIsNew /\ UniqueRows /\ WindowsInOrder
     /\ TimerInTime /\ InTime
  BY DEF Inv
<1>1. UNCHANGED <<now, seen, seq, req, restarts>> /\ timer' = 0
  BY DEF Fire
<1>2. t = timer /\ tasks[t].pc = "sleeping" /\ tasks[t] \in Task
  BY Typed DEF Fire, Due, TasksAgree, OneTimer
<1>3. \A u \in DOMAIN tasks : tasks[u].pc = "sleeping" => u = t
  BY <1>2 DEF TasksAgree, OneTimer
<1>4. \A i \in DOMAIN queue : queue[i] # t /\ queue[i] \in DOMAIN tasks
  BY <1>2, Typed DEF TasksAgree
<1>5. CASE /\ holder = 0 /\ queue = <<>>
           /\ Drain(t)
           /\ UNCHANGED queue
  <2>0. Drained(t)
    BY <1>5, DrainLeaves
  <2>1. TypeOK'
    <3>1. holder' \in 0 .. Len(tasks') /\ timer' \in 0 .. Len(tasks')
      BY <1>1, <2>0, Typed DEF Drained
    <3>. QED
      BY <1>1, <1>5, <2>0, <3>1 DEF Drained, TypeOK
  <2>2. TasksAgree'
    <3>1. OneTimer'
      BY <1>1, <1>3, <2>0 DEF OneTimer, Drained
    <3>2. holder' # 0 => tasks'[holder'].pc = "turn"
      BY <2>0 DEF Drained
    <3>3. ASSUME NEW u \in DOMAIN tasks'
          PROVE  /\ tasks'[u].batch \in DOMAIN batches'
                 /\ tasks'[u].pc = "turn" => u = holder' /\ tasks'[u].drained \in DOMAIN batches'
      <4>1. CASE u = t
        BY <2>0, <4>1 DEF TasksAgree, Drained
      <4>2. CASE u # t
        <5>1. u \in DOMAIN tasks /\ tasks'[u] = tasks[u]
          BY <2>0, <4>2 DEF Drained
        <5>2. tasks[u].pc # "turn"
          BY <1>5, <5>1, Typed DEF TasksAgree
        <5>. QED
          BY <2>0, <5>1, <5>2 DEF TasksAgree, Drained
      <4>. QED
        BY <4>1, <4>2
    <3>4. DOMAIN queue' = {}
      BY <1>5
    <3>. QED
      BY <1>1, <3>1, <3>2, <3>3, <3>4 DEF TasksAgree
  <2>3. \A b \in DOMAIN batches' : batches'[b].first <= now' /\ batches'[b].last <= now'
    <3>1. now \in Nat /\ now' = now
      BY <1>1 DEF TypeOK
    <3>2. \A b \in DOMAIN batches : batches[b].first <= now /\ batches[b].last <= now
      BY DEF WindowsInOrder
    <3>3. ASSUME NEW b \in DOMAIN batches' PROVE batches'[b].first <= now /\ batches'[b].last <= now
      <4>1. CASE batches'[b].first = 0 /\ batches'[b].last = 0
        BY <3>1, <4>1
      <4>2. CASE /\ b \in DOMAIN batches
                 /\ batches'[b].first = batches[b].first /\ batches'[b].last = batches[b].last
        BY <3>2, <4>2
      <4>. QED
        BY <2>0, <4>1, <4>2 DEF Drained
    <3>. QED
      BY <3>1, <3>3
  <2>. QED
    BY <1>1, <2>0, <2>1, <2>2, <2>3 DEF Drained, Inv, WaitersAgree, Watched, BufferedIdIsNew,
       WindowsInOrder, TimerInTime, InTime
<1>6. CASE /\ ~(holder = 0 /\ queue = <<>>)
           /\ tasks' = [tasks EXCEPT ![t].pc = "blocked"]
           /\ queue' = Append(queue, t)
           /\ UNCHANGED <<batches, rows, holder>>
  <2>. DEFINE task == [tasks[t] EXCEPT !.pc = "blocked"]
  <2>1. task \in Task /\ task.pc = "blocked" /\ task.batch = tasks[t].batch
    BY <1>2 DEF Task
  <2>2. tasks' = [tasks EXCEPT ![t] = task]
    BY <1>6
  <2>. HIDE DEF task
  <2>3. /\ tasks' \in Seq(Task)
        /\ DOMAIN tasks' = DOMAIN tasks /\ Len(tasks') = Len(tasks)
        /\ \A u \in DOMAIN tasks : tasks'[u] = IF u = t THEN task ELSE tasks[u]
    BY <2>1, <2>2, Updated DEF TypeOK
  <2>4. /\ queue' \in Seq(DOMAIN tasks) /\ queue' # <<>>
        /\ DOMAIN queue' = 1 .. Len(queue) + 1
        /\ queue'[Len(queue) + 1] = t
        /\ \A i \in DOMAIN queue : queue'[i] = queue[i]
        /\ DOMAIN queue = 1 .. Len(queue) /\ Len(queue) \in Nat
    <3>1. queue \in Seq(DOMAIN tasks) /\ queue' = Append(queue, t)
      BY <1>6 DEF TypeOK
    <3>. QED
      BY <3>1, Appended, Typed
  <2>5. TypeOK'
    BY <1>1, <1>6, <2>3, <2>4, Typed DEF TypeOK
  <2>6. TasksAgree'
    <3>1. OneTimer'
      BY <1>3, <2>1, <2>3 DEF OneTimer
    <3>2. holder # 0 => tasks'[holder].pc = "turn"
      BY <1>2, <2>3, Typed DEF TasksAgree
    <3>3. ASSUME NEW u \in DOMAIN tasks
          PROVE  /\ tasks'[u].batch \in DOMAIN batches
                 /\ tasks'[u].pc = "turn" => u = holder /\ tasks'[u].drained \in DOMAIN batches
      BY <2>1, <2>3 DEF TasksAgree
    <3>4. \A i \in DOMAIN queue' : tasks'[queue'[i]].pc = "blocked"
      BY <1>4, <2>1, <2>3, <2>4 DEF TasksAgree
    <3>5. \A i, j \in DOMAIN queue' : queue'[i] = queue'[j] => i = j
      BY <1>4, <2>4 DEF TasksAgree
    <3>. QED
      BY <1>1, <1>6, <2>3, <3>1, <3>2, <3>3, <3>4, <3>5 DEF TasksAgree
  <2>7. current' = current
    BY <1>6 DEF current, cur
  <2>8. Watched' /\ TimerInTime' /\ InTime'
    BY <1>1, <2>4 DEF Watched, TimerInTime, InTime
  <2>9. WaitersAgree' /\ BufferedIdIsNew' /\ UniqueRows' /\ WindowsInOrder'
    BY <1>1, <1>6, <2>7 DEF WaitersAgree, BufferedIdIsNew, UniqueRows, WindowsInOrder
  <2>. QED
    BY <2>5, <2>6, <2>8, <2>9 DEF Inv
<1>. QED
  BY <1>5, <1>6 DEF Fire

\* The first of the queue gets the lock and drains.
LEMMA GrantInv ==
    ASSUME Inv, NEW t \in DOMAIN tasks, Grant(t)
    PROVE  Inv'
<1>. TypeOK /\ TasksAgree /\ WaitersAgree /\ Watched /\ BufferedIdIsNew /\ UniqueRows /\ WindowsInOrder
     /\ TimerInTime /\ InTime
  BY DEF Inv
<1>1. UNCHANGED <<now, seen, seq, timer, req, restarts>>
  BY DEF Grant
<1>2. holder = 0 /\ queue # <<>> /\ t = Head(queue) /\ queue' = Tail(queue)
  BY DEF Grant, Grantable
<1>3. Drained(t)
  BY DrainLeaves DEF Grant
<1>4. /\ queue' \in Seq(DOMAIN tasks)
      /\ Len(queue) \in Nat \ {0} /\ DOMAIN queue = 1 .. Len(queue)
      /\ DOMAIN queue' = 1 .. Len(queue) - 1
      /\ \A i \in DOMAIN queue' : queue'[i] = queue[i + 1]
      /\ t = queue[1]
  <2>1. queue \in Seq(DOMAIN tasks)
    BY DEF TypeOK
  <2>2. Len(queue) \in Nat \ {0} /\ DOMAIN queue = 1 .. Len(queue)
    BY <1>2, <2>1, EmptySeq, LenProperties
  <2>3. queue' \in Seq(DOMAIN tasks) /\ Len(queue') = Len(queue) - 1
        /\ \A i \in 1 .. Len(queue') : queue'[i] = queue[i + 1]
    BY <1>2, <2>1, HeadTailProperties
  <2>4. DOMAIN queue' = 1 .. Len(queue')
    BY <2>3, LenProperties
  <2>. QED
    BY <1>2, <2>1, <2>2, <2>3, <2>4
<1>5. tasks[t].pc = "blocked"
  BY <1>4 DEF TasksAgree
<1>6. TypeOK'
  <2>1. holder' \in 0 .. Len(tasks') /\ timer' \in 0 .. Len(tasks')
    BY <1>1, <1>3, Typed DEF Drained, TypeOK
  <2>. QED
    BY <1>1, <1>3, <1>4, <2>1 DEF Drained, TypeOK
<1>7. TasksAgree'
  <2>1. OneTimer'
    BY <1>1, <1>3, <1>5 DEF TasksAgree, OneTimer, Drained
  <2>2. holder' # 0 => tasks'[holder'].pc = "turn"
    BY <1>3 DEF Drained
  <2>3. ASSUME NEW u \in DOMAIN tasks'
        PROVE  /\ tasks'[u].batch \in DOMAIN batches'
               /\ tasks'[u].pc = "turn" => u = holder' /\ tasks'[u].drained \in DOMAIN batches'
    <3>1. CASE u = t
      BY <1>3, <3>1 DEF TasksAgree, Drained
    <3>2. CASE u # t
      <4>1. u \in DOMAIN tasks /\ tasks'[u] = tasks[u]
        BY <1>3, <3>2 DEF Drained
      <4>2. tasks[u].pc # "turn"
        BY <1>2, <4>1, Typed DEF TasksAgree
      <4>. QED
        BY <1>3, <4>1, <4>2 DEF TasksAgree, Drained
    <3>. QED
      BY <3>1, <3>2
  <2>4. \A i, j \in DOMAIN queue' : queue'[i] = queue'[j] => i = j
    BY <1>4 DEF TasksAgree
  <2>5. ASSUME NEW i \in DOMAIN queue' PROVE tasks'[queue'[i]].pc = "blocked"
    <3>1. i + 1 \in DOMAIN queue /\ 1 \in DOMAIN queue /\ i + 1 # 1 /\ queue'[i] = queue[i + 1]
      BY <1>4
    <3>2. queue[i + 1] # t /\ queue[i + 1] \in DOMAIN tasks /\ tasks[queue[i + 1]].pc = "blocked"
      BY <1>4, <3>1, Typed DEF TasksAgree
    <3>. QED
      BY <1>3, <3>1, <3>2 DEF Drained
  <2>6. timer' # 0 => tasks'[timer'].pc = "sleeping"
    BY <1>1, <1>3, <1>5, Typed DEF TasksAgree, Drained
  <2>. QED
    BY <2>1, <2>2, <2>3, <2>4, <2>5, <2>6 DEF TasksAgree
<1>8. \A b \in DOMAIN batches' : batches'[b].first <= now' /\ batches'[b].last <= now'
  <2>1. now \in Nat /\ now' = now
    BY <1>1 DEF TypeOK
  <2>2. \A b \in DOMAIN batches : batches[b].first <= now /\ batches[b].last <= now
    BY DEF WindowsInOrder
  <2>3. ASSUME NEW b \in DOMAIN batches' PROVE batches'[b].first <= now /\ batches'[b].last <= now
    <3>1. CASE batches'[b].first = 0 /\ batches'[b].last = 0
      BY <2>1, <3>1
    <3>2. CASE /\ b \in DOMAIN batches
               /\ batches'[b].first = batches[b].first /\ batches'[b].last = batches[b].last
      BY <2>2, <3>2
    <3>. QED
      BY <1>3, <3>1, <3>2 DEF Drained
  <2>. QED
    BY <2>1, <2>3
<1>9. timer' # 0 => /\ tasks'[timer'].wake <= now' + DebounceMs
                    /\ tasks'[timer'].wake <= now' + DebounceMaxMs
  BY <1>1, <1>3, <1>5, Typed DEF TasksAgree, TimerInTime, Drained
<1>10. current'.texts = <<>> /\ UniqueRows'
  BY <1>3 DEF Drained
<1>. QED
  BY <1>1, <1>3, <1>6, <1>7, <1>8, <1>9, <1>10 DEF Drained, Inv, WaitersAgree, Watched, BufferedIdIsNew, WindowsInOrder,
     TimerInTime, InTime

\* The end of a turn writes a result into its batch and frees the lock.
LEMMA FinishTurnInv ==
    ASSUME Inv, NEW t \in DOMAIN tasks, NEW result \in Results \ {"none"}, FinishTurn(t, result)
    PROVE  Inv'
<1>. TypeOK /\ TasksAgree /\ WaitersAgree /\ Watched /\ BufferedIdIsNew /\ UniqueRows /\ WindowsInOrder
     /\ TimerInTime /\ InTime
  BY DEF Inv
<1>. DEFINE d == tasks[t].drained
            closed == [batches[d] EXCEPT !.result = result]
            task == [tasks[t] EXCEPT !.pc = "done"]
<1>1. UNCHANGED <<now, seen, rows, seq, timer, queue, req, restarts>> /\ holder' = 0
  BY DEF FinishTurn
<1>2. tasks[t].pc = "turn" /\ t = holder /\ d \in DOMAIN batches
  BY DEF FinishTurn, TasksAgree
<1>3. /\ closed \in Batch /\ closed.first = batches[d].first /\ closed.last = batches[d].last
      /\ closed.texts = batches[d].texts /\ closed.wa = batches[d].wa
  <2>1. batches[d] \in Batch
    BY <1>2, Typed
  <2>. QED
    BY <2>1 DEF Batch
<1>4. task \in Task /\ task.pc = "done" /\ task.batch = tasks[t].batch
  BY Typed DEF Task
<1>5. batches' = [batches EXCEPT ![d] = closed] /\ tasks' = [tasks EXCEPT ![t] = task]
  BY DEF FinishTurn
<1>. HIDE DEF closed, task
<1>6. /\ tasks' \in Seq(Task)
      /\ DOMAIN tasks' = DOMAIN tasks /\ Len(tasks') = Len(tasks)
      /\ \A u \in DOMAIN tasks : tasks'[u] = IF u = t THEN task ELSE tasks[u]
  BY <1>4, <1>5, Updated DEF TypeOK
<1>7. /\ batches' \in Seq(Batch) /\ DOMAIN batches' = DOMAIN batches /\ cur' = cur
      /\ \A b \in DOMAIN batches : batches'[b] = IF b = d THEN closed ELSE batches[b]
  BY <1>2, <1>3, <1>5, Updated DEF TypeOK, cur
<1>. HIDE DEF d
<1>8. /\ \A b \in DOMAIN batches :
              batches'[b].first = batches[b].first /\ batches'[b].last = batches[b].last
      /\ current'.first = current.first /\ current'.last = current.last /\ current'.texts = current.texts
      /\ current'.wa = current.wa /\ batches' # <<>>
  <2>1. current' = batches'[cur]
    BY <1>7 DEF current
  <2>2. batches' # <<>>
    BY <1>7, Typed DEF cur
  <2>. QED
    BY <1>2, <1>3, <1>7, <2>1, <2>2, Typed DEF current
<1>9. TypeOK'
  BY <1>1, <1>6, <1>7, <1>8, Typed DEF TypeOK
<1>10. TasksAgree'
  <2>1. OneTimer' /\ (timer' # 0 => tasks'[timer'].pc = "sleeping")
    BY <1>1, <1>2, <1>4, <1>6, Typed DEF TasksAgree, OneTimer
  <2>2. ASSUME NEW u \in DOMAIN tasks'
        PROVE  /\ tasks'[u].batch \in DOMAIN batches'
               /\ tasks'[u].pc = "turn" => u = holder' /\ tasks'[u].drained \in DOMAIN batches'
    BY <1>2, <1>4, <1>6, <1>7 DEF TasksAgree
  <2>3. \A i \in DOMAIN queue : tasks'[queue[i]].pc = "blocked"
    BY <1>2, <1>6, Typed DEF TasksAgree
  <2>. QED
    BY <1>1, <2>1, <2>2, <2>3 DEF TasksAgree
<1>11. WaitersAgree' /\ Watched' /\ InTime' /\ BufferedIdIsNew' /\ UniqueRows'
  BY <1>1, <1>7, <1>8 DEF WaitersAgree, Watched, InTime, Deadline, BufferedIdIsNew, UniqueRows
<1>12. WindowsInOrder'
  BY <1>1, <1>7, <1>8 DEF WindowsInOrder
<1>13. TimerInTime'
  BY <1>1, <1>2, <1>6, <1>8, Typed DEF TimerInTime, TasksAgree, Deadline
<1>. QED
  BY <1>9, <1>10, <1>11, <1>12, <1>13 DEF Inv

\* A request that returns changes itself only.
LEMMA ReturnInv ==
    ASSUME Inv, NEW r \in Requests, Return(r)
    PROVE  Inv'
<1>. TypeOK /\ TasksAgree /\ WaitersAgree /\ Watched /\ BufferedIdIsNew /\ UniqueRows /\ WindowsInOrder
     /\ TimerInTime /\ InTime
  BY DEF Inv
<1>1. UNCHANGED <<now, seen, rows, batches, seq, timer, tasks, holder, queue, restarts>>
  BY DEF Return
<1>2. TypeOK'
  <2>1. /\ req[r] \in Inbound /\ req[r].pc = "waiting"
        /\ batches[req[r].batch].result # "none"
        /\ req' = [req EXCEPT ![r] = [req[r] EXCEPT !.pc = "returned", !.status = StatusFor(r)]]
    BY DEF Return, TypeOK
  <2>2. batches[req[r].batch] \in Batch
    BY <2>1, Typed DEF WaitersAgree
  <2>3. StatusFor(r) \in {"reply", "error", "coalesced"}
    BY <2>1, <2>2 DEF StatusFor, Batch, Results
  <2>4. [req[r] EXCEPT !.pc = "returned", !.status = StatusFor(r)] \in Inbound
    BY <2>1, <2>3 DEF Inbound
  <2>. QED
    BY <1>1, <2>1, <2>4 DEF TypeOK
<1>3. WaitersAgree'
  BY <1>1 DEF Return, TypeOK, WaitersAgree
<1>. QED
  BY <1>1, <1>2, <1>3 DEF TasksAgree, OneTimer, Watched, BufferedIdIsNew, UniqueRows,
     WindowsInOrder, TimerInTime, InTime, current, cur, Inv

\* The clock moves only while the timer is still to ring.
LEMMA TickInv ==
    ASSUME Inv, Tick
    PROVE  Inv'
<1>. TypeOK /\ TasksAgree /\ WaitersAgree /\ Watched /\ BufferedIdIsNew /\ UniqueRows
     /\ WindowsInOrder /\ TimerInTime /\ InTime
  BY DEF Inv
<1>1. /\ now' = now + 1
      /\ UNCHANGED <<seen, rows, batches, seq, timer, tasks, holder, queue, req, restarts>>
  BY DEF Tick
<1>2. now \in Nat /\ DebounceMs \in Nat /\ DebounceMaxMs \in Nat /\ Deadline(current) \in Nat
  BY TimesAssumption, Typed, DeadlineIsMin DEF TypeOK, current
<1>3. current' = current
  BY <1>1 DEF current, cur
<1>4. TypeOK'
  BY <1>1, <1>2 DEF TypeOK
<1>5. InTime'
  <2>1. SUFFICES ASSUME current.texts # <<>>, queue = <<>>
                 PROVE  now + 1 <= Deadline(current)
    BY <1>1, <1>3 DEF InTime, Deadline
  <2>2. timer # 0 /\ timer \in DOMAIN tasks /\ tasks[timer].pc = "sleeping"
    BY <2>1, Typed DEF Watched, TasksAgree
  <2>3. ~(tasks[timer].wake <= now) /\ tasks[timer].wake \in Nat
    BY <2>2, Typed DEF Tick, Due
  <2>4. tasks[timer].wake <= Deadline(current)
    BY <2>1, <2>2 DEF TimerInTime
  <2>. QED
    BY <1>2, <2>3, <2>4
<1>6. TimerInTime'
  BY <1>1, <1>2, <1>3, Typed DEF TimerInTime, Deadline
<1>7. WindowsInOrder'
  BY <1>1, <1>2, <1>3, Typed DEF WindowsInOrder
<1>. QED
  BY <1>1, <1>3, <1>4, <1>5, <1>6, <1>7 DEF Inv, TasksAgree, OneTimer, WaitersAgree,
     Watched, BufferedIdIsNew, UniqueRows

\* After a restart there is no task, no timer and an empty buffer.
LEMMA RestartInv ==
    ASSUME Inv, Restart
    PROVE  Inv'
<1>. TypeOK /\ TasksAgree /\ WaitersAgree /\ Watched /\ BufferedIdIsNew /\ UniqueRows
     /\ WindowsInOrder /\ TimerInTime /\ InTime
  BY DEF Inv
<1>1. /\ UNCHANGED <<now, rows>>
      /\ timer' = 0 /\ holder' = 0 /\ queue' = <<>> /\ seq' = 0 /\ seen' = {}
      /\ tasks' = [t \in DOMAIN tasks |-> [tasks[t] EXCEPT !.pc = "done"]]
      /\ batches' = Append(batches, EmptyBatch)
      /\ restarts < MaxRestarts /\ restarts' = restarts + 1
  BY DEF Restart
<1>2. /\ batches' \in Seq(Batch) /\ batches' # <<>>
      /\ DOMAIN batches' = 1 .. cur + 1
      /\ Len(batches') = cur + 1
      /\ batches'[cur + 1] = EmptyBatch
      /\ \A b \in DOMAIN batches : batches'[b] = batches[b]
      /\ DOMAIN batches = 1 .. cur /\ cur \in Nat
  <2>1. batches \in Seq(Batch) /\ batches' = Append(batches, EmptyBatch) /\ Len(batches) = cur
    BY <1>1 DEF TypeOK, cur
  <2>. QED
    BY <2>1, EmptyIsBatch, Appended, Typed
<1>3. current' = EmptyBatch
  BY <1>2 DEF current, cur
<1>4. /\ tasks' \in Seq(Task) /\ DOMAIN tasks' = DOMAIN tasks /\ Len(tasks') = Len(tasks)
      /\ \A t \in DOMAIN tasks : tasks'[t].pc = "done" /\ tasks'[t].batch = tasks[t].batch
  <2>1. \A t \in DOMAIN tasks : [tasks[t] EXCEPT !.pc = "done"] \in Task
    BY Typed DEF Task
  <2>2. tasks' \in [1 .. Len(tasks) -> Task] /\ DOMAIN tasks = 1 .. Len(tasks) /\ Len(tasks) \in Nat
    BY <1>1, <2>1, Typed
  <2>3. tasks' \in Seq(Task)
    BY <2>2, SeqDef
  <2>4. DOMAIN tasks' = 1 .. Len(tasks') /\ Len(tasks') \in Nat
    BY <2>3, LenProperties
  <2>5. Len(tasks') = Len(tasks)
    BY <2>2, <2>4
  <2>6. \A t \in DOMAIN tasks : tasks[t] \in Task
    BY Typed
  <2>. QED
    BY <1>1, <2>2, <2>3, <2>4, <2>5, <2>6 DEF Task
<1>5. TypeOK'
  <2>1. req' \in [Requests -> Inbound]
    <3>1. \A r \in Requests : req[r] \in Inbound /\ [req[r] EXCEPT !.pc = "lost"] \in Inbound
      BY DEF TypeOK, Inbound
    <3>. QED
      BY <3>1 DEF Restart
  <2>2. restarts' \in 0 .. MaxRestarts
    BY <1>1, TimesAssumption DEF TypeOK
  <2>3. queue' \in Seq(DOMAIN tasks')
    BY <1>1
  <2>4. timer' \in 0 .. Len(tasks') /\ holder' \in 0 .. Len(tasks')
    BY <1>1, <1>4, Typed
  <2>. QED
    BY <1>1, <1>2, <1>4, <2>1, <2>2, <2>3, <2>4 DEF TypeOK
<1>6. TasksAgree'
  <2>1. OneTimer'
    BY <1>4 DEF OneTimer
  <2>2. DOMAIN batches \subseteq DOMAIN batches'
    BY <1>2
  <2>3. \A t \in DOMAIN tasks' : tasks'[t].batch \in DOMAIN batches' /\ tasks'[t].pc # "turn"
    BY <1>4, <2>2 DEF TasksAgree
  <2>4. DOMAIN queue' = {}
    BY <1>1
  <2>. QED
    BY <1>1, <2>1, <2>3, <2>4 DEF TasksAgree
<1>7. WaitersAgree'
  BY DEF Restart, WaitersAgree, TypeOK, Inbound
<1>8. UniqueRows' /\ TimerInTime'
  BY <1>1 DEF UniqueRows, TimerInTime
<1>9. current'.texts = <<>>
  BY <1>3 DEF EmptyBatch
<1>10. \A b \in DOMAIN batches' : batches'[b].first <= now' /\ batches'[b].last <= now'
  <2>1. now \in Nat
    BY DEF TypeOK
  <2>2. batches'[cur + 1].first = 0 /\ batches'[cur + 1].last = 0
    BY <1>2 DEF EmptyBatch
  <2>3. \A b \in DOMAIN batches : batches'[b].first <= now /\ batches'[b].last <= now
    BY <1>2 DEF WindowsInOrder
  <2>. QED
    BY <1>1, <1>2, <2>1, <2>2, <2>3
<1>. QED
  BY <1>5, <1>6, <1>7, <1>8, <1>9, <1>10 DEF Inv, Watched, BufferedIdIsNew,
     WindowsInOrder, InTime

-------------------------------------------------------------------------------
\* Every step preserves the invariant.
LEMMA InvStep == Inv /\ [Next]_vars => Inv'
<1>. SUFFICES ASSUME Inv, [Next]_vars PROVE Inv'
  OBVIOUS
<1>1. CASE Arrival
  BY <1>1, InboundDuplicateInv, InboundAcceptInv DEF Arrival
<1>2. CASE \E t \in DOMAIN tasks : SleepOn(t) \/ Fire(t) \/ Grant(t)
  BY <1>2, SleepOnInv, FireInv, GrantInv
<1>3. CASE \E t \in DOMAIN tasks, result \in Results \ {"none"} : FinishTurn(t, result)
  BY <1>3, FinishTurnInv
<1>4. CASE \E r \in Requests : Return(r)
  BY <1>4, ReturnInv
<1>5. CASE Tick
  BY <1>5, TickInv
<1>6. CASE Restart
  BY <1>6, RestartInv
<1>7. CASE UNCHANGED vars
  BY <1>7 DEF vars, Inv, TypeOK, TasksAgree, OneTimer, WaitersAgree, Watched,
     BufferedIdIsNew, UniqueRows, WindowsInOrder, TimerInTime, InTime, current, cur
<1>. QED
  BY <1>1, <1>2, <1>3, <1>4, <1>5, <1>6, <1>7 DEF Next, LoopStep, Quiet

\* The invariant holds in every reachable state.
THEOREM Invariance == Spec => []Inv
<1>1. Init => Inv
  BY InvInit
<1>2. Inv /\ [Next]_vars => Inv'
  BY InvStep
<1>. QED
  BY <1>1, <1>2, PTL DEF Spec

\* Every object keeps its type.
THEOREM TypeCorrect == Spec => []TypeOK
<1>1. Inv => TypeOK
  BY DEF Inv
<1>. QED
  BY <1>1, Invariance, PTL

\* A buffered fragment always has a task that has yet to drain the buffer
\* (agent.py:122, 126-128).
THEOREM NoWakeupIsLost == Spec => []NoLostWakeup
<1>1. Inv => NoLostWakeup
  <2>. SUFFICES ASSUME Inv, current.texts # <<>>
                PROVE  \E t \in DOMAIN tasks : tasks[t].pc \in {"sleeping", "blocked"}
    BY DEF NoLostWakeup
  <2>1. CASE timer # 0
    BY <2>1, Typed DEF Inv, TasksAgree
  <2>2. CASE queue # <<>>
    <3>1. 1 \in DOMAIN queue
      BY <2>2, EmptySeq, Typed DEF Inv, TypeOK
    <3>. QED
      BY <3>1, Typed DEF Inv, TasksAgree
  <2>. QED
    BY <2>1, <2>2 DEF Inv, Watched
<1>. QED
  BY <1>1, Invariance, PTL

\* At most one task sleeps, and it is state.timer.
THEOREM AtMostOneTimer == Spec => []OneTimer
<1>1. Inv => OneTimer
  BY DEF Inv, TasksAgree
<1>. QED
  BY <1>1, Invariance, PTL

\* No two rows get one wa_message_id, with any number of resends and restarts.
THEOREM RowsAreUnique == Spec => []UniqueRows
<1>1. Inv => UniqueRows
  BY DEF Inv
<1>. QED
  BY <1>1, Invariance, PTL

\* Past its window, sliding or capped, and at once where DEBOUNCE_MS is 0, the
\* buffer waits for the lock only.
THEOREM BufferIsPrompt == Spec => []Prompt
<1>1. Inv => Prompt
  <2>. SUFFICES ASSUME Inv PROVE Prompt
    OBVIOUS
  <2>1. now \in Nat /\ current.first \in Nat /\ current.last \in Nat
    BY Typed DEF Inv, TypeOK, current
  <2>2. /\ Deadline(current) <= current.last + DebounceMs
        /\ Deadline(current) <= current.first + DebounceMaxMs
        /\ Deadline(current) \in Nat
    BY <2>1, TimesAssumption DEF Deadline, Min2
  <2>. QED
    BY <2>1, <2>2, TimesAssumption DEF Inv, InTime, Prompt
<1>. QED
  BY <1>1, Invariance, PTL

-------------------------------------------------------------------------------
(***************************************************************************)
(* One reply per turn: of the requests a turn answers exactly the last to  *)
(* arrive returns the result, for any requests, ids, times and restarts.   *)
(***************************************************************************)

\* The fields of requests and batches have their types.
LEMMA FieldsTyped ==
    ASSUME Inv
    PROVE  /\ seq \in Nat
           /\ \A r \in Requests : req[r] \in Inbound /\ req[r].token \in Nat
           /\ \A b \in DOMAIN batches :
                /\ batches[b] \in Batch
                /\ batches[b].lastToken \in Nat
                /\ batches[b].texts \in Seq(Requests)
                /\ Len(batches[b].texts) \in Nat
                /\ DOMAIN batches[b].texts = 1 .. Len(batches[b].texts)
                /\ \A i \in DOMAIN batches[b].texts : batches[b].texts[i] \in Requests
<1>. TypeOK
  BY DEF Inv
<1>1. \A r \in Requests : req[r] \in Inbound /\ req[r].token \in Nat
  BY DEF TypeOK, Inbound
<1>2. ASSUME NEW b \in DOMAIN batches
      PROVE  /\ batches[b] \in Batch
             /\ batches[b].lastToken \in Nat
             /\ batches[b].texts \in Seq(Requests)
             /\ Len(batches[b].texts) \in Nat
             /\ DOMAIN batches[b].texts = 1 .. Len(batches[b].texts)
             /\ \A i \in DOMAIN batches[b].texts : batches[b].texts[i] \in Requests
  <2>1. batches[b] \in Batch
    BY Typed
  <2>2. batches[b].lastToken \in Nat /\ batches[b].texts \in Seq(Requests)
    BY <2>1 DEF Batch
  <2>3. /\ Len(batches[b].texts) \in Nat
        /\ DOMAIN batches[b].texts = 1 .. Len(batches[b].texts)
    BY <2>2, LenProperties
  <2>4. \A i \in DOMAIN batches[b].texts : batches[b].texts[i] \in Requests
    BY <2>2, <2>3, ElementOfSeq
  <2>. QED
    BY <2>1, <2>2, <2>3, <2>4
<1>. QED
  BY <1>1, <1>2 DEF TypeOK

\* A step that leaves texts, tokens and the accepted requests alone, and makes no
\* batch but empty ones, keeps them in order.
LEMMA TextsKept ==
    ASSUME Inv, Voices,
           DOMAIN batches \subseteq DOMAIN batches',
           \A b \in DOMAIN batches :
               /\ batches'[b].texts = batches[b].texts
               /\ batches'[b].lastToken = batches[b].lastToken,
           \A b \in DOMAIN batches' : b \notin DOMAIN batches => batches'[b].texts = <<>>,
           \A r \in Requests :
               /\ Accepted(r)' = Accepted(r)
               /\ req'[r].batch = req[r].batch
               /\ req'[r].token = req[r].token,
           current'.lastToken <= seq'
    PROVE  Heard' /\ TokensInOrder'
<1>1. Heard'
  <2>. SUFFICES ASSUME NEW r \in Requests, Accepted(r)'
                PROVE  /\ req'[r].batch \in DOMAIN batches'
                       /\ \E i \in DOMAIN batches'[req'[r].batch].texts :
                             batches'[req'[r].batch].texts[i] = r
    BY DEF Heard
  <2>. QED
    BY DEF Voices, Heard
<1>2. TokensInOrder'
  <2>. SUFFICES ASSUME NEW b \in DOMAIN batches', NEW i \in DOMAIN batches'[b].texts
                PROVE  InOrder(b, i)'
    BY DEF TokensInOrder
  <2>1. b \in DOMAIN batches
    OBVIOUS
  <2>2. i \in DOMAIN batches[b].texts /\ batches[b].texts[i] \in Requests
    BY <2>1, FieldsTyped
  <2>3. InOrder(b, i)
    BY <2>1, <2>2 DEF Voices, TokensInOrder
  <2>. QED
    BY <2>1, <2>2, <2>3 DEF InOrder, Accepted
<1>. QED
  BY <1>1, <1>2

\* A step that answers nobody and changes no result that is there keeps what was
\* returned.
LEMMA StatusesKept ==
    ASSUME Inv, Voices,
           \A b \in DOMAIN batches : batches[b].result # "none" =>
               batches'[b].result = batches[b].result /\ batches'[b].winner = batches[b].winner,
           \A r \in Requests : Accepted(r)' /\ req'[r].pc = "returned" =>
               Accepted(r) /\ req[r].pc = "returned" /\ req'[r] = req[r],
           \A r \in Requests : req'[r].pc # "returned" =>
               req[r].pc # "returned" /\ req'[r].status = req[r].status
    PROVE  StatusesAgree'
<1>. SUFFICES ASSUME NEW r \in Requests, Accepted(r)', req'[r].pc = "returned"
              PROVE  batches'[req'[r].batch].result # "none" /\ req'[r].status = StatusFor(r)'
  BY DEF StatusesAgree, Voices
<1>1. Accepted(r) /\ req[r].pc = "returned" /\ req'[r] = req[r]
  OBVIOUS
<1>2. req[r].batch \in DOMAIN batches
  BY <1>1 DEF Voices, Heard
<1>3. batches[req[r].batch].result # "none" /\ req[r].status = StatusFor(r)
  BY <1>1 DEF Voices, StatusesAgree
<1>. QED
  BY <1>1, <1>2, <1>3 DEF StatusFor

-------------------------------------------------------------------------------
\* Nobody was heard yet.
LEMMA VoicesInit == Init => Voices
<1>. SUFFICES ASSUME Init PROVE Voices
  OBVIOUS
<1>1. cur = 1 /\ current = EmptyBatch /\ DOMAIN batches = {1} /\ DOMAIN tasks = {}
      /\ batches[1] = EmptyBatch
  BY DEF Init, cur, current
<1>2. \A r \in Requests : req[r].pc = "idle"
  BY DEF Init, IdleRequest
<1>3. DOMAIN EmptyBatch.texts = {}
  BY DEF EmptyBatch
<1>4. TokensInOrder
  BY <1>1, <1>3 DEF TokensInOrder, EmptyBatch, Init
<1>5. WinnerIsLast
  BY <1>1 DEF WinnerIsLast, EmptyBatch
<1>6. Heard /\ StatusesAgree
  BY <1>2 DEF Heard, StatusesAgree, Accepted, Init, IdleRequest
<1>. QED
  BY <1>4, <1>5, <1>6 DEF Voices

\* A refused resend is not accepted.
LEMMA InboundDuplicateVoices ==
    ASSUME Inv, Voices, NEW r \in Requests, NEW id \in Ids, InboundDuplicate(r, id)
    PROVE  Voices'
<1>1. UNCHANGED <<batches, seq, tasks>> /\ cur' = cur /\ current' = current
  BY DEF InboundDuplicate, cur, current
<1>2. /\ req[r] \in Inbound /\ req[r].pc = "idle"
      /\ req' = [req EXCEPT ![r] =
                   [req[r] EXCEPT !.pc = "returned", !.id = id, !.status = "duplicate"]]
      /\ req \in [Requests -> Inbound]
  BY FieldsTyped DEF InboundDuplicate, Inv, TypeOK
<1>3. /\ req'[r].pc = "returned" /\ req'[r].status = "duplicate" /\ req'[r].token = req[r].token
      /\ req'[r].batch = req[r].batch
      /\ \A q \in Requests : q # r => req'[q] = req[q]
  BY <1>2 DEF Inbound
<1>4. ~Accepted(r) /\ ~Accepted(r)'
  BY <1>2, <1>3 DEF Accepted
<1>6. current'.lastToken <= seq'
  BY <1>1 DEF Voices, TokensInOrder
<1>7. \A q \in Requests :
         /\ Accepted(q)' = Accepted(q)
         /\ req'[q].batch = req[q].batch
         /\ req'[q].token = req[q].token
  BY <1>3, <1>4 DEF Accepted
<1>8. Heard' /\ TokensInOrder'
  BY <1>1, <1>6, <1>7, TextsKept
<1>9. StatusesAgree'
  <2>1. /\ \A q \in Requests : Accepted(q)' /\ req'[q].pc = "returned" =>
             Accepted(q) /\ req[q].pc = "returned" /\ req'[q] = req[q]
        /\ \A q \in Requests : req'[q].pc # "returned" =>
             req[q].pc # "returned" /\ req'[q].status = req[q].status
    BY <1>2, <1>3, <1>4 DEF Accepted, Inbound
  <2>. QED
    BY <1>1, <2>1, StatusesKept
<1>10. WinnerIsLast'
  BY <1>1 DEF Voices, WinnerIsLast
<1>. QED
  BY <1>8, <1>9, <1>10 DEF Voices

\* A fragment that joins the buffer gets a token above all others in it.
LEMMA InboundAcceptVoices ==
    ASSUME Inv, Voices, NEW r \in Requests, NEW id \in Ids, InboundAccept(r, id)
    PROVE  Voices'
<1>. DEFINE joined == Joined(current, r, id, seq + 1)
            texts == current.texts
<1>1. /\ seq \in Nat /\ seq' = seq + 1 /\ now \in Nat
      /\ cur \in DOMAIN batches /\ current \in Batch /\ texts \in Seq(Requests)
      /\ Len(texts) \in Nat /\ DOMAIN texts = 1 .. Len(texts)
      /\ current = batches[cur]
  BY Typed, FieldsTyped DEF InboundAccept, Inv, TypeOK, current
<1>2. /\ joined \in Batch /\ joined.texts = Append(texts, r)
      /\ joined.lastToken = seq + 1
      /\ joined.result = current.result /\ joined.winner = current.winner
  <2>1. joined \in Batch /\ joined.texts = Append(texts, r)
    <3>1. seq + 1 \in Nat /\ joined = Joined(current, r, id, seq + 1)
      BY <1>1
    <3>. QED
      BY <1>1, <3>1, JoinedIsBatch
  <2>. QED
    BY <1>1, <2>1 DEF Joined, Batch
<1>3. /\ Append(texts, r) \in Seq(Requests)
      /\ DOMAIN Append(texts, r) = 1 .. Len(texts) + 1
      /\ Len(Append(texts, r)) = Len(texts) + 1
      /\ Append(texts, r)[Len(texts) + 1] = r
      /\ \A j \in DOMAIN texts : Append(texts, r)[j] = texts[j]
  BY <1>1, Appended
<1>4. batches' = [batches EXCEPT ![cur] = joined]
  BY DEF InboundAccept, current
<1>. HIDE DEF joined
<1>5. /\ DOMAIN batches' = DOMAIN batches /\ cur' = cur /\ current' = joined
      /\ \A b \in DOMAIN batches : batches'[b] = IF b = cur THEN joined ELSE batches[b]
  BY <1>1, <1>2, <1>4, Updated DEF Inv, TypeOK, current, cur
<1>6. /\ req[r] \in Inbound /\ req[r].pc = "idle" /\ req \in [Requests -> Inbound]
      /\ req' = [req EXCEPT ![r] = [req[r] EXCEPT !.pc = "waiting", !.id = id,
                                                  !.token = seq + 1, !.batch = cur]]
  BY FieldsTyped DEF InboundAccept, Inv, TypeOK
<1>7. /\ req'[r].pc = "waiting" /\ req'[r].token = seq + 1 /\ req'[r].batch = cur
      /\ req'[r].status = req[r].status
      /\ \A q \in Requests : q # r => req'[q] = req[q]
  BY <1>6 DEF Inbound
<1>8. ~Accepted(r) /\ \A q \in Requests : q # r => Accepted(q)' = Accepted(q)
  BY <1>6, <1>7 DEF Accepted
<1>9. \A b \in DOMAIN batches : \A i \in DOMAIN batches[b].texts :
         batches[b].texts[i] \in Requests /\ batches[b].texts[i] # r
  BY <1>8, FieldsTyped DEF Voices, TokensInOrder, InOrder
<1>10. Accepted(r)'
  BY <1>6, <1>7 DEF Accepted, Voices, StatusesAgree
<1>11. Heard'
  <2>. SUFFICES ASSUME NEW q \in Requests, Accepted(q)'
                PROVE  /\ req'[q].batch \in DOMAIN batches'
                       /\ \E i \in DOMAIN batches'[req'[q].batch].texts :
                             batches'[req'[q].batch].texts[i] = q
    BY DEF Heard
  <2>1. CASE q = r
    <3>1. batches'[cur].texts = Append(texts, r) /\ Len(texts) + 1 \in DOMAIN Append(texts, r)
      BY <1>1, <1>2, <1>3, <1>5
    <3>. QED
      BY <1>1, <1>3, <1>5, <1>7, <2>1, <3>1
  <2>2. CASE q # r
    <3>1. /\ req'[q].batch = req[q].batch /\ req[q].batch \in DOMAIN batches
          /\ \E i \in DOMAIN batches[req[q].batch].texts : batches[req[q].batch].texts[i] = q
      BY <1>7, <1>8, <2>2 DEF Voices, Heard
    <3>2. CASE req[q].batch # cur
      BY <1>5, <3>1, <3>2
    <3>3. CASE req[q].batch = cur
      <4>1. PICK i \in DOMAIN texts : texts[i] = q
        BY <1>1, <3>1, <3>3
      <4>2. i \in DOMAIN Append(texts, r) /\ Append(texts, r)[i] = q
        BY <1>1, <1>3, <4>1
      <4>. QED
        BY <1>1, <1>2, <1>5, <3>1, <3>3, <4>2
    <3>. QED
      BY <3>2, <3>3
  <2>. QED
    BY <2>1, <2>2
<1>12. TokensInOrder'
  <2>1. current'.lastToken <= seq'
    BY <1>1, <1>2, <1>5
  <2>2. ASSUME NEW b \in DOMAIN batches', NEW i \in DOMAIN batches'[b].texts
        PROVE  InOrder(b, i)'
    <3>1. CASE b # cur
      <4>1. batches'[b] = batches[b] /\ b \in DOMAIN batches
        BY <1>5, <3>1
      <4>2. batches[b].texts[i] \in Requests /\ batches[b].texts[i] # r
        BY <1>9, <4>1
      <4>3. InOrder(b, i)
        BY <4>1 DEF Voices, TokensInOrder
      <4>. QED
        BY <1>7, <4>1, <4>2, <4>3 DEF InOrder, Accepted
    <3>2. CASE b = cur
      <4>1. /\ batches'[b].texts = Append(texts, r) /\ batches'[b].lastToken = seq + 1
            /\ i \in 1 .. Len(texts) + 1
        BY <1>1, <1>2, <1>3, <1>5, <3>2
      <4>2. CASE i = Len(texts) + 1
        BY <1>3, <1>7, <1>10, <4>1, <4>2 DEF InOrder, Accepted
      <4>3. CASE i # Len(texts) + 1
        <5>1. i \in DOMAIN texts /\ i # Len(Append(texts, r))
          BY <1>1, <1>3, <4>1, <4>3
        <5>2. texts[i] \in Requests /\ texts[i] # r /\ batches'[b].texts[i] = texts[i]
          BY <1>1, <1>3, <1>9, <4>1, <5>1
        <5>3. Accepted(texts[i]) /\ req[texts[i]].token <= current.lastToken
          BY <1>1, <5>1, <5>2, FieldsTyped DEF Voices, TokensInOrder, InOrder
        <5>4. current.lastToken <= seq /\ current.lastToken \in Nat /\ req[texts[i]].token \in Nat
          BY <1>1, <5>2, FieldsTyped DEF Voices, TokensInOrder
        <5>. QED
          BY <1>1, <1>7, <4>1, <5>1, <5>2, <5>3, <5>4 DEF InOrder, Accepted
      <4>. QED
        BY <4>2, <4>3
    <3>. QED
      BY <3>1, <3>2
  <2>. QED
    BY <2>1, <2>2 DEF TokensInOrder
<1>13. StatusesAgree'
  <2>1. \A b \in DOMAIN batches : batches[b].result # "none" =>
          batches'[b].result = batches[b].result /\ batches'[b].winner = batches[b].winner
    BY <1>1, <1>2, <1>5
  <2>2. /\ \A q \in Requests : Accepted(q)' /\ req'[q].pc = "returned" =>
             Accepted(q) /\ req[q].pc = "returned" /\ req'[q] = req[q]
        /\ \A q \in Requests : req'[q].pc # "returned" =>
             req[q].pc # "returned" /\ req'[q].status = req[q].status
    BY <1>6, <1>7, <1>8
  <2>. QED
    BY <2>1, <2>2, StatusesKept
<1>14. WinnerIsLast'
  <2>1. current'.result = "none"
    BY <1>2, <1>5 DEF Voices, WinnerIsLast
  <2>2. \A b \in DOMAIN batches' :
          batches'[b].result # "none" => batches'[b].winner = batches'[b].lastToken
    BY <1>5, <2>1 DEF Voices, WinnerIsLast
  <2>3. \A t \in DOMAIN tasks' : tasks'[t].pc = "turn" => t \in DOMAIN tasks /\ tasks'[t] = tasks[t]
    <3>1. CASE TimerIdle
      <4>. DEFINE task == [pc |-> "sleeping", batch |-> cur, wake |-> now, drained |-> 0]
      <4>1. tasks' = Append(tasks, task) /\ task.pc = "sleeping"
        BY <3>1 DEF InboundAccept, EnsureTimer
      <4>2. task \in Task
        BY <1>1, Typed DEF Task, Inv
      <4>. HIDE DEF task
      <4>. QED
        BY <4>1, <4>2, Appended, Typed DEF Inv, TypeOK
    <3>2. CASE ~TimerIdle
      BY <3>2 DEF InboundAccept, EnsureTimer
    <3>. QED
      BY <3>1, <3>2
  <2>4. \A t \in DOMAIN tasks : tasks[t].pc = "turn" => tasks[t].drained \in DOMAIN batches
    BY DEF Inv, TasksAgree
  <2>. QED
    BY <1>5, <2>1, <2>2, <2>3, <2>4 DEF Voices, WinnerIsLast
<1>. QED
  BY <1>11, <1>12, <1>13, <1>14 DEF Voices

\* Requests, texts, tokens and results stay as they are while a timer sleeps on or
\* the clock ticks.
LEMMA QuietVoices ==
    ASSUME Inv, Voices, UNCHANGED <<batches, seq, req>>,
           \A t \in DOMAIN tasks' : tasks'[t].pc = "turn" =>
               t \in DOMAIN tasks /\ tasks[t].pc = "turn" /\ tasks'[t].drained = tasks[t].drained
    PROVE  Voices'
<1>1. cur' = cur /\ current' = current
  BY DEF cur, current
<1>2. WinnerIsLast'
  BY <1>1 DEF Voices, WinnerIsLast
<1>3. \A r \in Requests : Accepted(r)' = Accepted(r)
  BY DEF Accepted
<1>4. current'.lastToken <= seq'
  BY <1>1 DEF Voices, TokensInOrder
<1>5. Heard' /\ TokensInOrder'
  BY <1>3, <1>4, TextsKept
<1>6. StatusesAgree'
  BY <1>3, StatusesKept
<1>. QED
  BY <1>2, <1>5, <1>6 DEF Voices

\* A timer that sleeps on is no turn.
LEMMA SleepOnVoices ==
    ASSUME Inv, Voices, NEW t \in DOMAIN tasks, SleepOn(t)
    PROVE  Voices'
<1>. DEFINE task == [tasks[t] EXCEPT !.wake = Deadline(batches[tasks[t].batch])]
<1>1. UNCHANGED <<batches, seq, req>> /\ tasks' = [tasks EXCEPT ![t] = task]
  BY DEF SleepOn
<1>2. tasks[t] \in Task
  BY Typed DEF Inv
<1>3. task.pc = tasks[t].pc /\ task.drained = tasks[t].drained
  BY <1>2 DEF Task
<1>4. DOMAIN tasks' = DOMAIN tasks /\ \A u \in DOMAIN tasks : tasks'[u] = IF u = t THEN task ELSE tasks[u]
  BY <1>1
<1>. QED
  BY <1>1, <1>3, <1>4, QuietVoices

\* The drained batch gets its last token as the winner and keeps its texts; the
\* fresh one is empty.
LEMMA DrainVoices ==
    ASSUME Inv, Voices, NEW t \in DOMAIN tasks, Drain(t), UNCHANGED <<seq, req>>
    PROVE  Voices'
<1>1. /\ cur \in Nat \ {0} /\ DOMAIN batches = 1 .. cur /\ current \in Batch
      /\ current = batches[cur] /\ cur \in DOMAIN batches /\ seq \in Nat
      /\ \A u \in DOMAIN tasks : tasks[u] \in Task
  BY Typed, FieldsTyped DEF Inv, current
<1>2. \A r \in Requests : Accepted(r)' = Accepted(r)
  BY DEF Accepted
<1>3. \A u \in DOMAIN tasks : tasks[u].pc = "turn" => tasks[u].drained \in DOMAIN batches
  BY DEF Inv, TasksAgree
<1>4. CASE current.texts = <<>>
  <2>1. UNCHANGED batches /\ tasks' = [tasks EXCEPT ![t].pc = "done"]
    BY <1>4 DEF Drain
  <2>2. \A u \in DOMAIN tasks' : tasks'[u].pc = "turn" =>
          u \in DOMAIN tasks /\ tasks[u].pc = "turn" /\ tasks'[u].drained = tasks[u].drained
    BY <1>1, <2>1 DEF Task
  <2>. QED
    BY <2>1, <2>2, QuietVoices
<1>5. CASE current.texts # <<>>
  <2>. DEFINE task == [tasks[t] EXCEPT !.pc = "turn", !.drained = cur]
              closed == [current EXCEPT !.winner = current.lastToken]
              kept == [batches EXCEPT ![cur] = closed]
  <2>1. /\ tasks' = [tasks EXCEPT ![t] = task]
        /\ batches' = Append(kept, EmptyBatch)
    BY <1>5 DEF Drain, current
  <2>2. task.pc = "turn" /\ task.drained = cur
    BY <1>1 DEF Task
  <2>3. /\ closed \in Batch /\ closed.texts = current.texts /\ closed.lastToken = current.lastToken
        /\ closed.winner = current.lastToken /\ closed.result = current.result
    BY <1>1 DEF Batch
  <2>. HIDE DEF task, closed
  <2>4. /\ kept \in Seq(Batch) /\ DOMAIN kept = DOMAIN batches /\ Len(kept) = cur
        /\ \A b \in DOMAIN batches : kept[b] = IF b = cur THEN closed ELSE batches[b]
    BY <1>1, <2>3, Updated DEF Inv, TypeOK, cur
  <2>. HIDE DEF kept
  <2>5. /\ DOMAIN batches' = 1 .. cur + 1 /\ cur' = cur + 1
        /\ batches'[cur + 1] = EmptyBatch
        /\ \A b \in DOMAIN batches : batches'[b] = IF b = cur THEN closed ELSE batches[b]
    BY <2>1, <2>4, Appended, EmptyIsBatch DEF cur
  <2>6. current' = EmptyBatch
    BY <2>5 DEF current
  <2>7. \A u \in DOMAIN tasks' : u \in DOMAIN tasks /\ tasks'[u] = IF u = t THEN task ELSE tasks[u]
    BY <2>1
  <2>8. Heard' /\ TokensInOrder'
    <3>1. \A b \in DOMAIN batches :
            batches'[b].texts = batches[b].texts /\ batches'[b].lastToken = batches[b].lastToken
      BY <1>1, <2>3, <2>5
    <3>2. \A b \in DOMAIN batches' : b \notin DOMAIN batches => batches'[b].texts = <<>>
      BY <1>1, <2>5 DEF EmptyBatch
    <3>3. current'.lastToken <= seq' /\ DOMAIN batches \subseteq DOMAIN batches'
      BY <1>1, <2>5, <2>6 DEF EmptyBatch
    <3>. QED
      BY <1>2, <3>1, <3>2, <3>3, TextsKept
  <2>9. StatusesAgree'
    <3>1. \A b \in DOMAIN batches : batches[b].result # "none" => b # cur
      BY <1>1 DEF Voices, WinnerIsLast
    <3>. QED
      BY <1>2, <2>5, <3>1, StatusesKept
  <2>10. WinnerIsLast'
    <3>1. current'.result = "none"
      BY <2>6 DEF EmptyBatch
    <3>2. current.result = "none"
      BY DEF Voices, WinnerIsLast
    <3>3. ASSUME NEW b \in DOMAIN batches', batches'[b].result # "none"
          PROVE  batches'[b].winner = batches'[b].lastToken
      <4>1. b \in DOMAIN batches /\ b # cur
        BY <1>1, <2>3, <2>5, <3>2, <3>3 DEF EmptyBatch
      <4>. QED
        BY <2>5, <3>3, <4>1 DEF Voices, WinnerIsLast
    <3>4. ASSUME NEW u \in DOMAIN tasks', tasks'[u].pc = "turn"
          PROVE  /\ tasks'[u].drained # cur' /\ batches'[tasks'[u].drained].result = "none"
                 /\ batches'[tasks'[u].drained].winner = batches'[tasks'[u].drained].lastToken
      <4>1. CASE u = t
        <5>1. tasks'[u].drained = cur /\ batches'[cur] = closed
          BY <1>1, <2>2, <2>5, <2>7, <4>1
        <5>. QED
          BY <1>1, <2>3, <2>5, <3>2, <5>1
      <4>2. CASE u # t
        <5>1. tasks'[u] = tasks[u] /\ u \in DOMAIN tasks
          BY <2>7, <4>2
        <5>2. tasks[u].drained \in DOMAIN batches /\ tasks[u].drained # cur
          BY <1>3, <3>4, <5>1 DEF Voices, WinnerIsLast
        <5>. QED
          BY <1>1, <2>5, <3>4, <5>1, <5>2 DEF Voices, WinnerIsLast
      <4>. QED
        BY <4>1, <4>2
    <3>. QED
      BY <3>1, <3>3, <3>4 DEF WinnerIsLast
  <2>. QED
    BY <2>8, <2>9, <2>10 DEF Voices
<1>. QED
  BY <1>4, <1>5

\* A task that fires drains the buffer or waits for the lock.
LEMMA FireVoices ==
    ASSUME Inv, Voices, NEW t \in DOMAIN tasks, Fire(t)
    PROVE  Voices'
<1>1. UNCHANGED <<seq, req>>
  BY DEF Fire
<1>2. CASE Drain(t)
  BY <1>1, <1>2, DrainVoices
<1>3. CASE tasks' = [tasks EXCEPT ![t].pc = "blocked"] /\ UNCHANGED batches
  <2>1. \A u \in DOMAIN tasks : tasks[u] \in Task
    BY Typed DEF Inv
  <2>2. \A u \in DOMAIN tasks' : tasks'[u].pc = "turn" =>
          u \in DOMAIN tasks /\ tasks[u].pc = "turn" /\ tasks'[u].drained = tasks[u].drained
    BY <1>3, <2>1 DEF Task
  <2>. QED
    BY <1>1, <1>3, <2>2, QuietVoices
<1>. QED
  BY <1>2, <1>3 DEF Fire

\* The turn that ends answers a batch nobody was answered for yet.
LEMMA FinishTurnVoices ==
    ASSUME Inv, Voices, NEW t \in DOMAIN tasks, NEW result \in Results \ {"none"},
           FinishTurn(t, result)
    PROVE  Voices'
<1>. DEFINE d == tasks[t].drained
            closed == [batches[d] EXCEPT !.result = result]
<1>1. /\ UNCHANGED <<seq, req>>
      /\ batches' = [batches EXCEPT ![d] = closed] /\ tasks' = [tasks EXCEPT ![t].pc = "done"]
  BY DEF FinishTurn
<1>2. /\ tasks[t].pc = "turn" /\ d \in DOMAIN batches /\ d # cur
      /\ batches[d].result = "none" /\ batches[d].winner = batches[d].lastToken
      /\ \A u \in DOMAIN tasks : tasks[u].pc = "turn" => u = t
  BY DEF FinishTurn, Inv, TasksAgree, Voices, WinnerIsLast
<1>3. /\ closed \in Batch /\ closed.texts = batches[d].texts
      /\ closed.lastToken = batches[d].lastToken /\ closed.winner = batches[d].winner
  <2>1. batches[d] \in Batch
    BY <1>2, FieldsTyped
  <2>. QED
    BY <2>1 DEF Batch
<1>. HIDE DEF closed
<1>4. /\ DOMAIN batches' = DOMAIN batches /\ cur' = cur
      /\ \A b \in DOMAIN batches : batches'[b] = IF b = d THEN closed ELSE batches[b]
  BY <1>1, <1>2, <1>3, Updated DEF Inv, TypeOK, cur
<1>5. current' = current /\ cur \in DOMAIN batches
  BY <1>2, <1>4, Typed DEF current, Inv
<1>6. \A r \in Requests : Accepted(r)' = Accepted(r)
  BY <1>1 DEF Accepted
<1>7. Heard' /\ TokensInOrder'
  <2>1. \A b \in DOMAIN batches :
          batches'[b].texts = batches[b].texts /\ batches'[b].lastToken = batches[b].lastToken
    BY <1>3, <1>4
  <2>2. current'.lastToken <= seq'
    BY <1>1, <1>5 DEF Voices, TokensInOrder
  <2>. QED
    BY <1>1, <1>4, <1>6, <2>1, <2>2, TextsKept
<1>8. StatusesAgree'
  BY <1>1, <1>2, <1>4, <1>6, StatusesKept
<1>9. WinnerIsLast'
  <2>1. \A b \in DOMAIN batches : batches'[b].winner = batches[b].winner
                                /\ batches'[b].lastToken = batches[b].lastToken
    BY <1>3, <1>4
  <2>2. \A b \in DOMAIN batches' :
          batches'[b].result # "none" => batches'[b].winner = batches'[b].lastToken
    BY <1>2, <1>4, <2>1 DEF Voices, WinnerIsLast
  <2>3. \A u \in DOMAIN tasks' : tasks'[u].pc # "turn"
    <3>1. \A u \in DOMAIN tasks : tasks[u] \in Task
      BY Typed DEF Inv
    <3>. QED
      BY <1>1, <1>2, <3>1 DEF Task
  <2>. QED
    BY <1>5, <2>2, <2>3 DEF WinnerIsLast, Voices
<1>. QED
  BY <1>7, <1>8, <1>9 DEF Voices

\* The request that returns takes its status from its batch.
LEMMA ReturnVoices ==
    ASSUME Inv, Voices, NEW r \in Requests, Return(r)
    PROVE  Voices'
<1>1. UNCHANGED <<batches, seq, tasks>> /\ cur' = cur /\ current' = current
  BY DEF Return, cur, current
<1>2. /\ req[r] \in Inbound /\ req[r].pc = "waiting" /\ req[r].status = "none"
      /\ batches[req[r].batch].result # "none"
      /\ req' = [req EXCEPT ![r] = [req[r] EXCEPT !.pc = "returned", !.status = StatusFor(r)]]
      /\ req \in [Requests -> Inbound]
  BY FieldsTyped DEF Return, Inv, TypeOK, Voices, StatusesAgree
<1>3. StatusFor(r) \in {"reply", "error", "coalesced"}
  <2>1. batches[req[r].batch] \in Batch
    BY <1>2, Typed DEF Inv, WaitersAgree
  <2>. QED
    BY <1>2, <2>1 DEF StatusFor, Batch, Results
<1>4. /\ req'[r].pc = "returned" /\ req'[r].status = StatusFor(r)
      /\ req'[r].token = req[r].token /\ req'[r].batch = req[r].batch
      /\ \A q \in Requests : q # r => req'[q] = req[q]
  BY <1>2 DEF Inbound
<1>5. \A q \in Requests :
        /\ Accepted(q)' = Accepted(q)
        /\ req'[q].batch = req[q].batch
        /\ req'[q].token = req[q].token
  BY <1>2, <1>3, <1>4 DEF Accepted
<1>6. current'.lastToken <= seq'
  BY <1>1 DEF Voices, TokensInOrder
<1>7. Heard' /\ TokensInOrder'
  BY <1>1, <1>5, <1>6, TextsKept
<1>8. WinnerIsLast'
  BY <1>1 DEF Voices, WinnerIsLast
<1>9. StatusesAgree'
  <2>1. StatusFor(r)' = StatusFor(r)
    BY <1>1, <1>4 DEF StatusFor
  <2>2. \A q \in Requests : q # r => Accepted(q)' = Accepted(q) /\ StatusFor(q)' = StatusFor(q)
    BY <1>1, <1>4 DEF Accepted, StatusFor
  <2>. QED
    BY <1>1, <1>2, <1>4, <2>1, <2>2 DEF StatusesAgree, Voices
<1>. QED
  BY <1>7, <1>8, <1>9 DEF Voices

\* A restart loses who waits and what was buffered, and starts an empty batch.
LEMMA RestartVoices ==
    ASSUME Inv, Voices, Restart
    PROVE  Voices'
<1>1. /\ seq' = 0
      /\ batches' = Append(batches, EmptyBatch)
      /\ tasks' = [t \in DOMAIN tasks |-> [tasks[t] EXCEPT !.pc = "done"]]
      /\ req' = [r \in Requests |->
                   IF req[r].pc = "waiting" THEN [req[r] EXCEPT !.pc = "lost"] ELSE req[r]]
  BY DEF Restart
<1>2. /\ DOMAIN batches = 1 .. cur /\ DOMAIN batches' = 1 .. cur + 1 /\ cur' = cur + 1
      /\ cur \in Nat
      /\ batches'[cur + 1] = EmptyBatch /\ \A b \in DOMAIN batches : batches'[b] = batches[b]
  BY <1>1, Typed, Appended, EmptyIsBatch DEF Inv, TypeOK, cur
<1>3. current' = EmptyBatch
  BY <1>2 DEF current
<1>4. \A r \in Requests :
        /\ req[r] \in Inbound
        /\ req'[r].pc = (IF req[r].pc = "waiting" THEN "lost" ELSE req[r].pc)
        /\ req'[r].status = req[r].status /\ req'[r].token = req[r].token
        /\ req'[r].batch = req[r].batch
        /\ req[r].pc # "waiting" => req'[r] = req[r]
  BY <1>1, FieldsTyped DEF Inbound
<1>5. \A r \in Requests : Accepted(r)' = Accepted(r)
  BY <1>4 DEF Accepted
<1>6. Heard' /\ TokensInOrder'
  <2>1. \A b \in DOMAIN batches' : b \notin DOMAIN batches => batches'[b].texts = <<>>
    BY <1>2 DEF EmptyBatch
  <2>2. current'.lastToken <= seq' /\ DOMAIN batches \subseteq DOMAIN batches'
    BY <1>1, <1>2, <1>3 DEF EmptyBatch
  <2>. QED
    BY <1>2, <1>4, <1>5, <2>1, <2>2, TextsKept
<1>7. StatusesAgree'
  <2>1. /\ \A q \in Requests : Accepted(q)' /\ req'[q].pc = "returned" =>
             Accepted(q) /\ req[q].pc = "returned" /\ req'[q] = req[q]
        /\ \A q \in Requests : req'[q].pc # "returned" =>
             req[q].pc # "returned" /\ req'[q].status = req[q].status
    BY <1>4, <1>5
  <2>. QED
    BY <1>2, <2>1, StatusesKept
<1>8. WinnerIsLast'
  <2>1. \A t \in DOMAIN tasks' : tasks'[t].pc = "done"
    <3>1. \A t \in DOMAIN tasks : tasks[t] \in Task
      BY Typed DEF Inv
    <3>. QED
      BY <1>1, <3>1 DEF Task
  <2>2. \A b \in DOMAIN batches' :
          batches'[b].result # "none" => batches'[b].winner = batches'[b].lastToken
    BY <1>2 DEF Voices, WinnerIsLast, EmptyBatch
  <2>. QED
    BY <1>3, <2>1, <2>2 DEF WinnerIsLast, EmptyBatch
<1>. QED
  BY <1>6, <1>7, <1>8 DEF Voices

-------------------------------------------------------------------------------
\* Every step preserves what OneVoice rests on.
LEMMA VoicesStep == Inv /\ Voices /\ [Next]_vars => Voices'
<1>. SUFFICES ASSUME Inv, Voices, [Next]_vars PROVE Voices'
  OBVIOUS
<1>1. CASE Arrival
  BY <1>1, InboundDuplicateVoices, InboundAcceptVoices DEF Arrival
<1>2. CASE \E t \in DOMAIN tasks : SleepOn(t) \/ Fire(t)
  BY <1>2, SleepOnVoices, FireVoices
<1>3. CASE \E t \in DOMAIN tasks : Grant(t)
  BY <1>3, DrainVoices DEF Grant
<1>4. CASE \E t \in DOMAIN tasks, result \in Results \ {"none"} : FinishTurn(t, result)
  BY <1>4, FinishTurnVoices
<1>5. CASE \E r \in Requests : Return(r)
  BY <1>5, ReturnVoices
<1>6. CASE Tick \/ UNCHANGED vars
  <2>1. UNCHANGED <<batches, seq, req, tasks>>
    BY <1>6 DEF Tick, vars
  <2>. QED
    BY <2>1, QuietVoices
<1>7. CASE Restart
  BY <1>7, RestartVoices
<1>. QED
  BY <1>1, <1>2, <1>3, <1>4, <1>5, <1>6, <1>7 DEF Next, LoopStep, Quiet

\* What OneVoice rests on holds in every reachable state: a request's token is that
\* of its fragment, tokens grow along a batch, the winner is the last of them.
THEOREM VoicesInvariance == Spec => []Voices
<1>1. Init => Voices
  BY VoicesInit
<1>2. Inv /\ Voices /\ [Next]_vars => Voices'
  BY VoicesStep
<1>. QED
  BY <1>1, <1>2, Invariance, PTL DEF Spec

\* Of the requests one turn answers, exactly the last to arrive returns the result
\* and the others return "coalesced" (agent.py:153-155).
THEOREM OneVoicePerTurn == Spec => []OneVoice
<1>1. Inv /\ Voices => OneVoice
  <2>. SUFFICES ASSUME Inv, Voices, NEW r \in Requests,
                       req[r].pc = "returned", req[r].status # "duplicate"
                PROVE  LET b == batches[req[r].batch]
                       IN  IF r = b.texts[Len(b.texts)] THEN req[r].status = b.result
                                                        ELSE req[r].status = "coalesced"
    BY DEF OneVoice
  <2>. DEFINE b == req[r].batch
              last == Len(batches[b].texts)
  <2>1. Accepted(r)
    BY DEF Accepted
  <2>2. b \in DOMAIN batches /\ \E i \in DOMAIN batches[b].texts : batches[b].texts[i] = r
    BY <2>1 DEF Voices, Heard
  <2>3. PICK i \in DOMAIN batches[b].texts : batches[b].texts[i] = r
    BY <2>2
  <2>4. /\ last \in DOMAIN batches[b].texts /\ i \in 1 .. last /\ last \in Nat
        /\ batches[b].lastToken \in Nat
    BY <2>2, <2>3, FieldsTyped
  <2>5. batches[b].result # "none" /\ req[r].status = StatusFor(r)
    BY <2>1 DEF Voices, StatusesAgree
  <2>6. batches[b].winner = batches[b].lastToken
    BY <2>2, <2>5 DEF Voices, WinnerIsLast
  <2>7. InOrder(b, i) /\ InOrder(b, last)
    BY <2>2, <2>3, <2>4, SMTT(30) DEF Voices, TokensInOrder
  <2>8. CASE i = last
    BY <2>3, <2>5, <2>6, <2>7, <2>8 DEF InOrder, StatusFor
  <2>9. CASE i # last
    <3>1. req[r].token < batches[b].lastToken /\ req[r].token \in Nat
      BY <2>3, <2>7, <2>9, FieldsTyped DEF InOrder
    <3>2. req[batches[b].texts[last]].token = batches[b].lastToken
      BY <2>7, Zenon DEF InOrder
    <3>3. req[batches[b].texts[last]].token # req[r].token
      BY ONLY <2>4, <3>1, <3>2
    <3>4. r # batches[b].texts[last]
      BY <3>3
    <3>. QED
      BY <2>4, <2>5, <2>6, <3>1, <3>4, SMTT(30) DEF StatusFor
  <2>. QED
    BY <2>8, <2>9
<1>. QED
  BY <1>1, Invariance, VoicesInvariance, PTL

-------------------------------------------------------------------------------
(***************************************************************************)
(* No id twice: what a buyer sends again is put into one turn, as long as  *)
(* the process that has seen it lives.                                     *)
(***************************************************************************)

\* An accepted request stays accepted, under its id and in its batch.
LEMMA AcceptedStays ==
    ASSUME Inv, Voices, [Next]_vars, NEW r \in Requests, Accepted(r)
    PROVE  Accepted(r)' /\ req'[r].id = req[r].id /\ req'[r].batch = req[r].batch
<1>1. req \in [Requests -> Inbound] /\ req[r] \in Inbound /\ req[r].pc # "idle"
  BY DEF Inv, TypeOK, Accepted
<1>2. CASE Arrival
  BY <1>1, <1>2 DEF Arrival, InboundDuplicate, InboundAccept, Accepted
<1>3. ASSUME NEW q \in Requests, Return(q)
      PROVE  Accepted(r)' /\ req'[r].id = req[r].id /\ req'[r].batch = req[r].batch
  <2>1. batches[req[q].batch] \in Batch
    BY <1>3, Typed DEF Return, Inv, WaitersAgree
  <2>2. StatusFor(q) # "duplicate"
    BY <2>1, <1>3 DEF StatusFor, Return, Batch, Results
  <2>3. req' = [req EXCEPT ![q] = [req[q] EXCEPT !.pc = "returned", !.status = StatusFor(q)]]
    BY <1>3 DEF Return
  <2>4. CASE q = r
    BY <1>1, <2>2, <2>3, <2>4 DEF Accepted, Inbound
  <2>5. CASE q # r
    BY <1>1, <2>3, <2>5 DEF Accepted
  <2>. QED
    BY <2>4, <2>5
<1>4. CASE Restart
  BY <1>1, <1>4 DEF Restart, Accepted, Inbound
<1>5. CASE UNCHANGED req
  BY <1>5 DEF Accepted
<1>. QED
  BY <1>2, <1>3, <1>4, <1>5
     DEF Next, LoopStep, SleepOn, Fire, Grant, FinishTurn, Tick, Quiet, vars

\* A row is made of the buffer, and its turn begins at once: the buffer is the batch
\* the task that holds the lock has drained.
RowFromBuffer ==
    /\ current.texts # <<>>
    /\ rows' = Append(rows, [texts |-> current.texts, wa |-> current.wa])
    /\ holder' \in DOMAIN tasks /\ tasks'[holder'].pc = "turn" /\ tasks'[holder'].drained = cur
    /\ batches' = Append([batches EXCEPT ![cur].winner = current.lastToken], EmptyBatch)
    /\ UNCHANGED <<req, seen, restarts>>

\* A row is only ever stored for a buffer that was drained.
LEMMA RowSteps == Inv /\ [Next]_vars => UNCHANGED rows \/ RowFromBuffer
<1>. SUFFICES ASSUME Inv, [Next]_vars PROVE UNCHANGED rows \/ RowFromBuffer
  OBVIOUS
<1>1. ASSUME NEW t \in DOMAIN tasks, Drain(t), UNCHANGED <<req, seen, restarts>>
      PROVE  UNCHANGED rows \/ RowFromBuffer
  <2>1. tasks[t] \in Task
    BY Typed DEF Inv
  <2>2. CASE current.texts = <<>>
    BY <1>1, <2>2 DEF Drain
  <2>3. CASE current.texts # <<>>
    <3>1. tasks' = [tasks EXCEPT ![t] = [tasks[t] EXCEPT !.pc = "turn", !.drained = cur]]
      BY <1>1, <2>3 DEF Drain
    <3>2. tasks'[t].pc = "turn" /\ tasks'[t].drained = cur
      BY <2>1, <3>1 DEF Task
    <3>. QED
      BY <1>1, <2>3, <3>2 DEF Drain, RowFromBuffer
  <2>. QED
    BY <2>2, <2>3
<1>2. ASSUME NEW t \in DOMAIN tasks, Fire(t) \/ Grant(t)
      PROVE  UNCHANGED rows \/ RowFromBuffer
  BY <1>1, <1>2 DEF Fire, Grant
<1>3. CASE Arrival
  BY <1>3 DEF Arrival, InboundDuplicate, InboundAccept
<1>4. CASE \E t \in DOMAIN tasks, result \in Results : SleepOn(t) \/ FinishTurn(t, result)
  BY <1>4 DEF SleepOn, FinishTurn
<1>5. CASE (\E r \in Requests : Return(r)) \/ Tick \/ Restart \/ UNCHANGED vars
  BY <1>5 DEF Return, Tick, Restart, vars
<1>. QED
  BY <1>2, <1>3, <1>4, <1>5 DEF Next, LoopStep, Quiet, Results

\* A step that neither makes a row nor ends a turn leaves the lock, what its turn
\* took, and every batch but the buffer alone.
LEMMA BatchesKept ==
    ASSUME Inv, UNCHANGED rows,
           \/ Arrival
           \/ \E t \in DOMAIN tasks : SleepOn(t) \/ Fire(t) \/ Grant(t)
           \/ (\E r \in Requests : Return(r)) \/ Tick \/ UNCHANGED vars
    PROVE  /\ holder' = holder /\ cur' = cur
           /\ \A b \in DOMAIN batches : b # cur => batches'[b] = batches[b]
           /\ holder # 0 => tasks'[holder].drained = tasks[holder].drained
<1>. DEFINE Kept == /\ holder' = holder /\ cur' = cur
                    /\ \A b \in DOMAIN batches : b # cur => batches'[b] = batches[b]
                    /\ holder # 0 => tasks'[holder].drained = tasks[holder].drained
<1>1. /\ holder # 0 => holder \in DOMAIN tasks /\ tasks[holder].pc = "turn"
      /\ tasks \in Seq(Task) /\ batches \in Seq(Batch) /\ rows \in Seq([texts : Seq(Requests), wa : Ids])
      /\ cur \in DOMAIN batches /\ current = batches[cur] /\ current \in Batch
      /\ \A t \in DOMAIN tasks : tasks[t] \in Task
  BY Typed DEF Inv, TypeOK, TasksAgree, current
<1>2. ASSUME NEW r \in Requests, NEW id \in Ids, InboundAccept(r, id) PROVE Kept
  <2>1. Joined(current, r, id, seq + 1) \in Batch
    BY <1>1, JoinedIsBatch DEF Inv, TypeOK
  <2>2. batches' = [batches EXCEPT ![cur] = Joined(current, r, id, seq + 1)] /\ holder' = holder
    BY <1>1, <1>2 DEF InboundAccept
  <2>3. cur' = cur /\ \A b \in DOMAIN batches : b # cur => batches'[b] = batches[b]
    BY <1>1, <2>1, <2>2, Updated DEF cur
  <2>4. CASE UNCHANGED tasks
    BY <2>2, <2>3, <2>4
  <2>5. CASE TimerIdle
    <3>. DEFINE task == [pc |-> "sleeping", batch |-> cur, wake |-> now, drained |-> 0]
    <3>1. task \in Task
      BY Typed DEF Task, Inv, TypeOK
    <3>2. tasks' = Append(tasks, task)
      BY <1>2, <2>5 DEF InboundAccept, EnsureTimer
    <3>. HIDE DEF task
    <3>3. \A t \in DOMAIN tasks : tasks'[t] = tasks[t]
      BY <1>1, <3>1, <3>2, Appended
    <3>. QED
      BY <1>1, <2>2, <2>3, <3>3
  <2>. QED
    BY <1>2, <2>4, <2>5 DEF InboundAccept, EnsureTimer
<1>3. ASSUME NEW t \in DOMAIN tasks, tasks[t].pc # "turn", UNCHANGED <<holder, batches>>,
             NEW e, tasks' = [tasks EXCEPT ![t] = e]
      PROVE  Kept
  BY <1>1, <1>3 DEF cur
<1>4. ASSUME NEW t \in DOMAIN tasks, holder = 0, Drain(t) PROVE Kept
  <2>. DEFINE row == [texts |-> current.texts, wa |-> current.wa]
  <2>1. row \in [texts : Seq(Requests), wa : Ids]
    BY <1>1 DEF Batch
  <2>. HIDE DEF row
  <2>2. Append(rows, row) # rows
    <3>1. Len(rows) \in Nat
      BY <1>1, LenProperties
    <3>2. Len(Append(rows, row)) = Len(rows) + 1
      BY <1>1, <2>1, Appended
    <3>. QED
      BY <3>1, <3>2
  <2>3. current.texts = <<>>
    BY <1>4, <2>2 DEF Drain, row
  <2>. QED
    BY <1>4, <2>3 DEF Drain, cur
<1>5. ASSUME NEW t \in DOMAIN tasks, SleepOn(t) \/ Fire(t) \/ Grant(t) PROVE Kept
  <2>1. CASE SleepOn(t)
    BY <1>3, <2>1 DEF SleepOn, Due
  <2>2. CASE Fire(t)
    BY <1>3, <1>4, <2>2 DEF Fire, Due
  <2>3. CASE Grant(t)
    BY <1>4, <2>3 DEF Grant, Grantable
  <2>. QED
    BY <1>5, <2>1, <2>2, <2>3
<1>6. CASE UNCHANGED <<holder, batches, tasks>>
  BY <1>6 DEF cur
<1>. QED
  BY <1>2, <1>5, <1>6 DEF Arrival, InboundDuplicate, Return, Tick, vars

\* The turn that ends sets the result of the batch it took.
LEMMA ResultSet ==
    ASSUME Inv, NEW t \in DOMAIN tasks, NEW result \in Results, FinishTurn(t, result)
    PROVE  /\ t = holder /\ holder # 0 /\ holder' = 0 /\ cur' = cur /\ UNCHANGED <<rows, req>>
           /\ \A b \in DOMAIN batches :
                 batches'[b].result = IF b = tasks[t].drained THEN result ELSE batches[b].result
<1>. DEFINE d == tasks[t].drained
            closed == [batches[d] EXCEPT !.result = result]
<1>1. /\ tasks[t].pc = "turn" /\ t = holder /\ d \in DOMAIN batches /\ t # 0
      /\ batches[d] \in Batch
  BY Typed DEF FinishTurn, Inv, TasksAgree
<1>2. closed \in Batch /\ closed.result = result
  BY <1>1 DEF Batch
<1>3. batches' = [batches EXCEPT ![d] = closed]
  BY DEF FinishTurn
<1>. HIDE DEF closed
<1>4. cur' = cur /\ \A b \in DOMAIN batches : batches'[b] = IF b = d THEN closed ELSE batches[b]
  BY <1>1, <1>2, <1>3, Updated DEF Inv, TypeOK, cur
<1>. QED
  BY <1>1, <1>2, <1>4 DEF FinishTurn

\* A new row stands behind the others; the batch it is made of has no result yet.
LEMMA RowMade ==
    ASSUME Inv, Voices, RowFromBuffer
    PROVE  /\ Len(rows') = Len(rows) + 1 /\ DOMAIN rows' = 1 .. Len(rows) + 1
           /\ \A n \in DOMAIN rows : rows'[n] = rows[n]
           /\ rows'[Len(rows) + 1].texts = batches[cur].texts
           /\ cur' = cur + 1 /\ batches'[cur].result = "none"
           /\ \A b \in DOMAIN batches : batches'[b].result = batches[b].result
<1>. DEFINE row == [texts |-> current.texts, wa |-> current.wa]
            closed == [current EXCEPT !.winner = current.lastToken]
            kept == [batches EXCEPT ![cur] = closed]
<1>1. current \in Batch /\ current = batches[cur] /\ cur \in DOMAIN batches
      /\ rows \in Seq([texts : Seq(Requests), wa : Ids]) /\ batches \in Seq(Batch)
      /\ current.result = "none" /\ DOMAIN rows = 1 .. Len(rows) /\ Len(rows) \in Nat
      /\ DOMAIN batches = 1 .. cur /\ cur \in Nat
  BY Typed DEF Inv, TypeOK, current, Voices, WinnerIsLast
<1>2. row \in [texts : Seq(Requests), wa : Ids] /\ row.texts = batches[cur].texts
      /\ closed \in Batch /\ closed.result = "none"
  BY <1>1 DEF Batch
<1>3. rows' = Append(rows, row) /\ batches' = Append(kept, EmptyBatch)
  BY DEF RowFromBuffer, current
<1>. HIDE DEF row, closed
<1>4. /\ kept \in Seq(Batch) /\ DOMAIN kept = DOMAIN batches /\ Len(kept) = cur
      /\ \A b \in DOMAIN batches : kept[b] = IF b = cur THEN closed ELSE batches[b]
  BY <1>1, <1>2, Updated DEF cur
<1>. HIDE DEF kept
<1>5. /\ cur' = cur + 1
      /\ \A b \in DOMAIN batches : batches'[b] = IF b = cur THEN closed ELSE batches[b]
  BY <1>1, <1>3, <1>4, Appended, EmptyIsBatch DEF cur
<1>6. /\ Len(rows') = Len(rows) + 1 /\ DOMAIN rows' = 1 .. Len(rows) + 1
      /\ \A n \in DOMAIN rows : rows'[n] = rows[n]
      /\ rows'[Len(rows) + 1] = row
  BY <1>1, <1>2, <1>3, Appended
<1>. QED
  BY <1>1, <1>2, <1>5, <1>6

\* The texts of the buffer and of the rows are requests.
LEMMA RowTextsTyped ==
    ASSUME Inv
    PROVE  \A i \in DOMAIN rows :
              /\ rows[i].texts \in Seq(Requests)
              /\ DOMAIN rows[i].texts = 1 .. Len(rows[i].texts) /\ Len(rows[i].texts) \in Nat
              /\ \A m \in DOMAIN rows[i].texts : rows[i].texts[m] \in Requests
<1>. SUFFICES ASSUME NEW i \in DOMAIN rows
              PROVE  /\ rows[i].texts \in Seq(Requests)
                     /\ DOMAIN rows[i].texts = 1 .. Len(rows[i].texts)
                     /\ Len(rows[i].texts) \in Nat
                     /\ \A m \in DOMAIN rows[i].texts : rows[i].texts[m] \in Requests
  OBVIOUS
<1>1. rows[i] \in [texts : Seq(Requests), wa : Ids]
  BY Typed, ElementOfSeq DEF Inv, TypeOK
<1>2. rows[i].texts \in Seq(Requests)
  BY <1>1
<1>. QED
  BY <1>2, LenProperties, ElementOfSeq

\* Rows keep the ids of requests that were accepted.
LEMMA RowsAcceptedStep == Inv /\ Voices /\ RowsAccepted /\ [Next]_vars => RowsAccepted'
<1>. SUFFICES ASSUME Inv, Voices, RowsAccepted, [Next]_vars PROVE RowsAccepted'
  OBVIOUS
<1>1. ASSUME NEW i \in DOMAIN rows, NEW m \in DOMAIN rows[i].texts, NEW r, r = rows[i].texts[m]
      PROVE  Accepted(r)'
  BY <1>1, RowTextsTyped, AcceptedStays DEF RowsAccepted
<1>2. CASE UNCHANGED rows
  BY <1>1, <1>2 DEF RowsAccepted
<1>3. CASE RowFromBuffer
  <2>. DEFINE row == [texts |-> current.texts, wa |-> current.wa]
  <2>1. current \in Batch /\ cur \in DOMAIN batches /\ current = batches[cur]
    BY Typed DEF Inv, current
  <2>2. row \in [texts : Seq(Requests), wa : Ids] /\ row.texts = batches[cur].texts
    BY <2>1 DEF Batch
  <2>3. rows' = Append(rows, row)
    BY <1>3 DEF RowFromBuffer
  <2>. HIDE DEF row
  <2>4. /\ DOMAIN rows' = 1 .. Len(rows) + 1 /\ rows'[Len(rows) + 1] = row
        /\ DOMAIN rows = 1 .. Len(rows) /\ Len(rows) \in Nat
        /\ \A i \in DOMAIN rows : rows'[i] = rows[i]
    BY <2>2, <2>3, Typed, Appended DEF Inv, TypeOK
  <2>5. ASSUME NEW m \in DOMAIN row.texts, NEW r, r = row.texts[m] PROVE Accepted(r)'
    <3>1. InOrder(cur, m)
      BY <2>1, <2>2 DEF Voices, TokensInOrder
    <3>2. Accepted(r)
      BY <2>2, <2>5, <3>1 DEF InOrder
    <3>. QED
      BY <1>3, <3>2 DEF Accepted, RowFromBuffer
  <2>6. ASSUME NEW i \in DOMAIN rows', NEW m \in DOMAIN rows'[i].texts,
               NEW r, r = rows'[i].texts[m]
        PROVE  Accepted(r)'
    <3>1. CASE i \in DOMAIN rows
      BY <1>1, <2>4, <2>6, <3>1
    <3>2. CASE i = Len(rows) + 1
      BY <2>4, <2>5, <2>6, <3>2
    <3>. QED
      BY <2>4, <3>1, <3>2
  <2>. QED
    BY <2>6 DEF RowsAccepted
<1>. QED
  BY <1>2, <1>3, RowSteps

\* No id is accepted twice while the process lives.
LEMMA AcceptedOnceStep == Inv /\ Voices /\ AcceptedOnce /\ [Next]_vars => AcceptedOnce'
<1>. SUFFICES ASSUME Inv, Voices, AcceptedOnce, [Next]_vars, restarts' = 0 PROVE AcceptedOnce'
  BY DEF AcceptedOnce
<1>1. req \in [Requests -> Inbound] /\ restarts \in Nat
  BY DEF Inv, TypeOK
<1>2. ASSUME NEW r \in Requests, NEW id \in Ids, InboundAccept(r, id)
      PROVE  AcceptedOnce'
  <2>1. /\ req'[r].id = id /\ req[r].pc = "idle"
        /\ \A q \in Requests : q # r => req'[q] = req[q]
    BY <1>1, <1>2 DEF InboundAccept, Inbound
  <2>2. restarts = 0 /\ (id # NoId => id \notin seen /\ id \in seen') /\ seen \subseteq seen'
    BY <1>2 DEF InboundAccept, Duplicate
  <2>3. \A q \in Requests : q # r => Accepted(q)' = Accepted(q)
    BY <2>1 DEF Accepted
  <2>. QED
    BY <2>1, <2>2, <2>3 DEF AcceptedOnce
<1>3. CASE UNCHANGED <<seen, restarts>>
           /\ \A r \in Requests : Accepted(r)' => Accepted(r) /\ req'[r].id = req[r].id
  BY <1>3 DEF AcceptedOnce
<1>4. ASSUME NEW r \in Requests, NEW id \in Ids, InboundDuplicate(r, id)
      PROVE  AcceptedOnce'
  <2>1. UNCHANGED <<seen, restarts>> /\ req'[r].status = "duplicate"
    BY <1>1, <1>4 DEF InboundDuplicate, Inbound
  <2>2. \A q \in Requests : q # r => req'[q] = req[q]
    BY <1>1, <1>4 DEF InboundDuplicate
  <2>. QED
    BY <1>3, <2>1, <2>2 DEF Accepted
<1>5. ASSUME NEW r \in Requests, Return(r)
      PROVE  AcceptedOnce'
  <2>1. UNCHANGED <<seen, restarts>> /\ req'[r].id = req[r].id
    BY <1>1, <1>5 DEF Return, Inbound
  <2>2. /\ \A q \in Requests : q # r => req'[q] = req[q]
        /\ req[r].pc = "waiting"
    BY <1>1, <1>5 DEF Return
  <2>3. req[r].status = "none"
    BY <2>2 DEF Voices, StatusesAgree
  <2>. QED
    BY <1>3, <2>1, <2>2, <2>3 DEF Accepted
<1>6. CASE Restart
  BY <1>1, <1>6 DEF Restart
<1>7. CASE UNCHANGED <<seen, restarts, req>>
  BY <1>3, <1>7 DEF Accepted
<1>. QED
  BY <1>2, <1>4, <1>5, <1>6, <1>7
     DEF Next, Arrival, LoopStep, SleepOn, Fire, Grant, FinishTurn, Tick, Quiet, vars

\* Two requests with one wa_message_id are never both put into turns, unless the
\* process is restarted in between (agent.py 100-109, 132).
THEOREM EveryIdOnce == Spec => [](restarts = 0 => HandledOnce)
<1>1. Init => RowsAccepted /\ AcceptedOnce
  BY DEF Init, IdleRequest, RowsAccepted, AcceptedOnce, Accepted
<1>2. Inv /\ Voices /\ RowsAccepted /\ AcceptedOnce => (restarts = 0 => HandledOnce)
  BY RowTextsTyped DEF RowsAccepted, AcceptedOnce, HandledOnce
<1>. QED
  BY <1>1, <1>2, Invariance, VoicesInvariance, RowsAcceptedStep, AcceptedOnceStep, PTL DEF Spec

-------------------------------------------------------------------------------
(***************************************************************************)
(* What is refused as a resend is not lost, also across restarts.          *)
(***************************************************************************)

\* The buffer and the rows change when a fragment joins, when a turn takes the
\* buffer and when the process restarts, and in no other step.
LEMMA BufferSteps ==
    ASSUME Inv, Voices, [Next]_vars
    PROVE  \/ \E r \in Requests, id \in Ids : InboundAccept(r, id)
           \/ RowFromBuffer
           \/ Restart
           \/ UNCHANGED <<current, rows, seen>>
<1>. DEFINE Same == UNCHANGED <<current, rows, seen>>
<1>1. ASSUME UNCHANGED <<batches, rows, seen>> PROVE Same
  BY <1>1 DEF current, cur
<1>2. ASSUME NEW t \in DOMAIN tasks, Fire(t) \/ Grant(t) PROVE RowFromBuffer \/ Same
  <2>1. UNCHANGED rows \/ RowFromBuffer
    BY <1>2, RowSteps DEF Next, LoopStep
  <2>2. CASE UNCHANGED rows
    <3>1. cur' = cur /\ cur \in DOMAIN batches
      BY <1>2, <2>2, BatchesKept, Typed DEF Inv
    <3>2. ASSUME Drain(t), current.texts # <<>> PROVE FALSE
      <4>. DEFINE closed == [batches[cur] EXCEPT !.winner = current.lastToken]
                  kept == [batches EXCEPT ![cur] = closed]
      <4>1. closed \in Batch /\ batches \in Seq(Batch)
        BY <3>1, FieldsTyped DEF current, Batch, Inv, TypeOK
      <4>2. batches' = Append(kept, EmptyBatch)
        BY <3>2 DEF Drain
      <4>. HIDE DEF closed
      <4>3. kept \in Seq(Batch) /\ Len(kept) = cur
        BY <3>1, <4>1, Updated DEF cur
      <4>. HIDE DEF kept
      <4>4. cur' = cur + 1
        BY <4>2, <4>3, Appended, EmptyIsBatch DEF cur
      <4>. QED
        BY <3>1, <4>4, Typed DEF Inv
    <3>3. UNCHANGED batches
      BY <1>2, <3>2 DEF Fire, Grant, Drain
    <3>. QED
      BY <1>1, <1>2, <2>2, <3>3 DEF Fire, Grant
  <2>. QED
    BY <2>1, <2>2
<1>3. ASSUME NEW t \in DOMAIN tasks, NEW result \in Results \ {"none"}, FinishTurn(t, result)
      PROVE  Same
  <2>. DEFINE d == tasks[t].drained
              closed == [batches[d] EXCEPT !.result = result]
  <2>1. /\ UNCHANGED <<rows, seen>> /\ batches' = [batches EXCEPT ![d] = closed]
        /\ d \in DOMAIN batches /\ d # cur /\ closed \in Batch
    <3>1. /\ UNCHANGED <<rows, seen>> /\ batches' = [batches EXCEPT ![d] = closed]
          /\ tasks[t].pc = "turn"
      BY <1>3 DEF FinishTurn
    <3>2. d \in DOMAIN batches /\ d # cur
      BY <3>1 DEF Inv, TasksAgree, Voices, WinnerIsLast
    <3>. QED
      BY <3>1, <3>2, Typed DEF Inv, Batch
  <2>. HIDE DEF closed
  <2>2. cur' = cur /\ cur \in DOMAIN batches
        /\ \A b \in DOMAIN batches : batches'[b] = IF b = d THEN closed ELSE batches[b]
    BY <2>1, Typed, Updated DEF Inv, TypeOK, cur
  <2>. QED
    BY <2>1, <2>2 DEF current
<1>4. CASE Arrival
  BY <1>1, <1>4 DEF Arrival, InboundDuplicate
<1>5. CASE (\E t \in DOMAIN tasks : SleepOn(t)) \/ (\E r \in Requests : Return(r)) \/ Tick
           \/ Quiet \/ UNCHANGED vars
  BY <1>1, <1>5 DEF SleepOn, Return, Tick, Quiet, vars
<1>. QED
  BY <1>2, <1>3, <1>4, <1>5 DEF Next, LoopStep

\* What has a row keeps it.
LEMMA RowsKept ==
    ASSUME Inv, Voices, [Next]_vars
    PROVE  /\ \A r \in Requests : InRows(r) => InRows(r)'
           /\ \A id \in Ids : StoredId(id) => StoredId(id)'
<1>1. ASSUME NEW r \in Requests, InRows(r) PROVE InRows(r)'
  <2>1. \A i \in DOMAIN rows : i \in DOMAIN rows' /\ rows'[i] = rows[i]
    BY RowSteps, RowMade, Typed DEF Inv
  <2>. QED
    BY <1>1, <2>1 DEF InRows
<1>. QED
  BY <1>1, AcceptedStays DEF StoredId

\* What is held stays held; a restart forgets what was seen.
LEMMA HeldStep == Inv /\ Voices /\ Held /\ [Next]_vars => Held'
<1>. SUFFICES ASSUME Inv, Voices, Held, [Next]_vars PROVE Held'
  OBVIOUS
<1>1. /\ current \in Batch /\ current = batches[cur] /\ cur \in DOMAIN batches
      /\ seen \subseteq WaIds /\ req \in [Requests -> Inbound]
      /\ \A i \in DOMAIN rows : rows[i].wa \in Ids
  <2>1. \A i \in DOMAIN rows : rows[i] \in [texts : Seq(Requests), wa : Ids]
    BY Typed, ElementOfSeq DEF Inv, TypeOK
  <2>. QED
    BY <2>1, Typed DEF Inv, TypeOK, current
<1>2. /\ current.texts \in Seq(Requests) /\ DOMAIN current.texts = 1 .. Len(current.texts)
      /\ Len(current.texts) \in Nat
      /\ \A i \in DOMAIN current.texts :
            current.texts[i] \in Requests /\ Accepted(current.texts[i])
  BY <1>1, FieldsTyped DEF Voices, TokensInOrder, InOrder
<1>3. ASSUME NEW i \in DOMAIN current.texts, NEW r, r = current.texts[i]
      PROVE  r \in Requests /\ Accepted(r)' /\ req'[r].id = req[r].id
  BY <1>2, <1>3, AcceptedStays
<1>4. ASSUME NEW r \in Requests, NEW id \in Ids, InboundAccept(r, id)
      PROVE  Held'
  <2>. DEFINE joined == Joined(current, r, id, seq + 1)
  <2>1. /\ joined \in Batch /\ joined.texts = Append(current.texts, r)
        /\ joined.wa = IF current.texts = <<>> THEN id ELSE current.wa
    <3>1. seq + 1 \in Nat /\ now \in Nat
      BY DEF Inv, TypeOK
    <3>. QED
      BY <1>1, <3>1, JoinedIsBatch
  <2>2. batches' = [batches EXCEPT ![cur] = joined] /\ UNCHANGED rows
        /\ seen' \subseteq seen \cup {id} /\ req[r].pc = "idle"
    BY <1>1, <1>4 DEF InboundAccept
  <2>. HIDE DEF joined
  <2>3. current' = joined
    BY <1>1, <2>1, <2>2, Updated DEF Inv, TypeOK, current, cur
  <2>4. /\ DOMAIN joined.texts = 1 .. Len(current.texts) + 1
        /\ joined.texts[Len(current.texts) + 1] = r
        /\ \A i \in DOMAIN current.texts : joined.texts[i] = current.texts[i]
    BY <1>2, <2>1, Appended
  <2>5. /\ req'[r].id = id /\ Accepted(r)'
    <3>1. /\ req' = [req EXCEPT ![r] = [req[r] EXCEPT !.pc = "waiting", !.id = id,
                                                   !.token = seq + 1, !.batch = cur]]
          /\ req[r] \in Inbound
      BY <1>1, <1>4 DEF InboundAccept
    <3>2. req[r].status # "duplicate"
      BY <2>2 DEF Voices, StatusesAgree
    <3>. QED
      BY <1>1, <3>1, <3>2 DEF Inbound, Accepted
  <2>6. ASSUME NEW x \in seen' PROVE StoredId(x)' \/ BufferedId(x)'
    <3>1. CASE x = id
      <4>1. InBuffer(r)'
        BY <1>2, <2>3, <2>4 DEF InBuffer
      <4>. QED
        BY <2>5, <3>1, <4>1 DEF BufferedId
    <3>2. CASE x \in seen /\ StoredId(x)
      BY <1>1, <3>2, RowsKept DEF Ids
    <3>3. CASE x \in seen /\ BufferedId(x)
      <4>1. PICK q \in Requests : Accepted(q) /\ req[q].id = x /\ InBuffer(q)
        BY <3>3 DEF BufferedId
      <4>2. Accepted(q)' /\ req'[q].id = x
        BY <4>1, AcceptedStays
      <4>3. InBuffer(q)'
        BY <1>2, <2>3, <2>4, <4>1 DEF InBuffer
      <4>. QED
        BY <4>2, <4>3 DEF BufferedId
    <3>. QED
      BY <2>2, <3>1, <3>2, <3>3 DEF Held, SeenIsHeld
  <2>7. RowIdIsHeld'
    BY <1>1, <2>2, RowsKept DEF Held, RowIdIsHeld
  <2>8. BufferId'
    <3>1. CASE current.texts = <<>>
      <4>1. joined.texts[1] = r
        BY <1>2, <2>4, <3>1
      <4>. QED
        BY <2>1, <2>3, <2>5, <3>1, <4>1 DEF BufferId
    <3>2. CASE current.texts # <<>>
      <4>1. 1 \in DOMAIN current.texts
        BY <1>2, <3>2, EmptySeq
      <4>. QED
        BY <1>3, <2>1, <2>3, <2>4, <3>2, <4>1 DEF Held, BufferId
    <3>. QED
      BY <3>1, <3>2
  <2>. QED
    BY <2>6, <2>7, <2>8 DEF Held, SeenIsHeld
<1>5. CASE RowFromBuffer
  <2>1. /\ DOMAIN rows' = 1 .. Len(rows) + 1 /\ Len(rows) \in Nat
        /\ DOMAIN rows = 1 .. Len(rows)
        /\ \A i \in DOMAIN rows : rows'[i] = rows[i]
        /\ rows'[Len(rows) + 1].texts = current.texts
    BY <1>1, <1>5, RowMade, Typed DEF Inv
  <2>2. rows'[Len(rows) + 1].wa = current.wa
    <3>1. [texts |-> current.texts, wa |-> current.wa] \in [texts : Seq(Requests), wa : Ids]
      BY <1>1 DEF Batch
    <3>. QED
      BY <1>5, <3>1, Appended DEF RowFromBuffer, Inv, TypeOK
  <2>3. current'.texts = <<>> /\ seen' = seen
    <3>1. [current EXCEPT !.winner = current.lastToken] \in Batch
      BY <1>1, FieldsTyped DEF Batch
    <3>2. [batches EXCEPT ![cur].winner = current.lastToken] \in Seq(Batch)
      BY <1>1, <3>1, Updated DEF Inv, TypeOK
    <3>3. current' = EmptyBatch
      BY <1>5, <3>2, Appended, EmptyIsBatch DEF RowFromBuffer, current, cur
    <3>. QED
      BY <1>5, <3>3 DEF RowFromBuffer, EmptyBatch
  <2>4. \A q \in Requests : InBuffer(q) => InRows(q)'
    BY <2>1 DEF InBuffer, InRows
  <2>5. \A x \in Ids : BufferedId(x) => StoredId(x)'
    BY <2>4, AcceptedStays DEF BufferedId, StoredId
  <2>6. SeenIsHeld'
    BY <1>1, <2>3, <2>5, RowsKept DEF Held, SeenIsHeld, Ids
  <2>7. RowIdIsHeld'
    <3>1. ASSUME NEW id, id = current.wa PROVE StoredId(id)'
      <4>1. 1 \in DOMAIN current.texts
        BY <1>2, <1>5, EmptySeq DEF RowFromBuffer
      <4>2. BufferedId(id) /\ id \in Ids
        BY <1>1, <1>2, <1>5, <3>1, <4>1
           DEF Held, BufferId, BufferedId, InBuffer, RowFromBuffer, Batch
      <4>. QED
        BY <2>5, <4>2
    <3>2. ASSUME NEW i \in DOMAIN rows', NEW id, id = rows'[i].wa, id # NoId PROVE StoredId(id)'
      <4>1. CASE i \in DOMAIN rows
        BY <1>1, <2>1, <3>2, <4>1, RowsKept DEF Held, RowIdIsHeld
      <4>2. CASE i = Len(rows) + 1
        BY <2>2, <3>1, <3>2, <4>2
      <4>. QED
        BY <2>1, <4>1, <4>2
    <3>. QED
      BY <3>2 DEF RowIdIsHeld
  <2>. QED
    BY <2>3, <2>6, <2>7 DEF Held, BufferId
<1>6. CASE Restart
  <2>1. current' = EmptyBatch
    BY <1>6, EmptyIsBatch, Appended DEF Restart, Inv, TypeOK, current, cur
  <2>2. seen' = {} /\ UNCHANGED rows
    BY <1>6 DEF Restart
  <2>. QED
    BY <1>1, <2>1, <2>2, RowsKept DEF Held, SeenIsHeld, RowIdIsHeld, BufferId, EmptyBatch
<1>7. CASE UNCHANGED <<current, rows, seen>>
  <2>1. \A x \in Ids : BufferedId(x) => BufferedId(x)'
    BY <1>7, AcceptedStays DEF BufferedId, InBuffer
  <2>2. SeenIsHeld' /\ RowIdIsHeld'
    BY <1>1, <1>7, <2>1, RowsKept DEF Held, SeenIsHeld, RowIdIsHeld, Ids
  <2>3. BufferId'
    <3>1. current.texts # <<>> => 1 \in DOMAIN current.texts
      BY <1>2, EmptySeq
    <3>. QED
      BY <1>3, <1>7, <3>1 DEF Held, BufferId
  <2>. QED
    BY <2>2, <2>3 DEF Held
<1>. QED
  BY <1>4, <1>5, <1>6, <1>7, BufferSteps

\* A resend is turned away only while the program still has what it resends, for
\* any number of restarts (agent.py 100-109, 132).
THEOREM RefusalsAreHeld == Spec => RefusedIsHeld
<1>. DEFINE Kept ==
       \A r \in Requests :
          req[r].pc = "idle" /\ req'[r].status = "duplicate" =>
              \E q \in Requests :
                  /\ req[q].pc # "idle" /\ req[q].status # "duplicate"
                  /\ req[q].id = req'[r].id
                  /\ InBuffer(q) \/ InRows(q)
<1>1. Init => Held
  BY DEF Init, Held, SeenIsHeld, RowIdIsHeld, BufferId, EmptyBatch, current, cur
<1>2. Inv /\ Voices /\ Held /\ [Next]_vars => Kept
  <2>. SUFFICES ASSUME Inv, Voices, Held, [Next]_vars, NEW r \in Requests,
                       req[r].pc = "idle", req'[r].status = "duplicate"
                PROVE  StoredId(req'[r].id) \/ BufferedId(req'[r].id)
    BY DEF StoredId, BufferedId, Accepted
  <2>1. req \in [Requests -> Inbound] /\ req[r].status = "none"
    BY DEF Inv, TypeOK, Voices, StatusesAgree
  <2>2. PICK id \in Ids : InboundDuplicate(r, id)
    <3>1. ASSUME NEW q \in Requests, NEW id \in Ids, InboundAccept(q, id) PROVE FALSE
      BY <2>1, <3>1 DEF InboundAccept, Inbound
    <3>2. ASSUME NEW q \in Requests, Return(q) PROVE FALSE
      <4>1. q # r /\ req'[r] = req[r]
        BY <2>1, <3>2 DEF Return
      <4>. QED
        BY <2>1, <4>1
    <3>3. CASE Restart
      BY <2>1, <3>3 DEF Restart
    <3>4. ASSUME NEW q \in Requests, NEW id \in Ids, InboundDuplicate(q, id) PROVE q = r
      BY <2>1, <3>4 DEF InboundDuplicate
    <3>5. CASE UNCHANGED req
      BY <2>1, <3>5
    <3>. QED
      BY <3>1, <3>2, <3>3, <3>4, <3>5
         DEF Next, Arrival, LoopStep, SleepOn, Fire, Grant, FinishTurn, Tick, Quiet, vars
  <2>3. req'[r].id = id /\ Duplicate(id)
    BY <2>1, <2>2 DEF InboundDuplicate, Inbound
  <2>. QED
    BY <2>3 DEF Duplicate, Held, SeenIsHeld, RowIdIsHeld
<1>. QED
  BY <1>1, <1>2, Invariance, VoicesInvariance, HeldStep, PTL DEF Spec, RefusedIsHeld

-------------------------------------------------------------------------------
(***************************************************************************)
(* The debounce implements the mailbox: every step of it is a step of      *)
(* Mailbox or leaves the mailbox as it is, for any requests, ids, times    *)
(* and restarts.  (The fairness of Mailbox is left to model checking.)     *)
(***************************************************************************)

\* What the action lemmas below take from the state they start in.
LEMMA Roles ==
    ASSUME Inv, Voices, TurnAgrees
    PROVE  /\ cur \in DOMAIN batches /\ current = batches[cur] /\ current.result = "none"
           /\ \A r \in Requests : req[r].pc \in {"idle", "waiting", "returned", "lost"}
           /\ \A r \in Requests : req[r].pc = "waiting" =>
                 /\ req[r].batch \in DOMAIN batches
                 /\ req[r].status = "none"
                 /\ StatusFor(r) \in {"none", "reply", "error", "coalesced"}
           /\ \A b \in DOMAIN batches : \A i \in DOMAIN batches[b].texts :
                 batches[b].texts[i] \in Requests
           /\ holder # 0 =>
                 /\ holder \in DOMAIN tasks /\ tasks[holder].pc = "turn"
                 /\ tasks[holder].drained \in DOMAIN batches
                 /\ tasks[holder].drained # cur
                 /\ batches[tasks[holder].drained].result = "none"
<1>1. cur \in DOMAIN batches /\ current = batches[cur] /\ current.result = "none"
  BY Typed DEF Inv, current, Voices, WinnerIsLast
<1>2. \A r \in Requests : req[r].pc \in {"idle", "waiting", "returned", "lost"}
  BY FieldsTyped DEF Inbound
<1>3. ASSUME NEW r \in Requests, req[r].pc = "waiting"
      PROVE  /\ req[r].batch \in DOMAIN batches
             /\ req[r].status = "none"
             /\ StatusFor(r) \in {"none", "reply", "error", "coalesced"}
  <2>1. req[r].batch \in DOMAIN batches /\ req[r].status = "none"
    BY <1>3 DEF Inv, WaitersAgree, Voices, StatusesAgree
  <2>2. batches[req[r].batch].result \in Results
    BY <2>1, FieldsTyped DEF Batch
  <2>. QED
    BY <2>1, <2>2 DEF StatusFor, Results
<1>4. holder # 0 =>
         /\ holder \in DOMAIN tasks /\ tasks[holder].pc = "turn"
         /\ tasks[holder].drained \in DOMAIN batches
         /\ tasks[holder].drained # cur
         /\ batches[tasks[holder].drained].result = "none"
  <2>1. holder # 0 => holder \in DOMAIN tasks /\ tasks[holder].pc = "turn"
    BY Typed DEF Inv, TypeOK, TasksAgree
  <2>. QED
    BY <2>1 DEF Inv, TasksAgree, Voices, WinnerIsLast
<1>. QED
  BY <1>1, <1>2, <1>3, <1>4, FieldsTyped

\* A request that stays as it is, on a batch that keeps its result and its winner,
\* keeps its phase.
LEMMA PhaseKept ==
    ASSUME Inv, Voices, TurnAgrees, NEW r \in Requests,
           req'[r] = req[r],
           req[r].pc = "waiting" =>
               LET b == req[r].batch
               IN  /\ batches'[b].result = batches[b].result
                   /\ batches[b].result # "none" => batches'[b].winner = batches[b].winner
    PROVE  PhaseOf(r)' = PhaseOf(r)
<1>1. CASE req[r].pc = "waiting"
  BY <1>1 DEF PhaseOf, StatusFor
<1>2. CASE req[r].pc # "waiting"
  BY <1>2, Roles DEF PhaseOf
<1>. QED
  BY <1>1, <1>2

\* A step that changes no request, no batch and no lock is none of the mailbox's.
LEMMA QuietMailbox ==
    ASSUME Inv, Voices, TurnAgrees, UNCHANGED <<batches, req, holder>>,
           holder # 0 => tasks'[holder].drained = tasks[holder].drained
    PROVE  TurnAgrees' /\ UNCHANGED M!vars
<1>1. UNCHANGED <<cur, current, Taken>>
  BY DEF cur, current, Taken
<1>2. \A r \in Requests : PhaseOf(r)' = PhaseOf(r)
  BY PhaseKept
<1>3. TurnAgrees'
  BY <1>1 DEF TurnAgrees, WaitedOn
<1>. QED
  BY <1>1, <1>2, <1>3 DEF M!vars

-------------------------------------------------------------------------------
\* Nobody has written yet.
LEMMA MailboxInit == Init => TurnAgrees /\ M!Init
<1>. SUFFICES ASSUME Init PROVE TurnAgrees /\ M!Init
  OBVIOUS
<1>1. /\ cur = 1 /\ current = EmptyBatch /\ DOMAIN batches = {1} /\ batches[1] = EmptyBatch
      /\ holder = 0 /\ Taken = <<>>
  BY DEF Init, cur, current, Taken
<1>2. DOMAIN EmptyBatch.texts = {} /\ EmptyBatch.texts = <<>>
  BY DEF EmptyBatch
<1>3. \A r \in Requests : PhaseOf(r) = "idle"
  BY DEF Init, IdleRequest, PhaseOf
<1>. QED
  BY <1>1, <1>2, <1>3 DEF TurnAgrees, WaitedOn, M!Init

\* A refused resend is refused by the mailbox.
LEMMA InboundDuplicateMailbox ==
    ASSUME Inv, Voices, TurnAgrees, NEW r \in Requests, NEW id \in Ids, InboundDuplicate(r, id)
    PROVE  TurnAgrees' /\ M!Refuse(r)
<1>1. UNCHANGED <<batches, tasks, holder, cur, current, Taken>>
  BY DEF InboundDuplicate, cur, current, Taken
<1>2. /\ req[r] \in Inbound /\ req[r].pc = "idle" /\ req \in [Requests -> Inbound]
      /\ req' = [req EXCEPT ![r] =
                   [req[r] EXCEPT !.pc = "returned", !.id = id, !.status = "duplicate"]]
  BY FieldsTyped DEF InboundDuplicate, Inv, TypeOK
<1>3. /\ req'[r].pc = "returned" /\ req'[r].status = "duplicate"
      /\ \A q \in Requests : q # r => req'[q] = req[q]
  BY <1>2 DEF Inbound
<1>4. \A b \in DOMAIN batches : \A i \in DOMAIN batches[b].texts :
         batches[b].texts[i] \in Requests \ {r}
  BY <1>2, Roles DEF Voices, TokensInOrder, InOrder, Accepted
<1>5. TurnAgrees'
  <2>1. \A b \in DOMAIN batches : WaitedOn(b) => WaitedOn(b)'
    BY <1>1, <1>3, <1>4 DEF WaitedOn
  <2>. QED
    BY <1>1, <1>3, <1>4, <2>1, Roles DEF TurnAgrees
<1>6. PhaseOf(r) = "idle" /\ PhaseOf(r)' = "duplicate"
  BY <1>2, <1>3 DEF PhaseOf
<1>7. \A q \in Requests : q # r => PhaseOf(q)' = PhaseOf(q)
  BY <1>1, <1>3, PhaseKept
<1>. QED
  BY <1>1, <1>5, <1>6, <1>7 DEF M!Refuse

\* An accepted fragment goes to the end of the inbox.
LEMMA InboundAcceptMailbox ==
    ASSUME Inv, Voices, TurnAgrees, NEW r \in Requests, NEW id \in Ids, InboundAccept(r, id)
    PROVE  TurnAgrees' /\ M!Accept(r)
<1>. DEFINE joined == Joined(current, r, id, seq + 1)
            texts == current.texts
<1>1. /\ seq \in Nat /\ now \in Nat
      /\ cur \in DOMAIN batches /\ current \in Batch /\ texts \in Seq(Requests)
      /\ Len(texts) \in Nat /\ DOMAIN texts = 1 .. Len(texts)
      /\ current = batches[cur] /\ current.result = "none"
  BY Typed, FieldsTyped, Roles DEF InboundAccept, Inv, TypeOK, current
<1>2. /\ joined \in Batch /\ joined.texts = Append(texts, r)
      /\ joined.result = current.result /\ joined.winner = current.winner
  <2>1. joined \in Batch /\ joined.texts = Append(texts, r)
    <3>1. seq + 1 \in Nat /\ joined = Joined(current, r, id, seq + 1)
      BY <1>1
    <3>. QED
      BY <1>1, <3>1, JoinedIsBatch
  <2>. QED
    BY <1>1, <2>1 DEF Joined, Batch
<1>3. /\ DOMAIN Append(texts, r) = 1 .. Len(texts) + 1
      /\ Append(texts, r)[Len(texts) + 1] = r
      /\ \A j \in DOMAIN texts : Append(texts, r)[j] = texts[j]
  BY <1>1, Appended
<1>4. batches' = [batches EXCEPT ![cur] = joined]
  BY DEF InboundAccept, current
<1>. HIDE DEF joined
<1>5. /\ DOMAIN batches' = DOMAIN batches /\ cur' = cur /\ current' = joined
      /\ \A b \in DOMAIN batches : batches'[b] = IF b = cur THEN joined ELSE batches[b]
  BY <1>1, <1>2, <1>4, Updated DEF Inv, TypeOK, current, cur
<1>6. /\ req[r] \in Inbound /\ req[r].pc = "idle" /\ req \in [Requests -> Inbound]
      /\ req' = [req EXCEPT ![r] = [req[r] EXCEPT !.pc = "waiting", !.id = id,
                                                  !.token = seq + 1, !.batch = cur]]
  BY FieldsTyped DEF InboundAccept, Inv, TypeOK
<1>7. /\ req'[r].pc = "waiting" /\ req'[r].batch = cur
      /\ \A q \in Requests : q # r => req'[q] = req[q]
  BY <1>6 DEF Inbound
<1>8. \A b \in DOMAIN batches : \A i \in DOMAIN batches[b].texts :
         batches[b].texts[i] \in Requests \ {r}
  BY <1>6, Roles DEF Voices, TokensInOrder, InOrder, Accepted
<1>9. holder' = holder /\ (holder # 0 => tasks'[holder] = tasks[holder])
  <2>1. CASE TimerIdle
    <3>. DEFINE task == [pc |-> "sleeping", batch |-> cur, wake |-> now, drained |-> 0]
    <3>1. tasks' = Append(tasks, task) /\ holder' = holder
      BY <2>1 DEF InboundAccept, EnsureTimer
    <3>2. task \in Task
      BY <1>1, Typed DEF Task, Inv
    <3>. HIDE DEF task
    <3>. QED
      BY <3>1, <3>2, Appended, Typed, Roles DEF Inv, TypeOK
  <2>2. CASE ~TimerIdle
    BY <2>2 DEF InboundAccept, EnsureTimer
  <2>. QED
    BY <2>1, <2>2
<1>10. Taken' = Taken
  BY <1>5, <1>9, Roles DEF Taken
<1>11. TurnAgrees'
  <2>1. ASSUME NEW b \in DOMAIN batches', NEW i \in DOMAIN batches'[b].texts
        PROVE  req'[batches'[b].texts[i]].batch = b
    <3>1. CASE b # cur
      BY <1>5, <1>7, <1>8, <3>1 DEF TurnAgrees
    <3>2. CASE b = cur
      <4>1. CASE i = Len(texts) + 1
        BY <1>2, <1>3, <1>5, <1>7, <3>2, <4>1
      <4>2. CASE i # Len(texts) + 1
        <5>1. i \in DOMAIN texts /\ batches'[b].texts[i] = texts[i]
          BY <1>1, <1>2, <1>3, <1>5, <3>2, <4>2
        <5>. QED
          BY <1>1, <1>7, <1>8, <3>2, <5>1 DEF TurnAgrees
      <4>. QED
        BY <4>1, <4>2
    <3>. QED
      BY <3>1, <3>2
  <2>2. WaitedOn(cur)'
    <3>. SUFFICES ASSUME NEW i \in DOMAIN Append(texts, r)
                  PROVE  req'[Append(texts, r)[i]].pc = "waiting"
      BY <1>1, <1>2, <1>5 DEF WaitedOn
    <3>1. CASE i = Len(texts) + 1
      BY <1>3, <1>7, <3>1
    <3>2. CASE i # Len(texts) + 1
      <4>1. i \in DOMAIN texts /\ Append(texts, r)[i] = texts[i]
        BY <1>1, <1>3, <3>2
      <4>. QED
        BY <1>1, <1>7, <1>8, <4>1 DEF TurnAgrees, WaitedOn
    <3>. QED
      BY <3>1, <3>2
  <2>3. holder' # 0 => Taken' # <<>> /\ WaitedOn(tasks[holder].drained)'
    BY <1>5, <1>7, <1>8, <1>9, <1>10, Roles DEF TurnAgrees, WaitedOn
  <2>. QED
    BY <2>1, <2>2, <2>3 DEF TurnAgrees
<1>12. PhaseOf(r) = "idle" /\ PhaseOf(r)' = "pending"
  BY <1>1, <1>2, <1>5, <1>6, <1>7 DEF PhaseOf
<1>13. \A q \in Requests : q # r => PhaseOf(q)' = PhaseOf(q)
  BY <1>1, <1>2, <1>5, <1>7, PhaseKept, Roles
<1>. QED
  BY <1>2, <1>5, <1>10, <1>11, <1>12, <1>13 DEF M!Accept

\* A timer that sleeps on is nothing to the mailbox.
LEMMA SleepOnMailbox ==
    ASSUME Inv, Voices, TurnAgrees, NEW t \in DOMAIN tasks, SleepOn(t)
    PROVE  TurnAgrees' /\ UNCHANGED M!vars
<1>1. /\ UNCHANGED <<batches, req, holder>> /\ tasks[t].pc = "sleeping"
      /\ tasks' = [tasks EXCEPT ![t].wake = Deadline(batches[tasks[t].batch])]
  BY DEF SleepOn, Due
<1>2. holder # 0 => tasks'[holder].drained = tasks[holder].drained
  BY <1>1, Roles
<1>. QED
  BY <1>1, <1>2, QuietMailbox

\* A drain that finds fragments is the beginning of a turn; one that finds none is
\* nothing to the mailbox.
LEMMA DrainMailbox ==
    ASSUME Inv, Voices, TurnAgrees, NEW t \in DOMAIN tasks, t # 0, holder = 0,
           Drain(t), UNCHANGED req
    PROVE  TurnAgrees' /\ (M!Begin \/ UNCHANGED M!vars)
<1>1. /\ cur \in Nat \ {0} /\ DOMAIN batches = 1 .. cur /\ current \in Batch
      /\ current = batches[cur] /\ cur \in DOMAIN batches /\ current.result = "none"
      /\ tasks[t] \in Task
  BY Typed, FieldsTyped, Roles DEF Inv, current
<1>2. CASE current.texts = <<>>
  <2>1. UNCHANGED <<batches, req, holder>>
    BY <1>2 DEF Drain
  <2>. QED
    BY <2>1, QuietMailbox
<1>3. CASE current.texts # <<>>
  <2>. DEFINE task == [tasks[t] EXCEPT !.pc = "turn", !.drained = cur]
              closed == [current EXCEPT !.winner = current.lastToken]
              kept == [batches EXCEPT ![cur] = closed]
  <2>1. /\ tasks' = [tasks EXCEPT ![t] = task] /\ holder' = t
        /\ batches' = Append(kept, EmptyBatch)
    BY <1>3 DEF Drain, current
  <2>2. task.drained = cur
    BY <1>1 DEF Task
  <2>3. closed \in Batch /\ closed.texts = current.texts /\ closed.result = current.result
    BY <1>1, FieldsTyped DEF Batch
  <2>. HIDE DEF task, closed
  <2>4. /\ kept \in Seq(Batch) /\ DOMAIN kept = DOMAIN batches /\ Len(kept) = cur
        /\ \A b \in DOMAIN batches : kept[b] = IF b = cur THEN closed ELSE batches[b]
    BY <1>1, <2>3, Updated DEF Inv, TypeOK, cur
  <2>. HIDE DEF kept
  <2>5. /\ DOMAIN batches' = 1 .. cur + 1 /\ cur' = cur + 1
        /\ batches'[cur + 1] = EmptyBatch
        /\ \A b \in DOMAIN batches : batches'[b] = IF b = cur THEN closed ELSE batches[b]
    BY <2>1, <2>4, Appended, EmptyIsBatch DEF cur
  <2>6. current' = EmptyBatch /\ current'.texts = <<>> /\ DOMAIN EmptyBatch.texts = {}
    BY <2>5 DEF current, EmptyBatch
  <2>7. /\ tasks'[holder'].drained = cur /\ batches'[cur].texts = current.texts
        /\ Taken = <<>> /\ Taken' = current.texts
    BY <1>1, <2>1, <2>2, <2>3, <2>5 DEF Taken
  <2>8. TurnAgrees'
    <3>1. ASSUME NEW b \in DOMAIN batches', NEW i \in DOMAIN batches'[b].texts
          PROVE  req'[batches'[b].texts[i]].batch = b
      <4>1. b \in DOMAIN batches /\ batches'[b].texts = batches[b].texts
        BY <1>1, <2>3, <2>5, <2>6
      <4>. QED
        BY <4>1 DEF TurnAgrees
    <3>2. WaitedOn(cur)'
      BY <2>5, <2>6 DEF WaitedOn
    <3>3. Taken' # <<>> /\ WaitedOn(tasks[holder].drained)'
      BY <1>1, <1>3, <2>7 DEF TurnAgrees, WaitedOn
    <3>. QED
      BY <3>1, <3>2, <3>3 DEF TurnAgrees
  <2>9. \A r \in Requests : PhaseOf(r)' = PhaseOf(r)
    <3>1. \A r \in Requests : req[r].pc = "waiting" =>
             LET b == req[r].batch
             IN  /\ batches'[b].result = batches[b].result
                 /\ batches[b].result # "none" => batches'[b].winner = batches[b].winner
      BY <1>1, <2>3, <2>5, Roles
    <3>. QED
      BY <3>1, PhaseKept
  <2>10. M!Begin
    BY <1>3, <2>6, <2>7, <2>9 DEF M!Begin
  <2>. QED
    BY <2>8, <2>10
<1>. QED
  BY <1>2, <1>3

\* A task that fires begins a turn, or waits for the lock unseen.
LEMMA FireMailbox ==
    ASSUME Inv, Voices, TurnAgrees, NEW t \in DOMAIN tasks, Fire(t)
    PROVE  TurnAgrees' /\ (M!Begin \/ UNCHANGED M!vars)
<1>1. UNCHANGED req /\ tasks[t].pc = "sleeping" /\ t # 0
  BY Typed DEF Fire, Due, Inv
<1>2. CASE holder = 0 /\ Drain(t)
  BY <1>1, <1>2, DrainMailbox
<1>3. CASE tasks' = [tasks EXCEPT ![t].pc = "blocked"] /\ UNCHANGED <<batches, holder>>
  <2>1. holder # 0 => tasks'[holder].drained = tasks[holder].drained
    BY <1>1, <1>3, Roles
  <2>. QED
    BY <1>1, <1>3, <2>1, QuietMailbox
<1>. QED
  BY <1>2, <1>3 DEF Fire

\* The task that gets the lock begins a turn, unless another took the buffer.
LEMMA GrantMailbox ==
    ASSUME Inv, Voices, TurnAgrees, NEW t \in DOMAIN tasks, Grant(t)
    PROVE  TurnAgrees' /\ (M!Begin \/ UNCHANGED M!vars)
<1>1. UNCHANGED req /\ holder = 0 /\ Drain(t) /\ t # 0
  BY Typed DEF Grant, Grantable, Inv
<1>. QED
  BY <1>1, DrainMailbox

\* The end of a turn owes its result to the last fragment and silences the others.
LEMMA FinishTurnMailbox ==
    ASSUME Inv, Voices, TurnAgrees, NEW t \in DOMAIN tasks,
           NEW result \in Results \ {"none"}, FinishTurn(t, result)
    PROVE  TurnAgrees' /\ M!End
<1>. DEFINE d == tasks[t].drained
            closed == [batches[d] EXCEPT !.result = result]
            texts == batches[d].texts
<1>1. /\ UNCHANGED req /\ holder' = 0 /\ tasks[t].pc = "turn"
      /\ batches' = [batches EXCEPT ![d] = closed]
  BY DEF FinishTurn
<1>2. /\ t = holder /\ holder # 0 /\ d \in DOMAIN batches /\ d # cur
      /\ batches[d].result = "none" /\ batches[d].winner = batches[d].lastToken
      /\ batches[d] \in Batch
  <2>1. t = holder /\ d \in DOMAIN batches /\ t # 0
    BY <1>1, Typed DEF Inv, TasksAgree
  <2>. QED
    BY <1>1, <2>1, FieldsTyped DEF Voices, WinnerIsLast
<1>3. /\ closed \in Batch /\ closed.texts = texts /\ closed.result = result
      /\ closed.winner = batches[d].winner
  BY <1>2 DEF Batch
<1>. HIDE DEF closed
<1>4. /\ DOMAIN batches' = DOMAIN batches /\ cur' = cur
      /\ \A b \in DOMAIN batches : batches'[b] = IF b = d THEN closed ELSE batches[b]
  BY <1>1, <1>2, <1>3, Updated DEF Inv, TypeOK, cur
<1>5. current' = current /\ cur \in DOMAIN batches
  BY <1>2, <1>4, Typed DEF current, Inv
<1>6. /\ Taken = texts /\ Taken' = <<>> /\ texts # <<>>
      /\ \A i \in DOMAIN texts : req[texts[i]].pc = "waiting" /\ req[texts[i]].batch = d
  BY <1>1, <1>2 DEF Taken, TurnAgrees, WaitedOn
<1>7. TurnAgrees'
  <2>1. \A b \in DOMAIN batches : batches'[b].texts = batches[b].texts
    BY <1>3, <1>4
  <2>. QED
    BY <1>1, <1>4, <1>5, <2>1 DEF TurnAgrees, WaitedOn
<1>8. /\ Len(texts) \in Nat /\ DOMAIN texts = 1 .. Len(texts) /\ batches[d].lastToken \in Nat
      /\ \A i \in DOMAIN texts : texts[i] \in Requests /\ req[texts[i]].token \in Nat
  BY <1>2, FieldsTyped
<1>9. Len(texts) \in DOMAIN texts
  BY <1>2, <1>6, <1>8, EmptySeq DEF Batch
<1>10. ASSUME NEW r \in Requests, r \in M!Members(texts)
       PROVE  PhaseOf(r)' = IF r = texts[Len(texts)] THEN "owed" ELSE "silent"
  <2>1. PICK i \in DOMAIN texts : texts[i] = r
    BY <1>10 DEF M!Members
  <2>2. InOrder(d, i) /\ InOrder(d, Len(texts))
    BY <1>2, <1>9, <2>1 DEF Voices, TokensInOrder
  <2>3. (r = texts[Len(texts)]) <=> (req[r].token = batches[d].winner)
    BY <1>2, <1>8, <1>9, <2>1, <2>2 DEF InOrder
  <2>4. req'[r].pc = "waiting" /\ req'[r].batch = d /\ req'[r].token = req[r].token
    BY <1>1, <1>6, <2>1
  <2>5. batches'[d].result = result /\ batches'[d].winner = batches[d].winner
    BY <1>2, <1>3, <1>4
  <2>6. result \in {"reply", "error"}
    BY DEF Results
  <2>7. StatusFor(r)' = IF r = texts[Len(texts)] THEN result ELSE "coalesced"
    BY <2>3, <2>4, <2>5 DEF StatusFor
  <2>. QED
    BY <2>4, <2>5, <2>6, <2>7 DEF PhaseOf
<1>11. ASSUME NEW r \in Requests, r \notin M!Members(texts)
       PROVE  PhaseOf(r)' = PhaseOf(r)
  <2>1. req[r].pc = "waiting" => req[r].batch # d
    <3>1. SUFFICES ASSUME req[r].pc = "waiting", req[r].batch = d PROVE FALSE
      OBVIOUS
    <3>2. Accepted(r)
      BY <3>1, Roles DEF Accepted
    <3>. QED
      BY <1>11, <3>1, <3>2 DEF Voices, Heard, M!Members
  <2>. QED
    BY <1>1, <1>4, <2>1, PhaseKept, Roles
<1>. QED
  BY <1>5, <1>6, <1>7, <1>10, <1>11 DEF M!End

\* A request that returns is told what it was owed.
LEMMA ReturnMailbox ==
    ASSUME Inv, Voices, TurnAgrees, NEW r \in Requests, Return(r)
    PROVE  TurnAgrees' /\ M!Return(r)
<1>1. UNCHANGED <<batches, tasks, holder, cur, current, Taken>>
  BY DEF Return, cur, current, Taken
<1>2. /\ req[r] \in Inbound /\ req[r].pc = "waiting" /\ req \in [Requests -> Inbound]
      /\ batches[req[r].batch].result # "none"
      /\ req' = [req EXCEPT ![r] = [req[r] EXCEPT !.pc = "returned", !.status = StatusFor(r)]]
  BY FieldsTyped DEF Return, Inv, TypeOK
<1>3. /\ req'[r].pc = "returned" /\ req'[r].status = StatusFor(r) /\ req'[r].batch = req[r].batch
      /\ \A q \in Requests : q # r => req'[q] = req[q]
  BY <1>2 DEF Inbound
<1>4. StatusFor(r) \in {"reply", "error", "coalesced"}
  <2>1. req[r].batch \in DOMAIN batches
    BY <1>2, Roles
  <2>2. batches[req[r].batch].result \in Results \ {"none"}
    BY <1>2, <2>1, FieldsTyped DEF Batch
  <2>. QED
    BY <2>2 DEF StatusFor, Results
<1>5. TurnAgrees'
  <2>1. ASSUME NEW b \in DOMAIN batches, batches[b].result = "none", WaitedOn(b)
        PROVE  WaitedOn(b)'
    <3>. SUFFICES ASSUME NEW i \in DOMAIN batches[b].texts
                  PROVE  req'[batches[b].texts[i]].pc = "waiting"
      BY <1>1 DEF WaitedOn
    <3>1. batches[b].texts[i] \in Requests /\ req[batches[b].texts[i]].batch = b
      BY Roles DEF TurnAgrees
    <3>2. batches[b].texts[i] # r
      BY <1>2, <2>1, <3>1
    <3>. QED
      BY <1>3, <2>1, <3>1, <3>2 DEF WaitedOn
  <2>2. \A b \in DOMAIN batches : \A i \in DOMAIN batches[b].texts :
           req'[batches[b].texts[i]].batch = b
    BY <1>3, Roles DEF TurnAgrees
  <2>3. WaitedOn(cur)'
    BY <1>1, <2>1, Roles DEF TurnAgrees
  <2>4. holder' # 0 => Taken' # <<>> /\ WaitedOn(tasks[holder].drained)'
    BY <1>1, <2>1, Roles DEF TurnAgrees
  <2>. QED
    BY <1>1, <2>2, <2>3, <2>4 DEF TurnAgrees
<1>6. /\ PhaseOf(r) = IF StatusFor(r) = "coalesced" THEN "silent" ELSE "owed"
      /\ PhaseOf(r)' = IF StatusFor(r) = "coalesced" THEN "coalesced" ELSE "answered"
  BY <1>2, <1>3, <1>4 DEF PhaseOf
<1>7. \A q \in Requests : q # r => PhaseOf(q)' = PhaseOf(q)
  BY <1>1, <1>3, PhaseKept
<1>. QED
  BY <1>1, <1>5, <1>6, <1>7 DEF M!Return

\* A restart loses exactly the requests that wait.
LEMMA RestartMailbox ==
    ASSUME Inv, Voices, TurnAgrees, Restart
    PROVE  TurnAgrees' /\ M!Restart
<1>1. /\ holder' = 0 /\ batches' = Append(batches, EmptyBatch)
      /\ req' = [r \in Requests |->
                   IF req[r].pc = "waiting" THEN [req[r] EXCEPT !.pc = "lost"] ELSE req[r]]
  BY DEF Restart
<1>2. /\ DOMAIN batches = 1 .. cur /\ DOMAIN batches' = 1 .. cur + 1 /\ cur' = cur + 1
      /\ cur \in Nat
      /\ batches'[cur + 1] = EmptyBatch /\ \A b \in DOMAIN batches : batches'[b] = batches[b]
  BY <1>1, Typed, Appended, EmptyIsBatch DEF Inv, TypeOK, cur
<1>3. current'.texts = <<>> /\ Taken' = <<>> /\ DOMAIN EmptyBatch.texts = {}
  BY <1>1, <1>2 DEF current, EmptyBatch, Taken
<1>4. \A r \in Requests :
        /\ req'[r].pc = (IF req[r].pc = "waiting" THEN "lost" ELSE req[r].pc)
        /\ req'[r].batch = req[r].batch
        /\ req[r].pc # "waiting" => req'[r] = req[r]
  BY <1>1, FieldsTyped DEF Inbound
<1>5. TurnAgrees'
  <2>1. ASSUME NEW b \in DOMAIN batches', NEW i \in DOMAIN batches'[b].texts
        PROVE  req'[batches'[b].texts[i]].batch = b
    <3>1. b \in DOMAIN batches /\ batches'[b] = batches[b]
      BY <1>2, <1>3
    <3>. QED
      BY <1>4, <3>1, Roles DEF TurnAgrees
  <2>2. WaitedOn(cur)'
    BY <1>2, <1>3 DEF WaitedOn
  <2>. QED
    BY <1>1, <2>1, <2>2 DEF TurnAgrees
<1>6. ASSUME NEW r \in Requests
      PROVE  PhaseOf(r)' = IF PhaseOf(r) \in {"pending", "owed", "silent"} THEN "lost" ELSE PhaseOf(r)
  <2>1. CASE req[r].pc = "waiting"
    <3>1. PhaseOf(r) \in {"pending", "owed", "silent"}
      BY <2>1 DEF PhaseOf
    <3>2. PhaseOf(r)' = "lost"
      BY <1>4, <2>1 DEF PhaseOf
    <3>. QED
      BY <3>1, <3>2
  <2>2. CASE req[r].pc # "waiting"
    <3>1. PhaseOf(r)' = PhaseOf(r)
      BY <1>4, <2>2, PhaseKept
    <3>2. PhaseOf(r) \notin {"pending", "owed", "silent"}
      BY <2>2, Roles DEF PhaseOf
    <3>. QED
      BY <3>1, <3>2
  <2>. QED
    BY <2>1, <2>2
<1>. QED
  BY <1>3, <1>5, <1>6 DEF M!Restart

-------------------------------------------------------------------------------
\* Every step of the debounce is a step of the mailbox or leaves it as it is.
LEMMA MailboxStep == Inv /\ Voices /\ TurnAgrees /\ [Next]_vars => TurnAgrees' /\ [M!Next]_M!vars
<1>. SUFFICES ASSUME Inv, Voices, TurnAgrees, [Next]_vars
              PROVE  TurnAgrees' /\ [M!Next]_M!vars
  OBVIOUS
<1>1. CASE Arrival
  BY <1>1, InboundDuplicateMailbox, InboundAcceptMailbox DEF Arrival, M!Next
<1>2. CASE \E t \in DOMAIN tasks : SleepOn(t) \/ Fire(t) \/ Grant(t)
  BY <1>2, SleepOnMailbox, FireMailbox, GrantMailbox DEF M!Next
<1>3. CASE \E t \in DOMAIN tasks, result \in Results \ {"none"} : FinishTurn(t, result)
  BY <1>3, FinishTurnMailbox DEF M!Next
<1>4. CASE \E r \in Requests : Return(r)
  BY <1>4, ReturnMailbox DEF M!Next
<1>5. CASE Tick \/ UNCHANGED vars
  <2>1. UNCHANGED <<batches, req, holder, tasks>>
    BY <1>5 DEF Tick, vars
  <2>. QED
    BY <2>1, QuietMailbox
<1>6. CASE Restart
  BY <1>6, RestartMailbox DEF M!Next
<1>. QED
  BY <1>1, <1>2, <1>3, <1>4, <1>5, <1>6 DEF Next, LoopStep, Quiet

\* The texts, the turn and the requests agree in every reachable state.
THEOREM TurnAgreement == Spec => []TurnAgrees
<1>1. Init => TurnAgrees
  BY MailboxInit
<1>2. Inv /\ Voices /\ TurnAgrees /\ [Next]_vars => TurnAgrees'
  BY MailboxStep
<1>. QED
  BY <1>1, <1>2, Invariance, VoicesInvariance, PTL DEF Spec

\* Order is kept, nothing is taken twice or left behind, every turn answers its last
\* fragment, and a restart loses exactly the requests that wait: the safety part of
\* MailboxSpec, for agent.py:52-155 and 434-451.
THEOREM ImplementsMailbox == Spec => MailboxSteps
<1>1. Init => M!Init
  BY MailboxInit
<1>2. Inv /\ Voices /\ TurnAgrees /\ [Next]_vars => [M!Next]_M!vars
  BY MailboxStep
<1>. QED
  BY <1>1, <1>2, Invariance, VoicesInvariance, TurnAgreement, PTL DEF Spec, MailboxSteps
===============================================================================
