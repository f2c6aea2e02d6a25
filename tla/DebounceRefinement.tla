-------------------------- MODULE DebounceRefinement --------------------------
(***************************************************************************)
(* The mapping under which the debounce of app/agent.py implements         *)
(* Mailbox, and the invariant the implementation rests on beside Inv and   *)
(* Voices.                                                                 *)
(***************************************************************************)
EXTENDS Debounce

\* What the turn that runs took from the buffer.
Taken == IF holder = 0 THEN <<>> ELSE batches[tasks[holder].drained].texts

PhaseOf(r) ==
    CASE req[r].pc = "idle" -> "idle"
      [] req[r].pc = "lost" -> "lost"
      [] req[r].pc = "waiting" /\ batches[req[r].batch].result = "none" -> "pending"
      [] req[r].pc = "waiting" /\ batches[req[r].batch].result # "none" ->
             IF StatusFor(r) = "coalesced" THEN "silent" ELSE "owed"
      [] req[r].pc = "returned" ->
             IF req[r].status \in {"coalesced", "duplicate"} THEN req[r].status ELSE "answered"

M == INSTANCE Mailbox WITH
        inbox <- current.texts,
        turn  <- Taken,
        phase <- [r \in Requests |-> PhaseOf(r)]

\* The debounce, its timers and its lock implement the mailbox: order is kept,
\* nothing is taken twice or left behind, every turn answers its last fragment,
\* a restart loses exactly the requests that wait; and a turn begins whenever
\* something was collected and none runs, it ends, and everybody is told.
MailboxSpec == M!Spec

\* The same without the fairness: what a single step of the debounce may do.
MailboxSteps == M!Init /\ [][M!Next]_M!vars

\* Everybody whose text is in batch b is still waiting on it.
WaitedOn(b) ==
    \A i \in DOMAIN batches[b].texts : req[batches[b].texts[i]].pc = "waiting"

\* A text waits, or waited, on the batch it is in; while the batch is the buffer or
\* a turn's, nobody in it was answered or lost; and a turn has texts.
TurnAgrees ==
    /\ \A b \in DOMAIN batches : \A i \in DOMAIN batches[b].texts :
          req[batches[b].texts[i]].batch = b
    /\ WaitedOn(cur)
    /\ holder # 0 => Taken # <<>> /\ WaitedOn(tasks[holder].drained)
===============================================================================
