-------------------------------- MODULE Mailbox --------------------------------
(***************************************************************************)
(* What the debounce of app/agent.py promises, without clocks, timers,     *)
(* tasks or a lock: fragments are collected in arrival order, one turn at  *)
(* a time takes everything collected so far, and when the turn is over its *)
(* last fragment is owed the reply and the others are told they were       *)
(* coalesced.  Only a restart loses anybody.                               *)
(***************************************************************************)
EXTENDS Sequences, Naturals

CONSTANT Requests

VARIABLES
    inbox,   \* the fragments no turn has taken yet, in arrival order
    turn,    \* the fragments the running turn took, <<>> when none runs
    phase    \* what each request has come to

vars == <<inbox, turn, phase>>

Phases == {"idle", "pending", "owed", "silent", "answered", "coalesced", "duplicate", "lost"}

Members(s) == {s[i] : i \in DOMAIN s}

Init ==
    /\ inbox = <<>>
    /\ turn = <<>>
    /\ phase = [r \in Requests |-> "idle"]

Refuse(r) ==
    /\ phase[r] = "idle"
    /\ phase' = [phase EXCEPT ![r] = "duplicate"]
    /\ UNCHANGED <<inbox, turn>>

Accept(r) ==
    /\ phase[r] = "idle"
    /\ phase' = [phase EXCEPT ![r] = "pending"]
    /\ inbox' = Append(inbox, r)
    /\ UNCHANGED turn

Begin ==
    /\ turn = <<>> /\ inbox # <<>>
    /\ turn' = inbox
    /\ inbox' = <<>>
    /\ UNCHANGED phase

End ==
    /\ turn # <<>>
    /\ turn' = <<>>
    /\ phase' = [r \in Requests |->
                   IF r \notin Members(turn) THEN phase[r]
                   ELSE IF r = turn[Len(turn)] THEN "owed" ELSE "silent"]
    /\ UNCHANGED inbox

Return(r) ==
    /\ \/ phase[r] = "owed"   /\ phase' = [phase EXCEPT ![r] = "answered"]
       \/ phase[r] = "silent" /\ phase' = [phase EXCEPT ![r] = "coalesced"]
    /\ UNCHANGED <<inbox, turn>>

Restart ==
    /\ inbox' = <<>>
    /\ turn' = <<>>
    /\ phase' = [r \in Requests |->
                   IF phase[r] \in {"pending", "owed", "silent"} THEN "lost" ELSE phase[r]]

Next ==
    \/ \E r \in Requests : Refuse(r) \/ Accept(r) \/ Return(r)
    \/ Begin
    \/ End
    \/ Restart

Fairness == WF_vars(Begin) /\ WF_vars(End) /\ \A r \in Requests : WF_vars(Return(r))

Spec == Init /\ [][Next]_vars /\ Fairness
===============================================================================
