--------------------------------- MODULE Inbox ---------------------------------
(***************************************************************************)
(* The two views of main.py, GET /broker/inbox and GET /conversations/{id}, *)
(* read while turns go on.  They are plain functions, so the server runs   *)
(* them in threads beside the loop, and every SELECT of theirs sees what   *)
(* is committed by then: one action per SELECT whose moment matters.       *)
(***************************************************************************)
EXTENDS Turn

CONSTANT MaxReads    \* bound: how many requests the broker's page makes

ASSUME ReadsAssumption == MaxReads \in Nat

VARIABLES
    reader,    \* the request under way
    reads      \* how many were made

views == <<reader, reads>>
ivars == <<vars, views>>

\* The view of one conversation.
NoPage == [conv |-> "none", status |-> "none", rows |-> <<>>, lead |-> {}]

\* The request: where it is; talk and leads as they were when it began; the leads it
\* still has to report; the newest assistant row of the first of them, 0 for none;
\* and what it will answer.
NoBegan == [talk |-> [c \in Convs |-> <<>>], leads |-> <<>>]
Idle == [pc |-> "idle", began |-> NoBegan, todo |-> <<>>, line |-> 0,
         inbox |-> <<>>, page |-> NoPage]

IInit == Init /\ reader = Idle /\ reads = 0

Requested ==
    /\ reader.pc = "idle"
    /\ reads < MaxReads
    /\ reads' = reads + 1

Reverse(s) == [i \in DOMAIN s |-> s[Len(s) + 1 - i]]

\* SELECT escalations, newest first; the briefs come with them.
InboxLeads ==
    /\ Requested
    /\ reader' = [Idle EXCEPT !.pc = "line", !.began = [talk |-> talk, leads |-> leads],
                              !.todo = Reverse(leads)]

\* Mutant: the newest row, whoever wrote it.
Newest_AnyRole(rows) == Len(rows)

\* The newest assistant row.
Newest(rows) ==
    LET spoken == {i \in DOMAIN rows : rows[i].kind # "buyer"}
    IN  IF spoken = {} THEN 0 ELSE CHOOSE i \in spoken : \A j \in spoken : j <= i

InboxLine ==
    /\ reader.pc = "line" /\ reader.todo # <<>>
    /\ reader' = [reader EXCEPT !.pc = "unread",
                                !.line = Newest(talk[Head(reader.todo).conv])]
    /\ UNCHANGED reads

\* Mutant: every buyer message of the conversation.
Unread_All(rows, line) == {i \in DOMAIN rows : rows[i].kind = "buyer"}

Unread(rows, line) == {i \in DOMAIN rows : rows[i].kind = "buyer" /\ i > line}

\* Mutant: a lead whose buyer is not waiting is left out.
InboxUnread_Skips ==
    LET lead == Head(reader.todo)
        unread == Unread(talk[lead.conv], reader.line)
    IN  /\ reader.pc = "unread"
        /\ reader' = [reader EXCEPT
              !.pc = "line",
              !.todo = Tail(@),
              !.inbox = IF unread = {} THEN @
                        ELSE Append(@, [conv |-> lead.conv, brief |-> lead.brief, unread |-> unread])]
        /\ UNCHANGED reads

\* The user rows behind it; one lead is done.
InboxUnread ==
    LET lead == Head(reader.todo)
    IN  /\ reader.pc = "unread"
        /\ reader' = [reader EXCEPT
              !.pc = "line",
              !.todo = Tail(@),
              !.inbox = Append(@, [conv |-> lead.conv, brief |-> lead.brief,
                                   unread |-> Unread(talk[lead.conv], reader.line)])]
        /\ UNCHANGED reads

InboxAnswered ==
    /\ reader.pc = "line" /\ reader.todo = <<>>
    /\ reader' = [reader EXCEPT !.pc = "inbox"]
    /\ UNCHANGED reads

\* get_conversation: the conversation's row.
PageStatus(c) ==
    /\ Requested
    /\ reader' = [Idle EXCEPT !.pc = "rows", !.began.leads = leads,
                              !.page = [NoPage EXCEPT !.conv = c, !.status = status[c]]]

\* Its messages.
PageRows ==
    /\ reader.pc = "rows"
    /\ reader' = [reader EXCEPT !.pc = "lead", !.page.rows = talk[reader.page.conv]]
    /\ UNCHANGED reads

LeadsOf(c, rows) == {rows[i] : i \in {n \in DOMAIN rows : rows[n].conv = c}}

\* Mutant: the lead comes with the conversation's row.
PageLead_WithTheRow ==
    /\ reader.pc = "lead"
    /\ reader' = [reader EXCEPT !.pc = "page",
                                !.page.lead = LeadsOf(reader.page.conv, reader.began.leads)]
    /\ UNCHANGED reads

\* Its lead, if any.
PageLead ==
    /\ reader.pc = "lead"
    /\ reader' = [reader EXCEPT !.pc = "page", !.page.lead = LeadsOf(reader.page.conv, leads)]
    /\ UNCHANGED reads

Responded ==
    /\ reader.pc \in {"inbox", "page"}
    /\ reader' = Idle
    /\ UNCHANGED reads

Read ==
    \/ InboxLeads \/ InboxLine \/ InboxUnread \/ InboxAnswered
    \/ (\E c \in Convs : PageStatus(c)) \/ PageRows \/ PageLead
    \/ Responded

INext ==
    \/ (\E c \in Convs : Start(c) \/ Step(c)) /\ UNCHANGED views
    \/ Crash /\ reader' = Idle /\ UNCHANGED reads
    \/ Read /\ UNCHANGED vars
    \/ Done /\ reader = Idle /\ UNCHANGED views

ISpec == IInit /\ [][INext]_ivars /\ Fairness

-------------------------------------------------------------------------------
(* Properties.                                                             *)

Answered(rows, i) == \E j \in DOMAIN rows : j > i /\ rows[j].kind # "buyer"

\* The messages of c's buyer that were there when the page was asked for and have no
\* answer now.
Waiting(c) ==
    {i \in DOMAIN reader.began.talk[c] :
        reader.began.talk[c][i].kind = "buyer" /\ ~Answered(talk[c], i)}

\* The answer has c, with all of them.
Reported(c) ==
    \E k \in DOMAIN reader.inbox :
        reader.inbox[k].conv = c /\ Waiting(c) \subseteq reader.inbox[k].unread

\* However the turns move between the SELECTs, the broker is told of every lead
\* there was when the page was asked for, and of every message of its buyer that
\* was stored by then and has no answer now (main.py 257-281, 285-330).
NobodyForgotten ==
    reader.pc = "inbox" =>
        \A n \in DOMAIN reader.began.leads : Reported(reader.began.leads[n].conv)

\* No message is called unanswered that had its answer when the page was asked for.
NoneTwice ==
    \A k \in DOMAIN reader.inbox : \A i \in reader.inbox[k].unread :
        ~Answered(reader.began.talk[reader.inbox[k].conv], i)

\* The page has a handoff line.
Promised == \E i \in DOMAIN reader.page.rows : reader.page.rows[i].kind = "handoff"

\* The page of a conversation never shows an escalated one without its lead, nor a
\* handoff line without the brief: what is committed first is read last
\* (main.py 181-213, agent.py 326-331).
PageAgrees ==
    reader.pc = "page" =>
        /\ reader.page.status = "escalated" => reader.page.lead # {}
        /\ Promised => \E lead \in reader.page.lead : lead.brief # "empty"

\* What _post_escalation_messages says of its result: buyer messages that arrived
\* after the handoff line (main.py 258).
AfterTheLine ==
    \A k \in DOMAIN reader.inbox : \A i \in reader.inbox[k].unread :
        \E j \in 1 .. i - 1 : talk[reader.inbox[k].conv][j].kind = "handoff"

-------------------------------------------------------------------------------
(* The inductive invariant behind them (InboxProofs), beside that of Turn. *)

\* A request keeps its shape.
Readers ==
    [pc : {"idle", "line", "unread", "inbox", "rows", "lead", "page"},
     began : [talk : [Convs -> Seq(Rows)], leads : Seq(LeadRows)],
     todo : Seq(LeadRows), line : Nat,
     inbox : Seq([conv : Convs, brief : {"empty", "written", "template"}, unread : SUBSET Nat]),
     page : [conv : Convs \cup {"none"}, status : {"none", "active", "escalated"},
             rows : Seq(Rows), lead : SUBSET LeadRows]]

\* Rows are only appended, and stay as they are.
Continues(old, new) == Len(old) <= Len(new) /\ \A i \in DOMAIN old : new[i] = old[i]

\* line is an assistant row, and none that was there at the beginning is behind it.
LineFound(rows, before, line) ==
    /\ line # 0 => line \in DOMAIN rows /\ rows[line].kind # "buyer"
    /\ \A i \in DOMAIN before : before[i].kind # "buyer" => i <= line

\* A lead is reported or still to be reported.
InboxGoesOn ==
    reader.pc \in {"line", "unread", "inbox"} =>
        /\ \A c \in Convs : Continues(reader.began.talk[c], talk[c])
        /\ \A n \in DOMAIN reader.began.leads :
              \/ Reported(reader.began.leads[n].conv)
              \/ \E k \in DOMAIN reader.todo : reader.todo[k].conv = reader.began.leads[n].conv
        /\ reader.pc = "inbox" => reader.todo = <<>>
        /\ reader.pc = "unread" =>
              /\ reader.todo # <<>>
              /\ LET c == Head(reader.todo).conv
                 IN  LineFound(talk[c], reader.began.talk[c], reader.line)

\* What the page has said of the conversation so far is still so.
PageGoesOn ==
    reader.pc \in {"rows", "lead", "page"} =>
        LET c == reader.page.conv
        IN  /\ c \in Convs
            /\ reader.page.status = "escalated" => HasLead(c)
            /\ "misaddressed" \notin Faults /\ reader.pc # "rows" /\ Promised => Briefed(c)

ReaderInv ==
    /\ reader \in Readers
    /\ InboxGoesOn /\ NoneTwice
    /\ PageGoesOn
    /\ "misaddressed" \notin Faults => PageAgrees
===============================================================================
