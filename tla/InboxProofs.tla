------------------------------ MODULE InboxProofs ------------------------------
(***************************************************************************)
(* What the broker's views say while turns go on, for any conversations,   *)
(* limits, faults and crashes, and however often they are asked for.       *)
(***************************************************************************)
EXTENDS Inbox, TurnProofs, WellFoundedInduction

-------------------------------------------------------------------------------
(* The views only read: with them the turns are what they are without.     *)

\* A step with the views is a step of the turns or none.
LEMMA ViewsStep == [INext]_ivars => [Next]_vars
BY DEF INext, Next, ivars, Read

\* The turns with the views are turns of Turn (main.py 181-330 writes nothing).
THEOREM ViewsOnlyRead == ISpec => Init /\ [][Next]_vars
<1>1. IInit => Init
  BY DEF IInit
<1>. QED
  BY <1>1, ViewsStep, PTL DEF ISpec

\* So what holds of the turns holds beside the views.
THEOREM TurnsUnderViews == ISpec => []Inv
<1>1. IInit => Inv
  BY InvInit DEF IInit
<1>2. Inv /\ [INext]_ivars => Inv'
  BY InvStep, ViewsStep
<1>. QED
  BY <1>1, <1>2, PTL DEF ISpec

-------------------------------------------------------------------------------
(* Rows are only appended.                                                 *)

\* A talk goes on from itself.
LEMMA ContinuesItself ==
    ASSUME NEW rows \in Seq(Rows)
    PROVE  Continues(rows, rows)
BY LenProperties DEF Continues

\* Going on is transitive.
LEMMA ContinuesOn ==
    ASSUME NEW s \in Seq(Rows), NEW t \in Seq(Rows), NEW u \in Seq(Rows),
           Continues(s, t), Continues(t, u)
    PROVE  Continues(s, u)
<1>1. /\ Len(s) \in Nat /\ Len(t) \in Nat /\ Len(u) \in Nat
      /\ DOMAIN s = 1 .. Len(s) /\ DOMAIN t = 1 .. Len(t)
  BY LenProperties
<1>2. DOMAIN s \subseteq DOMAIN t
  BY <1>1 DEF Continues
<1>. QED
  BY <1>1, <1>2 DEF Continues

\* Over a step every conversation's talk goes on.
LEMMA TalkGoesOn ==
    ASSUME TypeOK, TypeOK', TalkStep, NEW c \in Convs
    PROVE  Continues(talk[c], talk'[c])
<1>1. talk[c] \in Seq(Rows) /\ talk'[c] \in Seq(Rows)
  BY DEF TypeOK
<1>2. CASE talk'[c] = talk[c]
  BY <1>1, <1>2, ContinuesItself
<1>3. CASE \E row \in Rows : talk'[c] = Append(talk[c], row)
  <2>1. PICK row \in Rows : talk'[c] = Append(talk[c], row)
    BY <1>3
  <2>2. /\ Len(talk'[c]) = Len(talk[c]) + 1 /\ Len(talk[c]) \in Nat
        /\ DOMAIN talk[c] = 1 .. Len(talk[c])
        /\ \A i \in 1 .. Len(talk[c]) : talk'[c][i] = talk[c][i]
    BY <1>1, <2>1, AppendProperties, LenProperties
  <2>. QED
    BY <2>2 DEF Continues
<1>. QED
  BY <1>2, <1>3 DEF TalkStep, TypeOK

\* An answer stays one.
LEMMA StaysAnswered ==
    ASSUME NEW s \in Seq(Rows), NEW t \in Seq(Rows), Continues(s, t), NEW i, Answered(s, i)
    PROVE  Answered(t, i)
<1>1. DOMAIN s \subseteq DOMAIN t
  BY LenProperties DEF Continues
<1>. QED
  BY <1>1 DEF Answered, Continues

-------------------------------------------------------------------------------
(* The newest assistant row.                                               *)

\* A set of indexes has a greatest one.
LEMMA Greatest ==
    ASSUME NEW n \in Nat, NEW T, T \subseteq 1 .. n, T # {}
    PROVE  \E x \in T : \A y \in T : y <= x
<1>. DEFINE R == OpToRel(<, Nat)
            U == {n - x : x \in T}
<1>1. IsWellFoundedOn(R, Nat)
  BY NatLessThanWellFounded
<1>2. ASSUME NEW x \in Nat, NEW y \in Nat, x < y
      PROVE  <<x, y>> \in R
  BY <1>2, Zenon DEF OpToRel
<1>. HIDE DEF R
<1>3. U \subseteq Nat /\ U # {}
  <2>1. \A x \in 1 .. n : n - x \in Nat
    OBVIOUS
  <2>. QED
    BY <2>1
<1>4. PICK u \in U : \A v \in U : ~ (<<v, u>> \in R)
  <2>. HIDE DEF U
  <2>. QED
    BY <1>1, <1>3, WFMin
<1>5. PICK x \in T : u = n - x
  BY <1>4
<1>6. ASSUME NEW y \in T PROVE y <= x
  <2>1. x \in Nat /\ y \in Nat /\ n - y \in U /\ u \in Nat /\ n - y \in Nat
    BY <1>3, <1>5
  <2>2. ~ (n - y < u)
    BY <1>2, <1>4, <2>1
  <2>. QED
    BY <1>5, <2>1, <2>2
<1>. QED
  BY <1>6

\* The newest row of the agent is one, and none is newer.
LEMMA NewestFound ==
    ASSUME NEW rows \in Seq(Rows)
    PROVE  /\ Newest(rows) \in Nat
           /\ Newest(rows) # 0 =>
                 Newest(rows) \in DOMAIN rows /\ rows[Newest(rows)].kind # "buyer"
           /\ \A i \in DOMAIN rows : rows[i].kind # "buyer" => i <= Newest(rows)
<1>. DEFINE spoken == {i \in DOMAIN rows : rows[i].kind # "buyer"}
<1>1. spoken \subseteq 1 .. Len(rows) /\ Len(rows) \in Nat
  BY LenProperties
<1>2. CASE spoken = {}
  BY <1>2 DEF Newest
<1>3. CASE spoken # {}
  <2>1. \E i \in spoken : \A j \in spoken : j <= i
    <3>. HIDE DEF spoken
    <3>. QED
      BY <1>1, <1>3, Greatest
  <2>2. Newest(rows) \in spoken /\ \A j \in spoken : j <= Newest(rows)
    BY <1>3, <2>1 DEF Newest
  <2>. QED
    BY <1>1, <2>2
<1>. QED
  BY <1>2, <1>3

-------------------------------------------------------------------------------
(* The request goes on while the turns do.                                 *)

\* The fields of a request.
LEMMA ReaderFields ==
    ASSUME reader \in Readers
    PROVE  /\ reader.began \in [talk : [Convs -> Seq(Rows)], leads : Seq(LeadRows)]
           /\ reader.began.talk \in [Convs -> Seq(Rows)] /\ reader.began.leads \in Seq(LeadRows)
           /\ reader.todo \in Seq(LeadRows)
           /\ reader.line \in Nat
           /\ reader.inbox \in
                 Seq([conv : Convs, brief : {"empty", "written", "template"}, unread : SUBSET Nat])
           /\ reader.page.rows \in Seq(Rows) /\ reader.page.lead \in SUBSET LeadRows
BY DEF Readers

\* Nothing is known of a broker who looks at nothing.
LEMMA IdleReader == reader = Idle => ReaderInv
<1>. SUFFICES ASSUME reader = Idle PROVE ReaderInv
  OBVIOUS
<1>1. reader \in Readers
  BY EmptySeq DEF Idle, NoBegan, NoPage, Readers
<1>. QED
  BY <1>1 DEF ReaderInv, InboxGoesOn, NoneTwice, PageGoesOn, PageAgrees, Idle

\* An answer to a message is one later, too.
LEMMA WaitingShrinks ==
    ASSUME reader \in Readers, TypeOK, TypeOK', TalkStep, UNCHANGED reader, NEW c \in Convs
    PROVE  Waiting(c)' \subseteq Waiting(c)
<1>1. talk[c] \in Seq(Rows) /\ talk'[c] \in Seq(Rows) /\ Continues(talk[c], talk'[c])
  BY TalkGoesOn DEF TypeOK
<1>2. ASSUME NEW i, Answered(talk[c], i) PROVE Answered(talk'[c], i)
  BY <1>1, <1>2, StaysAnswered
<1>. QED
  BY <1>2 DEF Waiting

\* A line that was found stays where it was while the talk goes on.
LEMMA LineStays ==
    ASSUME NEW s \in Seq(Rows), NEW t \in Seq(Rows), Continues(s, t),
           NEW before, NEW line, LineFound(s, before, line)
    PROVE  LineFound(t, before, line)
<1>1. DOMAIN s \subseteq DOMAIN t
  BY LenProperties DEF Continues
<1>. QED
  BY <1>1 DEF LineFound, Continues

\* The leads of the inbox are leads of conversations.
LEMMA FirstLeads ==
    ASSUME reader \in Readers, NEW n \in DOMAIN reader.began.leads
    PROVE  reader.began.leads[n].conv \in Convs
<1>1. reader.began.leads \in Seq(LeadRows)
  BY ReaderFields
<1>2. reader.began.leads[n] \in LeadRows
  BY <1>1, ElementOfSeq, LenProperties
<1>. QED
  BY <1>2 DEF LeadRows

\* A step of the turns leaves what the inbox has read as true as it was.
LEMMA InboxBesideTurns ==
    ASSUME reader \in Readers, InboxGoesOn, TypeOK, TypeOK', TalkStep, UNCHANGED reader
    PROVE  InboxGoesOn'
<1>. SUFFICES ASSUME reader.pc \in {"line", "unread", "inbox"} PROVE InboxGoesOn'
  BY DEF InboxGoesOn
<1>1. ASSUME NEW c \in Convs
      PROVE  /\ talk[c] \in Seq(Rows) /\ talk'[c] \in Seq(Rows)
             /\ Continues(talk[c], talk'[c])
  BY TalkGoesOn DEF TypeOK
<1>2. ASSUME NEW c \in Convs PROVE Continues(reader.began.talk[c], talk'[c])
  <2>1. reader.began.talk[c] \in Seq(Rows)
    BY ReaderFields
  <2>2. Continues(reader.began.talk[c], talk[c])
    BY DEF InboxGoesOn
  <2>. QED
    BY <1>1, <2>1, <2>2, ContinuesOn
<1>3. ASSUME NEW n \in DOMAIN reader.began.leads, Reported(reader.began.leads[n].conv)
      PROVE  Reported(reader.began.leads[n].conv)'
  <2>1. reader.began.leads[n].conv \in Convs
    BY FirstLeads
  <2>2. Waiting(reader.began.leads[n].conv)' \subseteq Waiting(reader.began.leads[n].conv)
    BY <2>1, WaitingShrinks
  <2>. QED
    BY <1>3, <2>2 DEF Reported
<1>4. ASSUME reader.pc = "unread"
      PROVE  LET c == Head(reader.todo).conv
             IN  LineFound(talk'[c], reader.began.talk[c], reader.line)
  <2>1. Head(reader.todo) \in LeadRows
    BY <1>4, ReaderFields, HeadTailProperties DEF InboxGoesOn
  <2>2. Head(reader.todo).conv \in Convs
    BY <2>1 DEF LeadRows
  <2>3. LineFound(talk[Head(reader.todo).conv], reader.began.talk[Head(reader.todo).conv],
                  reader.line)
    BY <1>4 DEF InboxGoesOn
  <2>. QED
    BY <1>1, <2>2, <2>3, LineStays
<1>. QED
  BY <1>2, <1>3, <1>4 DEF InboxGoesOn

\* A turn of a conversation, or none, beside a request that does not move.
LEMMA ReaderBesideTurns ==
    ASSUME Inv, Inv', ReaderInv, [Next]_vars, UNCHANGED reader
    PROVE  ReaderInv'
<1>1. TypeOK /\ TypeOK' /\ Checked
  BY DEF Inv, Checked
<1>2. TalkStep /\ LeadStep
  BY <1>1, TalkSteps, LeadSteps
<1>3. (reader \in Readers)' /\ NoneTwice' /\ ("misaddressed" \notin Faults => PageAgrees')
  BY DEF ReaderInv, NoneTwice, PageAgrees, Promised
<1>4. InboxGoesOn'
  BY <1>1, <1>2, InboxBesideTurns DEF ReaderInv
<1>5. PageGoesOn'
  BY <1>1, <1>2, LeadsStay DEF ReaderInv, PageGoesOn, Promised
<1>. QED
  BY <1>3, <1>4, <1>5 DEF ReaderInv

-------------------------------------------------------------------------------
(* The SELECTs of the inbox (main.py 257-330).                             *)

\* The entries the request is at.
Entries == [conv : Convs, brief : {"empty", "written", "template"}, unread : SUBSET Nat]

\* Newest first, every lead is still there.
LEMMA ReverseLeads ==
    ASSUME NEW s \in Seq(LeadRows)
    PROVE  /\ Reverse(s) \in Seq(LeadRows)
           /\ \A n \in DOMAIN s : \E k \in DOMAIN Reverse(s) : Reverse(s)[k] = s[n]
<1>1. Len(s) \in Nat /\ DOMAIN s = 1 .. Len(s)
  BY LenProperties
<1>2. \A i \in 1 .. Len(s) : Len(s) + 1 - i \in 1 .. Len(s) /\ Len(s) + 1 - (Len(s) + 1 - i) = i
  BY <1>1
<1>3. \A i \in 1 .. Len(s) : s[i] \in LeadRows
  BY ElementOfSeq
<1>4. Reverse(s) \in [1 .. Len(s) -> LeadRows]
  BY <1>1, <1>2, <1>3 DEF Reverse
<1>5. Reverse(s) \in Seq(LeadRows)
  BY <1>1, <1>4, SeqDef
<1>6. ASSUME NEW n \in DOMAIN s
      PROVE  Len(s) + 1 - n \in DOMAIN Reverse(s) /\ Reverse(s)[Len(s) + 1 - n] = s[n]
  BY <1>1, <1>2 DEF Reverse
<1>. QED
  BY <1>5, <1>6

\* The SELECT of the leads starts an inbox.
LEMMA LeadsAsked ==
    ASSUME Inv, InboxLeads, UNCHANGED vars
    PROVE  ReaderInv'
<1>1. leads \in Seq(LeadRows) /\ talk \in [Convs -> Seq(Rows)]
  BY DEF Inv, TypeOK
<1>2. reader' = [Idle EXCEPT !.pc = "line", !.began = [talk |-> talk, leads |-> leads],
                             !.todo = Reverse(leads)]
  BY DEF InboxLeads
<1>3. /\ reader'.pc = "line" /\ reader'.began = [talk |-> talk, leads |-> leads]
      /\ reader'.todo = Reverse(leads) /\ reader'.inbox = <<>> /\ reader'.page = NoPage
  BY <1>2 DEF Idle
<1>4. reader' \in Readers
  BY <1>1, <1>2, ReverseLeads, EmptySeq DEF Idle, NoPage, Readers
<1>5. InboxGoesOn'
  <2>1. \A c \in Convs : Continues(talk[c], talk'[c])
    BY <1>1, ContinuesItself DEF vars, stored
  <2>. QED
    BY <1>1, <1>3, <2>1, ReverseLeads DEF InboxGoesOn
<1>. QED
  BY <1>3, <1>4, <1>5 DEF ReaderInv, NoneTwice, PageGoesOn, PageAgrees

\* The first lead of those to report.
LEMMA FirstToDo ==
    ASSUME reader \in Readers, reader.todo # <<>>
    PROVE  Head(reader.todo) \in LeadRows /\ Head(reader.todo).conv \in Convs
<1>1. Head(reader.todo) \in LeadRows
  BY ReaderFields, HeadTailProperties
<1>. QED
  BY <1>1 DEF LeadRows

\* The SELECT of the newest line finds the newest line.
LEMMA LineRead ==
    ASSUME Inv, ReaderInv, InboxLine, UNCHANGED vars
    PROVE  ReaderInv'
<1>. DEFINE c == Head(reader.todo).conv
<1>1. /\ reader \in Readers /\ reader.pc = "line" /\ reader.todo # <<>>
      /\ InboxGoesOn /\ NoneTwice
      /\ reader' = [reader EXCEPT !.pc = "unread", !.line = Newest(talk[c])]
  BY DEF ReaderInv, InboxLine
<1>2. c \in Convs
  BY <1>1, FirstToDo
<1>3. talk[c] \in Seq(Rows) /\ talk' = talk
  BY <1>2 DEF Inv, TypeOK, vars, stored
<1>. HIDE DEF c
<1>4. /\ reader'.pc = "unread" /\ reader'.line = Newest(talk[c])
      /\ reader'.began = reader.began /\ reader'.todo = reader.todo
      /\ reader'.inbox = reader.inbox /\ reader'.page = reader.page
  BY <1>1 DEF Readers
<1>5. reader' \in Readers
  BY <1>1, <1>3, NewestFound DEF Readers
<1>6. LineFound(talk[c], reader.began.talk[c], Newest(talk[c]))
  <2>1. Continues(reader.began.talk[c], talk[c])
    BY <1>1, <1>2 DEF InboxGoesOn
  <2>2. reader.began.talk[c] \in Seq(Rows)
    BY <1>1, <1>2, ReaderFields
  <2>3. DOMAIN reader.began.talk[c] \subseteq DOMAIN talk[c]
    BY <1>3, <2>1, <2>2, LenProperties DEF Continues
  <2>. QED
    BY <1>3, <2>1, <2>3, NewestFound DEF LineFound, Continues
<1>7. \A d : Reported(d) => Reported(d)'
  BY <1>3, <1>4 DEF Reported, Waiting
<1>8. InboxGoesOn'
  <2>1. \A d \in Convs : Continues(reader'.began.talk[d], talk'[d])
    BY <1>1, <1>3, <1>4 DEF InboxGoesOn
  <2>2. ASSUME NEW n \in DOMAIN reader'.began.leads,
               NEW d, d = reader'.began.leads[n].conv
        PROVE  \/ Reported(d)'
               \/ \E k \in DOMAIN reader'.todo : reader'.todo[k].conv = d
    BY <1>1, <1>4, <1>7, <2>2 DEF InboxGoesOn
  <2>3. LineFound(talk'[Head(reader'.todo).conv],
                  reader'.began.talk[Head(reader'.todo).conv], reader'.line)
    BY <1>3, <1>4, <1>6 DEF c
  <2>. QED
    BY <1>1, <1>4, <2>1, <2>2, <2>3 DEF InboxGoesOn
<1>. QED
  BY <1>1, <1>4, <1>5, <1>8 DEF ReaderInv, NoneTwice, PageGoesOn, PageAgrees

\* What is behind the line: all that waits, and nothing that was answered.
LEMMA BehindTheLine ==
    ASSUME NEW s \in Seq(Rows), NEW before \in Seq(Rows), NEW line \in Nat,
           Continues(before, s), LineFound(s, before, line)
    PROVE  /\ Unread(s, line) \subseteq Nat
           /\ \A i \in DOMAIN before :
                 before[i].kind = "buyer" /\ ~Answered(s, i) => i \in Unread(s, line)
           /\ \A i \in Unread(s, line) : ~Answered(before, i)
<1>1. /\ Len(s) \in Nat /\ Len(before) \in Nat
      /\ DOMAIN s = 1 .. Len(s) /\ DOMAIN before = 1 .. Len(before)
      /\ \A i \in DOMAIN before : i \in DOMAIN s /\ s[i] = before[i]
  BY LenProperties DEF Continues
<1>2. ASSUME NEW i \in DOMAIN before, before[i].kind = "buyer", ~Answered(s, i)
      PROVE  i \in Unread(s, line)
  <2>1. i \in DOMAIN s /\ s[i].kind = "buyer" /\ i \in Nat /\ i > 0
    BY <1>1, <1>2
  <2>2. line # 0 => line \in DOMAIN s /\ s[line].kind # "buyer"
    BY DEF LineFound
  <2>3. line # 0 => ~ (line > i) /\ line # i
    BY <1>2, <2>1, <2>2 DEF Answered
  <2>. QED
    BY <2>1, <2>3 DEF Unread
<1>3. ASSUME NEW i \in Unread(s, line), NEW j \in DOMAIN before, j > i
      PROVE  before[j].kind = "buyer"
  BY <1>1, <1>3 DEF Unread, LineFound
<1>. QED
  BY <1>1, <1>2, <1>3 DEF Unread, Answered

\* The SELECT of the messages behind it finds every message that waits.
LEMMA UnreadRead ==
    ASSUME Inv, ReaderInv, InboxUnread, UNCHANGED vars
    PROVE  ReaderInv'
<1>. SUFFICES ASSUME NEW c, c = Head(reader.todo).conv PROVE ReaderInv'
  OBVIOUS
<1>. DEFINE entry == [conv |-> c, brief |-> Head(reader.todo).brief,
                      unread |-> Unread(talk[c], reader.line)]
<1>1. /\ reader \in Readers /\ reader.pc = "unread" /\ reader.todo # <<>>
      /\ InboxGoesOn /\ NoneTwice /\ LineFound(talk[c], reader.began.talk[c], reader.line)
      /\ reader' = [reader EXCEPT !.pc = "line", !.todo = Tail(@), !.inbox = Append(@, entry)]
  BY DEF ReaderInv, InboxUnread, InboxGoesOn
<1>2. c \in Convs /\ Head(reader.todo).brief \in {"empty", "written", "template"}
  BY <1>1, FirstToDo DEF LeadRows
<1>3. talk[c] \in Seq(Rows) /\ talk' = talk
  BY <1>2 DEF Inv, TypeOK, vars, stored
<1>4. reader.began.talk[c] \in Seq(Rows) /\ reader.line \in Nat
      /\ Continues(reader.began.talk[c], talk[c])
  BY <1>1, <1>2, ReaderFields DEF InboxGoesOn
<1>5. /\ Unread(talk[c], reader.line) \subseteq Nat
      /\ Waiting(c) \subseteq Unread(talk[c], reader.line)
      /\ \A i \in Unread(talk[c], reader.line) : ~Answered(reader.began.talk[c], i)
  BY <1>1, <1>3, <1>4, BehindTheLine DEF Waiting
<1>6. entry \in Entries /\ entry.conv = c /\ entry.unread = Unread(talk[c], reader.line)
  BY <1>2, <1>5 DEF Entries
<1>. HIDE DEF entry
<1>7. /\ reader'.pc = "line" /\ reader'.todo = Tail(reader.todo)
      /\ reader'.began = reader.began /\ reader'.inbox = Append(reader.inbox, entry)
      /\ reader'.page = reader.page
  BY <1>1 DEF Readers
<1>8. /\ reader.inbox \in Seq(Entries) /\ reader.todo \in Seq(LeadRows)
      /\ Tail(reader.todo) \in Seq(LeadRows)
  BY <1>1, ReaderFields, HeadTailProperties DEF Entries
<1>9. reader'.inbox \in Seq(Entries)
  BY <1>6, <1>7, <1>8, AppendProperties
<1>10. reader' \in Readers
  BY <1>1, <1>7, <1>8, <1>9 DEF Readers, Entries
<1>11. /\ DOMAIN reader'.inbox = DOMAIN reader.inbox \cup {Len(reader.inbox) + 1}
       /\ \A k \in DOMAIN reader.inbox : reader'.inbox[k] = reader.inbox[k]
       /\ reader'.inbox[Len(reader.inbox) + 1] = entry
  BY <1>6, <1>7, <1>8, AppendProperties, LenProperties
<1>12. NoneTwice'
  BY <1>1, <1>5, <1>6, <1>7, <1>11 DEF NoneTwice
<1>13. \A d : Waiting(d)' = Waiting(d)
  BY <1>3, <1>7 DEF Waiting
<1>14. \A d : Reported(d) => Reported(d)'
  BY <1>11, <1>13 DEF Reported
<1>15. Reported(c)'
  BY <1>5, <1>6, <1>11, <1>13 DEF Reported
<1>16. ASSUME NEW k \in DOMAIN reader.todo, reader.todo[k].conv # c
       PROVE  \E l \in DOMAIN Tail(reader.todo) : Tail(reader.todo)[l] = reader.todo[k]
  <2>1. /\ Len(reader.todo) \in Nat /\ DOMAIN reader.todo = 1 .. Len(reader.todo)
        /\ Head(reader.todo) = reader.todo[1]
        /\ Len(Tail(reader.todo)) = Len(reader.todo) - 1
        /\ DOMAIN Tail(reader.todo) = 1 .. Len(reader.todo) - 1
        /\ \A l \in 1 .. Len(Tail(reader.todo)) : Tail(reader.todo)[l] = reader.todo[l + 1]
    BY <1>1, <1>8, HeadTailProperties, LenProperties
  <2>2. k # 1
    BY <1>16, <2>1
  <2>3. k - 1 \in 1 .. Len(reader.todo) - 1 /\ (k - 1) + 1 = k
    BY <2>1, <2>2
  <2>. QED
    BY <2>1, <2>3
<1>17. InboxGoesOn'
  <2>1. \A d \in Convs : Continues(reader'.began.talk[d], talk'[d])
    BY <1>1, <1>3, <1>7 DEF InboxGoesOn
  <2>2. ASSUME NEW n \in DOMAIN reader'.began.leads,
               NEW d, d = reader'.began.leads[n].conv
        PROVE  \/ Reported(d)'
               \/ \E k \in DOMAIN reader'.todo : reader'.todo[k].conv = d
    <3>1. Reported(d) \/ \E k \in DOMAIN reader.todo : reader.todo[k].conv = d
      BY <1>1, <1>7, <2>2 DEF InboxGoesOn
    <3>2. CASE d = c
      BY <1>15, <3>2
    <3>3. CASE d # c
      BY <1>7, <1>14, <1>16, <3>1, <3>3
    <3>. QED
      BY <3>2, <3>3
  <2>. QED
    BY <1>7, <2>1, <2>2 DEF InboxGoesOn
<1>. QED
  BY <1>7, <1>10, <1>12, <1>17 DEF ReaderInv, PageGoesOn, PageAgrees

\* The answer of the inbox is put together from what was read.
LEMMA AnswerRead ==
    ASSUME Inv, ReaderInv, InboxAnswered, UNCHANGED vars
    PROVE  ReaderInv'
<1>1. /\ reader \in Readers /\ InboxGoesOn /\ NoneTwice
      /\ reader.pc = "line" /\ reader.todo = <<>> /\ DOMAIN reader.todo = {}
      /\ reader' = [reader EXCEPT !.pc = "inbox"]
  BY DEF ReaderInv, InboxAnswered
<1>2. /\ reader'.pc = "inbox" /\ reader'.began = reader.began /\ reader'.todo = reader.todo
      /\ reader'.inbox = reader.inbox /\ talk' = talk
  BY <1>1 DEF Readers, vars, stored
<1>3. reader' \in Readers
  BY <1>1 DEF Readers
<1>4. \A d : Reported(d) => Reported(d)'
  BY <1>2 DEF Reported, Waiting
<1>5. InboxGoesOn'
  <2>1. \A d \in Convs : Continues(reader'.began.talk[d], talk'[d])
    BY <1>1, <1>2 DEF InboxGoesOn
  <2>2. ASSUME NEW n \in DOMAIN reader'.began.leads,
               NEW d, d = reader'.began.leads[n].conv
        PROVE  Reported(d)'
    BY <1>1, <1>2, <1>4, <2>2 DEF InboxGoesOn
  <2>. QED
    BY <1>1, <1>2, <2>1, <2>2 DEF InboxGoesOn
<1>. QED
  BY <1>1, <1>2, <1>3, <1>5 DEF ReaderInv, NoneTwice, PageGoesOn, PageAgrees

-------------------------------------------------------------------------------
(* The SELECTs of a conversation's page (main.py 181-213).                 *)

\* The SELECT of the conversation starts a page.
LEMMA StatusRead ==
    ASSUME Inv, NEW c \in Convs, PageStatus(c), UNCHANGED vars
    PROVE  ReaderInv'
<1>1. leads \in Seq(LeadRows) /\ status[c] \in {"active", "escalated"}
  BY DEF Inv, TypeOK
<1>2. reader' = [Idle EXCEPT !.pc = "rows", !.began.leads = leads,
                             !.page = [NoPage EXCEPT !.conv = c, !.status = status[c]]]
  BY DEF PageStatus
<1>3. /\ reader'.pc = "rows" /\ reader'.inbox = <<>> /\ reader'.page.conv = c
      /\ reader'.page.status = status[c]
  BY <1>2 DEF Idle, NoPage
<1>4. reader' \in Readers
  BY <1>1, <1>2, EmptySeq DEF Idle, NoBegan, NoPage, Readers
<1>5. status[c] = "escalated" => HasLead(c)'
  BY DEF Inv, OneLead, HasLead, vars, stored
<1>. QED
  BY <1>3, <1>4, <1>5 DEF ReaderInv, InboxGoesOn, NoneTwice, PageGoesOn, PageAgrees

\* The SELECT of the rows of a page reads what had been said.
LEMMA RowsRead ==
    ASSUME Inv, ReaderInv, PageRows, UNCHANGED vars
    PROVE  ReaderInv'
<1>. SUFFICES ASSUME NEW c, c = reader.page.conv PROVE ReaderInv'
  OBVIOUS
<1>1. /\ reader \in Readers /\ NoneTwice /\ reader.pc = "rows" /\ c \in Convs
      /\ reader.page.status = "escalated" => HasLead(c)
      /\ reader' = [reader EXCEPT !.pc = "lead", !.page.rows = talk[c]]
  BY DEF ReaderInv, PageGoesOn, PageRows
<1>2. talk[c] \in Seq(Rows) /\ talk' = talk /\ leads' = leads
  BY <1>1 DEF Inv, TypeOK, vars, stored
<1>3. /\ reader'.pc = "lead" /\ reader'.began = reader.began /\ reader'.inbox = reader.inbox
      /\ reader'.page.conv = c /\ reader'.page.status = reader.page.status
      /\ reader'.page.rows = talk[c]
  BY <1>1 DEF Readers
<1>4. reader' \in Readers
  BY <1>1, <1>2 DEF Readers
<1>5. "misaddressed" \notin Faults /\ HandedOff(c) => Briefed(c)
  BY <1>1 DEF Inv, Addressed
<1>6. Promised' <=> HandedOff(c)
  BY <1>3 DEF Promised, HandedOff
<1>7. PageGoesOn'
  <2>1. (HasLead(c) => HasLead(c)') /\ (Briefed(c) => Briefed(c)')
    BY <1>2 DEF HasLead, Briefed
  <2>2. reader'.page.conv \in Convs
    BY <1>1, <1>3
  <2>3. /\ reader'.page.status = "escalated" => HasLead(c)'
        /\ "misaddressed" \notin Faults /\ reader'.pc # "rows" /\ Promised' => Briefed(c)'
    BY <1>1, <1>3, <1>5, <1>6, <2>1
  <2>. QED
    BY <1>3, <2>2, <2>3 DEF PageGoesOn, HasLead, Briefed
<1>. QED
  BY <1>1, <1>3, <1>4, <1>7 DEF ReaderInv, InboxGoesOn, NoneTwice, PageAgrees

\* The SELECT of the lead of a page completes it.
LEMMA LeadRead ==
    ASSUME Inv, ReaderInv, PageLead, UNCHANGED vars
    PROVE  ReaderInv'
<1>. SUFFICES ASSUME NEW c, c = reader.page.conv PROVE ReaderInv'
  OBVIOUS
<1>1. /\ reader \in Readers /\ NoneTwice /\ reader.pc = "lead" /\ c \in Convs
      /\ reader.page.status = "escalated" => HasLead(c)
      /\ "misaddressed" \notin Faults /\ Promised => Briefed(c)
      /\ reader' = [reader EXCEPT !.pc = "page", !.page.lead = LeadsOf(c, leads)]
  BY DEF ReaderInv, PageGoesOn, PageLead
<1>2. leads \in Seq(LeadRows) /\ leads' = leads
  BY DEF Inv, TypeOK, vars, stored
<1>3. /\ reader'.pc = "page" /\ reader'.began = reader.began /\ reader'.inbox = reader.inbox
      /\ reader'.page.conv = c /\ reader'.page.status = reader.page.status
      /\ reader'.page.rows = reader.page.rows /\ reader'.page.lead = LeadsOf(c, leads)
  BY <1>1 DEF Readers
<1>4. LeadsOf(c, leads) \subseteq LeadRows
  BY <1>2, ElementOfSeq, LenProperties DEF LeadsOf
<1>5. reader' \in Readers
  BY <1>1, <1>4 DEF Readers
<1>6. /\ HasLead(c) => LeadsOf(c, leads) # {}
      /\ Briefed(c) => \E lead \in LeadsOf(c, leads) : lead.brief # "empty"
  BY DEF HasLead, Briefed, LeadsOf
<1>7. Promised' <=> Promised
  BY <1>3 DEF Promised
<1>8. "misaddressed" \notin Faults => PageAgrees'
  BY <1>1, <1>3, <1>6, <1>7 DEF PageAgrees
<1>9. PageGoesOn'
  <2>1. (HasLead(c) => HasLead(c)') /\ (Briefed(c) => Briefed(c)')
    BY <1>2 DEF HasLead, Briefed
  <2>2. reader'.page.conv \in Convs
    BY <1>1, <1>3
  <2>3. /\ reader'.page.status = "escalated" => HasLead(c)'
        /\ "misaddressed" \notin Faults /\ Promised' => Briefed(c)'
    BY <1>1, <1>3, <1>7, <2>1
  <2>. QED
    BY <1>3, <2>2, <2>3 DEF PageGoesOn, HasLead, Briefed
<1>. QED
  BY <1>1, <1>3, <1>5, <1>8, <1>9 DEF ReaderInv, InboxGoesOn, NoneTwice

-------------------------------------------------------------------------------
(* What the broker is told.                                                *)

\* What is known of the broker's reading outlasts every step.
LEMMA ReaderStep ==
    ASSUME Inv, Inv', ReaderInv, [INext]_ivars
    PROVE  ReaderInv'
<1>1. CASE [Next]_vars /\ UNCHANGED reader
  BY <1>1, ReaderBesideTurns
<1>2. CASE reader' = Idle
  <2>1. (reader = Idle)'
    BY <1>2 DEF Idle, NoBegan, NoPage
  <2>. QED
    BY <2>1, IdleReader, PTL
<1>3. CASE Read /\ UNCHANGED vars
  BY <1>2, <1>3, LeadsAsked, LineRead, UnreadRead, AnswerRead, StatusRead, RowsRead, LeadRead
     DEF Read, Responded
<1>. QED
  BY <1>1, <1>2, <1>3, ViewsStep DEF INext, ivars, views

\* What is known of the broker's reading holds of every behaviour.
LEMMA ReaderInvariance == ISpec => [](Inv /\ ReaderInv)
<1>1. IInit => Inv /\ ReaderInv
  BY InvInit, IdleReader DEF IInit
<1>2. Inv /\ ReaderInv /\ [INext]_ivars => (Inv /\ ReaderInv)'
  BY InvStep, ViewsStep, ReaderStep
<1>. QED
  BY <1>1, <1>2, PTL DEF ISpec

\* The broker is told of every lead there was when the inbox was asked for, and of
\* every message of its buyer that waits, however many turns commit between the
\* SELECTs (main.py 257-281, 285-330).
THEOREM EveryLeadReported == ISpec => []NobodyForgotten
<1>1. ReaderInv => NobodyForgotten
  <2>. SUFFICES ASSUME ReaderInv, reader.pc = "inbox"
                PROVE  \A n \in DOMAIN reader.began.leads : Reported(reader.began.leads[n].conv)
    BY DEF NobodyForgotten
  <2>. QED
    BY DEF ReaderInv, InboxGoesOn
<1>. QED
  BY <1>1, ReaderInvariance, PTL

\* No message is shown as unanswered that had its answer when the inbox was asked
\* for (main.py 261-275).
THEOREM NothingReportedTwice == ISpec => []NoneTwice
<1>1. ReaderInv => NoneTwice
  BY DEF ReaderInv
<1>. QED
  BY <1>1, ReaderInvariance, PTL

\* An escalated conversation is shown with its lead, and a handoff line with the
\* brief, although the page is put together from three SELECTs, as long as the
\* model escalates no other conversation than its own (main.py 181-213, agent.py
\* 326-331).
THEOREM PagesAgree ==
    ASSUME "misaddressed" \notin Faults
    PROVE  ISpec => []PageAgrees
<1>1. ReaderInv => PageAgrees
  BY DEF ReaderInv
<1>. QED
  BY <1>1, ReaderInvariance, PTL
===============================================================================
