---------------------------- MODULE RecordsProofs -----------------------------
(***************************************************************************)
(* The profile and the site visits, for any buyers, properties, keys,      *)
(* amounts and any booking window.                                         *)
(***************************************************************************)
EXTENDS Records, SequenceTheorems, TLAPS

\* An accepted update leaves a row with its two budgets in order.
LEMMA UpdatedRow ==
    ASSUME NEW row \in Profiles, NEW u \in Updates, ~Invalid(u), ~Inverted(row, u)
    PROVE  /\ Updated(row, u) \in Profiles
           /\ LET new == Updated(row, u)
              IN  /\ new.min # 0 /\ new.max # 0 => new.min <= new.max
                  /\ row.min # 0 => new.min # 0
                  /\ row.max # 0 => new.max # 0
                  /\ row.others \subseteq new.others
<1>1. Merged(row.min, u.min) \in Nat /\ Merged(row.max, u.max) \in Nat
  BY AmountsAssumption DEF Merged, Profiles, Updates, Absent
<1>2. row.others \cup u.others \in SUBSET OtherFields
  BY DEF Profiles, Updates
<1>3. (row.min # 0 => Merged(row.min, u.min) # 0) /\ (row.max # 0 => Merged(row.max, u.max) # 0)
  BY DEF Merged, Invalid
<1>4. Updated(row, u) = [min |-> Merged(row.min, u.min), max |-> Merged(row.max, u.max),
                         others |-> row.others \cup u.others]
  BY DEF Updated
<1>5. LET min == Merged(row.min, u.min)
          max == Merged(row.max, u.max)
      IN  min # 0 /\ max # 0 => min <= max
  BY <1>1 DEF Inverted
<1>. QED
  BY <1>1, <1>2, <1>3, <1>4, <1>5 DEF Profiles

\* A booking with rows behind it is a row of site_visits.
LEMMA BookableIsVisit ==
    ASSUME NEW call \in BookingCalls, Bookable(call)
    PROVE  call \in Visits
BY DEF BookingCalls, Visits, Bookable

\* What Append does to the rows.
LEMMA Appended ==
    ASSUME NEW S, NEW s \in Seq(S), NEW e \in S
    PROVE  /\ Append(s, e) \in Seq(S)
           /\ DOMAIN s = 1 .. Len(s) /\ Len(s) \in Nat
           /\ DOMAIN Append(s, e) = 1 .. Len(s) + 1
           /\ Append(s, e)[Len(s) + 1] = e
           /\ \A j \in DOMAIN s : Append(s, e)[j] = s[j]
OBVIOUS

\* An empty database satisfies the invariant.
LEMMA InvInit == Init => Inv
BY ClockAssumption DEF Init, Inv, TypeOK, Profiles, BudgetOrder, KeysUnique, Confirmed, Stands

\* An accepted update touches one row, and the budgets in it stay in order.
LEMMA UpdateInv ==
    ASSUME Inv, NEW b \in Buyers \cup {Stranger}, NEW u \in Updates, Update(b, u)
    PROVE  Inv'
<1>. USE DEF Inv
<1>1. /\ UNCHANGED <<now, visits, confirmed>>
      /\ b \in Buyers /\ ~Invalid(u) /\ ~Inverted(profile[b], u)
      /\ profile' = [profile EXCEPT ![b] = Updated(profile[b], u)]
  BY DEF Update, Accepts
<1>2. profile[b] \in Profiles
  BY <1>1 DEF TypeOK
<1>3. /\ Updated(profile[b], u) \in Profiles
      /\ Updated(profile[b], u).min # 0 /\ Updated(profile[b], u).max # 0 =>
             Updated(profile[b], u).min <= Updated(profile[b], u).max
  BY <1>1, <1>2, UpdatedRow
<1>4. TypeOK'
  BY <1>1, <1>3 DEF TypeOK
<1>5. BudgetOrder'
  BY <1>1, <1>3 DEF TypeOK, BudgetOrder
<1>6. (KeysUnique /\ Confirmed /\ Stands)'
  BY <1>1 DEF KeysUnique, Confirmed, Stands
<1>. QED
  BY <1>4, <1>5, <1>6

\* A confirmation is a call with the row it names.
LEMMA ConfirmsInv ==
    ASSUME Inv, NEW call \in BookingCalls, Bookable(call),
           NEW visit \in Visits, visit.key = call.key, Confirms(call, visit)
    PROVE  /\ confirmed' \subseteq [call : BookingCalls, visit : Visits]
           /\ \A c \in confirmed' : c \in confirmed \/ c = [call |-> call, visit |-> visit]
BY DEF Inv, TypeOK, Confirms

\* A repeat names the row that is there.
LEMMA BookAgainInv ==
    ASSUME Inv, NEW call \in BookingCalls, BookAgain(call)
    PROVE  Inv'
<1>. USE DEF Inv
<1>1. PICK i \in Existing(call) : Confirms(call, visits[i])
  BY DEF BookAgain
<1>2. Bookable(call) /\ UNCHANGED <<now, profile, visits>>
  BY DEF BookAgain
<1>3. i \in DOMAIN visits /\ visits[i].key = call.key
  BY <1>1 DEF Existing
<1>4. visits[i] \in Visits
  BY <1>3, ElementOfSeq, LenProperties DEF TypeOK
<1>5. /\ confirmed' \subseteq [call : BookingCalls, visit : Visits]
      /\ \A c \in confirmed' : c \in confirmed \/ c = [call |-> call, visit |-> visits[i]]
  BY <1>1, <1>2, <1>3, <1>4, ConfirmsInv
<1>6. TypeOK' /\ BudgetOrder' /\ KeysUnique'
  BY <1>2, <1>5 DEF TypeOK, BudgetOrder, KeysUnique
<1>7. Confirmed'
  BY <1>2, <1>3, <1>5 DEF Confirmed
<1>8. Stands'
  BY <1>2, <1>5 DEF Stands, Bookable
<1>. QED
  BY <1>6, <1>7, <1>8

\* A new row has a key no row had.
LEMMA BookNewInv ==
    ASSUME Inv, NEW call \in BookingCalls, BookNew(call)
    PROVE  Inv'
<1>. USE DEF Inv
<1>1. /\ Bookable(call) /\ Existing(call) = {} /\ Confirms(call, call)
      /\ visits' = Append(visits, call) /\ UNCHANGED <<now, profile>>
  BY DEF BookNew
<1>2. call \in Visits /\ visits \in Seq(Visits)
  BY <1>1, BookableIsVisit DEF TypeOK
<1>3. /\ visits' \in Seq(Visits)
      /\ DOMAIN visits = 1 .. Len(visits) /\ Len(visits) \in Nat
      /\ DOMAIN visits' = 1 .. Len(visits) + 1
      /\ visits'[Len(visits) + 1] = call
      /\ \A j \in DOMAIN visits : visits'[j] = visits[j]
  BY <1>1, <1>2, Appended
<1>4. \A j \in DOMAIN visits : visits[j].key # call.key
  BY <1>1 DEF Existing
<1>5. /\ confirmed' \subseteq [call : BookingCalls, visit : Visits]
      /\ \A c \in confirmed' : c \in confirmed \/ c = [call |-> call, visit |-> call]
  BY <1>1, <1>2, ConfirmsInv
<1>6. TypeOK' /\ BudgetOrder'
  BY <1>1, <1>3, <1>5 DEF TypeOK, BudgetOrder
<1>7. KeysUnique'
  BY <1>3, <1>4 DEF KeysUnique
<1>8. Confirmed'
  <2>1. \E i \in DOMAIN visits' : visits'[i] = call
    BY <1>3
  <2>2. \A c \in confirmed : \E i \in DOMAIN visits' : visits'[i] = c.visit
    BY <1>3 DEF Confirmed
  <2>. QED
    BY <1>5, <2>1, <2>2 DEF Confirmed
<1>9. Stands'
  BY <1>1, <1>5 DEF Stands, Bookable
<1>. QED
  BY <1>6, <1>7, <1>8, <1>9

\* The window moves on, and what was inside its far end stays inside.
LEMMA TickInv ==
    ASSUME Inv, Tick
    PROVE  Inv'
<1>. USE DEF Inv
<1>1. now \in Nat /\ now' = now + 1 /\ UNCHANGED <<profile, visits, confirmed>>
  BY DEF Tick, TypeOK
<1>2. TypeOK'
  BY <1>1, ClockAssumption DEF Tick, TypeOK
<1>3. (BudgetOrder /\ KeysUnique /\ Confirmed)'
  BY <1>1 DEF BudgetOrder, KeysUnique, Confirmed
<1>4. \A c \in confirmed : c.call.slot \in Nat
  BY ClockAssumption DEF TypeOK, BookingCalls, Slots
<1>5. Stands'
  BY <1>1, <1>4, ClockAssumption DEF Stands
<1>. QED
  BY <1>2, <1>3, <1>5

\* Every call, accepted or refused, keeps the invariant.
LEMMA InvStep == Inv /\ [Next]_vars => Inv'
<1>. SUFFICES ASSUME Inv, [Next]_vars PROVE Inv'
  OBVIOUS
<1>1. CASE UNCHANGED vars
  BY <1>1 DEF vars, Inv, TypeOK, BudgetOrder, KeysUnique, Confirmed, Stands
<1>2. CASE \E b \in Buyers \cup {Stranger}, u \in Updates : Update(b, u)
  BY <1>2, UpdateInv
<1>3. CASE \E call \in BookingCalls : BookAgain(call) \/ BookNew(call)
  BY <1>3, BookAgainInv, BookNewInv
<1>4. CASE Tick
  BY <1>4, TickInv
<1>. QED
  BY <1>1, <1>2, <1>3, <1>4 DEF Next, UpdateRefused, BookRefused

-------------------------------------------------------------------------------
\* The invariant of the buyers and visits holds in every reachable state
\* (tools.py 420-608).
THEOREM RecordsInvariance == Spec => []Inv
BY InvInit, InvStep, PTL DEF Spec

\* No order of partial, wrong or repeated updates inverts the budgets of a buyer,
\* whatever the amounts (tools.py 517-523).
THEOREM BudgetsStayInOrder == Spec => []BudgetOrder
<1>1. Inv => BudgetOrder
  BY DEF Inv
<1>. QED
  BY <1>1, RecordsInvariance, PTL

\* Whoever sends a key is named the one visit that has it (tools.py 594-608).
THEOREM WordIsKept == Spec => []KeepsItsWord
<1>1. Inv => KeepsItsWord
  <2>. SUFFICES ASSUME Inv, NEW c \in confirmed, NEW d \in confirmed, d.call.key = c.call.key
                PROVE  d.visit = c.visit
    BY DEF KeepsItsWord, Inv, Confirmed
  <2>1. PICK i \in DOMAIN visits : visits[i] = c.visit
    BY DEF Inv, Confirmed
  <2>2. PICK j \in DOMAIN visits : visits[j] = d.visit
    BY DEF Inv, Confirmed
  <2>3. visits[i].key = visits[j].key
    BY <2>1, <2>2 DEF Inv, Confirmed
  <2>. QED
    BY <2>1, <2>2, <2>3 DEF Inv, KeysUnique
<1>. QED
  BY <1>1, RecordsInvariance, PTL

\* A confirmed booking can be retried as long as its slot is ahead, whatever the
\* window (tools.py 582-592).
THEOREM RetryIsPossible == Spec => []RetryUntilSlot
<1>1. Inv => RetryUntilSlot
  BY DEF Inv, Stands, RetryUntilSlot, Bookable
<1>. QED
  BY <1>1, RecordsInvariance, PTL

\* No update makes a known field of the profile unknown (tools.py 486-494, 525-526).
THEOREM NothingIsForgotten == Spec => NeverForgets
<1>. DEFINE Kept == \A b \in Buyers :
                      /\ profile[b].min # 0 => profile[b].min' # 0
                      /\ profile[b].max # 0 => profile[b].max' # 0
                      /\ profile[b].others \subseteq profile[b].others'
<1>1. ASSUME Inv, Next PROVE Kept
  <2>1. CASE UNCHANGED profile
    BY <2>1
  <2>2. ASSUME NEW b \in Buyers \cup {Stranger}, NEW u \in Updates, Update(b, u)
        PROVE  Kept
    <3>1. /\ b \in Buyers /\ ~Invalid(u) /\ ~Inverted(profile[b], u)
          /\ profile' = [profile EXCEPT ![b] = Updated(profile[b], u)]
      BY <2>2 DEF Update, Accepts
    <3>2. profile[b] \in Profiles
      BY <1>1, <3>1 DEF Inv, TypeOK
    <3>3. /\ profile[b].min # 0 => Updated(profile[b], u).min # 0
          /\ profile[b].max # 0 => Updated(profile[b], u).max # 0
          /\ profile[b].others \subseteq Updated(profile[b], u).others
      BY <3>1, <3>2, UpdatedRow
    <3>4. profile'[b] = Updated(profile[b], u) /\ \A c \in Buyers : c # b => profile'[c] = profile[c]
      BY <1>1, <3>1 DEF Inv, TypeOK
    <3>. QED
      BY <3>3, <3>4
  <2>. QED
    BY <1>1, <2>1, <2>2 DEF Next, UpdateRefused, BookAgain, BookNew, BookRefused, Tick, vars
<1>2. ASSUME UNCHANGED vars PROVE Kept
  BY <1>2 DEF vars
<1>3. Inv /\ [Next]_vars => [Kept]_vars
  BY <1>1
<1>. QED
  BY <1>3, RecordsInvariance, PTL DEF Spec, NeverForgets

\* Every row and every answer keeps its shape.
THEOREM RecordsTyped == Spec => []TypeOK
<1>1. Inv => TypeOK
  BY DEF Inv
<1>. QED
  BY <1>1, RecordsInvariance, PTL
===============================================================================
