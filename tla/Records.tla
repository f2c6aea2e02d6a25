-------------------------------- MODULE Records --------------------------------
(***************************************************************************)
(* What the model writes about a buyer: the profile and the site visits    *)
(* (app/tools.py 420-608).  A tool call is one commit or none, and calls   *)
(* come in any order, with any arguments, repeated, for any buyer, while   *)
(* the clock runs.                                                         *)
(***************************************************************************)
EXTENDS Integers, Sequences, FiniteSets

CONSTANTS
    Buyers,          \* the rows of buyers
    Stranger,        \* a buyer_id or property_id without a row
    Properties,      \* the rows of properties
    Keys,            \* the idempotency_keys a model may send
    OtherFields,     \* the profile columns beside the two budgets
    Budgets,         \* the rupee amounts a model may send, 0 for one that is none
    BookingWindow,   \* tools.BOOKING_WINDOW, in clock ticks
    LastTick,        \* bound: the clock stops here
    MaxConfirmed     \* bound: how many confirmations are given

ASSUME StrangerAssumption == Stranger \notin Buyers /\ Stranger \notin Properties
ASSUME AmountsAssumption == Budgets \subseteq Nat
ASSUME ClockAssumption ==
    /\ BookingWindow \in Nat \ {0}
    /\ LastTick \in Nat
    /\ MaxConfirmed \in Nat

VARIABLES
    now,         \* datetime.now()
    profile,     \* the qualification columns of each buyer; a budget of 0 is NULL
    visits,      \* the rows of site_visits, oldest first
    confirmed    \* every confirmation given so far, with the call it answered

vars == <<now, profile, visits, confirmed>>

Profiles == [min : Nat, max : Nat, others : SUBSET OtherFields]
Slots == 0 .. LastTick + BookingWindow + 1
BookingCalls == [buyer : Buyers \cup {Stranger}, property : Properties \cup {Stranger},
                 slot : Slots, key : Keys]
Visits == [buyer : Buyers, property : Properties, slot : Slots, key : Keys]

\* An updates object: the two budgets (Absent when the object does not have the
\* field), the other fields it sets, and whether one of those, or its name, is no
\* legal value.
Absent == -1
Updates == [min : Budgets \cup {Absent}, max : Budgets \cup {Absent},
            others : SUBSET OtherFields, bad : BOOLEAN]

Init ==
    /\ now = 0
    /\ profile = [b \in Buyers |-> [min |-> 0, max |-> 0, others |-> {}]]
    /\ visits = <<>>
    /\ confirmed = {}

-------------------------------------------------------------------------------
(* update_buyer_profile.                                                   *)

Merged(old, sent) == IF sent = Absent THEN old ELSE sent

\* _validated_updates: a budget must be positive, every other field legal.
Invalid(u) == u.bad \/ u.min = 0 \/ u.max = 0

\* Mutant: the order is checked on what was sent only.
Inverted_SentOnly(row, u) == u.min # Absent /\ u.max # Absent /\ u.min > u.max

\* The budgets as they would be after the update are out of order.
Inverted(row, u) ==
    LET min == Merged(row.min, u.min)
        max == Merged(row.max, u.max)
    IN  min # 0 /\ max # 0 /\ min > max

\* Mutant: an update replaces the row instead of merging into it.
Updated_Replaces(row, u) ==
    [min |-> Merged(0, u.min), max |-> Merged(0, u.max), others |-> u.others]

Updated(row, u) ==
    [min |-> Merged(row.min, u.min), max |-> Merged(row.max, u.max),
     others |-> row.others \cup u.others]

Accepts(b, u) == b \in Buyers /\ ~Invalid(u) /\ ~Inverted(profile[b], u)

Update(b, u) ==
    /\ Accepts(b, u)
    /\ profile' = [profile EXCEPT ![b] = Updated(@, u)]
    /\ UNCHANGED <<now, visits, confirmed>>

\* Refused: the model reads why, and nothing is written.
UpdateRefused(b, u) ==
    /\ ~Accepts(b, u)
    /\ UNCHANGED vars

-------------------------------------------------------------------------------
(* book_site_visit.                                                        *)

\* Mutant: the far end of the window is compared the wrong way round.
Bookable_FarOnly(call) ==
    /\ call.buyer \in Buyers /\ call.property \in Properties
    /\ now < call.slot /\ now + BookingWindow <= call.slot

\* Both rows exist and the slot is ahead, within the window.
Bookable(call) ==
    /\ call.buyer \in Buyers /\ call.property \in Properties
    /\ now < call.slot /\ call.slot <= now + BookingWindow

\* Mutant: the key is looked up among the visits of the calling buyer only.
Existing_OwnOnly(call) ==
    {i \in DOMAIN visits : visits[i].key = call.key /\ visits[i].buyer = call.buyer}

\* The rows with the key of the call.
Existing(call) == {i \in DOMAIN visits : visits[i].key = call.key}

Confirms(call, visit) ==
    /\ Cardinality(confirmed) < MaxConfirmed
    /\ confirmed' = confirmed \cup {[call |-> call, visit |-> visit]}

\* A repeat returns the existing row, whatever else the call says.
BookAgain(call) ==
    /\ Bookable(call)
    /\ \E i \in Existing(call) : Confirms(call, visits[i])
    /\ UNCHANGED <<now, profile, visits>>

BookNew(call) ==
    /\ Bookable(call)
    /\ Existing(call) = {}
    /\ visits' = Append(visits, call)
    /\ Confirms(call, call)
    /\ UNCHANGED <<now, profile>>

BookRefused(call) ==
    /\ ~Bookable(call)
    /\ UNCHANGED vars

-------------------------------------------------------------------------------
Tick ==
    /\ now < LastTick
    /\ now' = now + 1
    /\ UNCHANGED <<profile, visits, confirmed>>

Next ==
    \/ \E b \in Buyers \cup {Stranger}, u \in Updates : Update(b, u) \/ UpdateRefused(b, u)
    \/ \E call \in BookingCalls : BookAgain(call) \/ BookNew(call) \/ BookRefused(call)
    \/ Tick

Spec == Init /\ [][Next]_vars

-------------------------------------------------------------------------------
(* Properties.                                                             *)

\* Every row and every answer has its shape.
TypeOK ==
    /\ now \in 0 .. LastTick
    /\ profile \in [Buyers -> Profiles]
    /\ visits \in Seq(Visits)
    /\ confirmed \subseteq [call : BookingCalls, visit : Visits]

\* Whatever the order in which the two budgets arrive, one by one, together,
\* again or wrong, the row a search is made from never has them inverted
\* (tools.py 517-523): the check is against the merged row, not the update.
BudgetOrder ==
    \A b \in Buyers :
        profile[b].min # 0 /\ profile[b].max # 0 => profile[b].min <= profile[b].max

\* What a buyer has told is never asked again: no update, partial or refused,
\* makes a known field of the qualification unknown (lines 486-494, 525-526).
NeverForgets ==
    [][\A b \in Buyers :
          /\ profile[b].min # 0 => profile[b].min' # 0
          /\ profile[b].max # 0 => profile[b].max' # 0
          /\ profile[b].others \subseteq profile[b].others']_vars

\* A confirmation names a visit that is and stays in the table, and everybody who
\* ever sent its key, for whatever buyer, property or slot, was named that one
\* (lines 594-599): a retry books nothing twice and finds nothing changed.
KeepsItsWord ==
    \A c \in confirmed :
        /\ c.visit.key = c.call.key
        /\ \E i \in DOMAIN visits : visits[i] = c.visit
        /\ \A d \in confirmed : d.call.key = c.call.key => d.visit = c.visit

\* A booking that was confirmed can be retried until its slot is over: the window
\* (lines 582-592) is checked before the key, and must not shut a retry out earlier.
RetryUntilSlot ==
    \A c \in confirmed : c.call.slot > now => Bookable(c.call)

-------------------------------------------------------------------------------
(* The inductive invariant behind them (RecordsProofs).                    *)

\* The unique constraint on site_visits.idempotency_key never trips.
KeysUnique == \A i, j \in DOMAIN visits : visits[i].key = visits[j].key => i = j

\* Every confirmation was given for a row with its key.
Confirmed ==
    \A c \in confirmed :
        /\ c.visit.key = c.call.key
        /\ \E i \in DOMAIN visits : visits[i] = c.visit

\* A call that was confirmed named rows, and a slot that now can only come nearer.
Stands ==
    \A c \in confirmed :
        /\ c.call.buyer \in Buyers /\ c.call.property \in Properties
        /\ c.call.slot <= now + BookingWindow

Inv == TypeOK /\ BudgetOrder /\ KeysUnique /\ Confirmed /\ Stands
===============================================================================
