-------------------------------- MODULE Search --------------------------------
(***************************************************************************)
(* search_properties and its relaxation ladder (app/tools.py 113-359), and *)
(* what later turns of the conversation remember of it                     *)
(* (agent.shown_properties).  A search is synchronous; its steps are the   *)
(* rungs of the ladder, so that a property can say what each was for.      *)
(***************************************************************************)
EXTENDS Integers, Sequences, FiniteSets

CONSTANTS
    Inventory,          \* the rows of properties
    Localities,         \* enums.LOCALITIES
    Adjacent,           \* enums.ADJACENT
    Openings,           \* the arguments a first search may have
    Followups,          \* the arguments a later one may have
    None,               \* an argument that is absent
    Prose,              \* a number or a month that is none: an error names what is valid
    Misfit,             \* a value of a type the code does not foresee: a month that is no
                        \* string (or a year no date type takes), localities that are no list
    LastMonth,          \* December 9999, after which datetime has no month
    MinResults,         \* tools.MIN_RESULTS
    MaxResults,         \* tools.MAX_RESULTS
    BudgetRelaxation,   \* tools.BUDGET_RELAXATION, percent
    ShownLimit,         \* agent.SHOWN_LIMIT
    MaxSearches         \* bound: searches in one conversation

Places == UNION {[1 .. n -> Localities] : n \in 0 .. 2}

ASSUME InventoryAssumption ==
  /\ IsFiniteSet(Inventory)
  /\ \A p \in Inventory :
        /\ p.id \in Nat /\ p.place \in Localities /\ p.bhk \in Nat
        /\ p.price \in Nat \ {0} /\ p.month \in Nat
  /\ \A o, p \in Inventory : o.id = p.id => o = p
ASSUME AdjacentAssumption == Adjacent \in [Localities -> Seq(Localities)]
ASSUME LimitsAssumption ==
    /\ MinResults \in Nat /\ MaxResults \in Nat /\ MinResults <= MaxResults
    /\ BudgetRelaxation \in Nat /\ BudgetRelaxation >= 100
    /\ ShownLimit \in Nat /\ ShownLimit >= MaxResults /\ MaxSearches \in Nat
ASSUME AbsentAssumption ==
    /\ None \notin Int /\ Prose \notin Int /\ Misfit \notin Int
    /\ None # Prose /\ None # Misfit /\ Prose # Misfit
    /\ LastMonth \in Nat
ASSUME QueriesAssumption ==
    \A q \in Openings \cup Followups :
        /\ q.min \in Int \cup {None, Prose} /\ q.max \in Int \cup {None, Prose}
        /\ q.places \in Seq(STRING) \cup {Misfit}
        /\ q.bhk \in Int \cup {None, Prose}
        /\ q.before \in 0 .. LastMonth \cup {None, Prose, Misfit}

VARIABLES
    pc,         \* where the search in hand is
    query,      \* its arguments
    exact,      \* the exact matches it returns
    near,       \* the near matches
    maximum,    \* widened_max
    places,     \* widened_localities; none means any
    relaxed,    \* the relaxations it names
    log         \* the cards of each search of the conversation, oldest first

vars == <<pc, query, exact, near, maximum, places, relaxed, log>>
search == <<query, exact, near, maximum, places, relaxed>>

Stages == {"idle", "budget", "locality", "answer", "answered", "refused", "thrown"}

-------------------------------------------------------------------------------
(* Matching and ranking.                                                   *)

Elements(s) == {s[i] : i \in DOMAIN s}

InBudget(price, min, max) == (min # None => price >= min) /\ (max # None => price <= max)

\* Possession within the month asked for, or before.
InTime(p, q) == q.before # None => p.month <= q.before

Matches(q, max, where) ==
    {p \in Inventory :
        /\ q.bhk # None => p.bhk = q.bhk
        /\ where # {} => p.place \in where
        /\ InBudget(p.price, q.min, max)
        /\ InTime(p, q)}

Distance(a, b) == IF a > b THEN a - b ELSE b - a

\* The place of a locality in the buyer's order of preference.
Preference(where, stated) ==
    IF where \in Elements(stated)
    THEN CHOOSE i \in DOMAIN stated :
             stated[i] = where /\ \A j \in DOMAIN stated : stated[j] = where => i <= j
    ELSE Len(stated) + 1

Key(p, q) ==
    << IF InBudget(p.price, q.min, q.max) THEN 0 ELSE 1,
       IF q.max = None THEN 0 ELSE Distance(p.price, q.max),
       Preference(p.place, q.places),
       IF InTime(p, q) THEN 0 ELSE 1,
       p.id >>

Below(k, l) == \E i \in DOMAIN k : k[i] < l[i] /\ \A j \in 1 .. i - 1 : k[j] = l[j]

\* How many of homes rank before p.
Rank(p, homes, q) == Cardinality({o \in homes : Below(Key(o, q), Key(p, q))})

\* The n best of homes.
Top(n, homes, q) == {p \in homes : Rank(p, homes, q) < n}

\* The cards of homes, best first.
Listed(homes, q) ==
    [n \in 1 .. Cardinality(homes) |-> (CHOOSE p \in homes : Rank(p, homes, q) = n - 1).id]

-------------------------------------------------------------------------------
(* What raises on the way: a display of an amount that is not positive,    *)
(* and the end of the last month.                                          *)

\* price_display has a text for it; the first 499 rupees read as zero lakh.
HasText(rupees) == rupees > 0

\* Mutant: a price equal to the budget is a gap, too.
FitHasText_ZeroGap(p, q) == q.max # None => HasText(Distance(p.price, q.max))

\* _fit_reason: a price equal to the budget needs no gap.
FitHasText(p, q) == q.max # None /\ p.price # q.max => HasText(Distance(p.price, q.max))

\* The amounts of the query in a note or an error.
BudgetHasText(q) == (q.min # None => HasText(q.min)) /\ (q.max # None => HasText(q.max))

\* _matches asks for the end of the month once a home meets all that comes before it,
\* and the last month has none.
Overflows(q, min, max, where) ==
    q.before = LastMonth /\ Matches([q EXCEPT !.before = None, !.min = min], max, where) # {}

-------------------------------------------------------------------------------
NoQuery == [min |-> None, max |-> None, places |-> <<>>, bhk |-> None, before |-> None]

Init ==
    /\ pc = "idle"
    /\ query = NoQuery
    /\ exact = {} /\ near = {}
    /\ maximum = None /\ places = {} /\ relaxed = {}
    /\ log = <<>>

NoNumber(q) == q.min = Prose \/ q.max = Prose
Inverted(q) == q.min # None /\ q.max # None /\ q.min > q.max
UnknownPlace(q) == ~(Elements(q.places) \subseteq Localities)
UnknownSize(q) == q.bhk # None /\ q.bhk \notin {p.bhk : p \in Inventory}

\* The arguments are looked at in this order: an error for the model to read, an
\* exception, or a search.  The inverted budget is put in words.
Verdict(q) ==
    IF NoNumber(q) THEN "refused"
    ELSE IF Inverted(q) THEN (IF BudgetHasText(q) THEN "refused" ELSE "thrown")
    ELSE IF q.places = Misfit THEN "thrown"
    ELSE IF UnknownPlace(q) \/ UnknownSize(q) THEN "refused"
    ELSE IF q.before = Misfit THEN "thrown"
    ELSE IF q.before = Prose THEN "refused"
    ELSE IF Overflows(q, q.min, q.max, Elements(q.places)) THEN "thrown"
    ELSE "accepted"

Accepted(q) == Verdict(q) = "accepted"

Asks(q) == pc = "idle" /\ Len(log) < MaxSearches /\ query' = q

AskFails(q) ==
    /\ Asks(q)
    /\ ~Accepted(q)
    /\ pc' = Verdict(q)
    /\ UNCHANGED <<exact, near, maximum, places, relaxed, log>>

AskMatches(q) ==
    /\ Asks(q)
    /\ Accepted(q)
    /\ exact' = Top(MaxResults, Matches(q, q.max, Elements(q.places)), q)
    /\ pc' = IF Cardinality(exact') < MinResults THEN "budget" ELSE "answer"
    /\ maximum' = q.max
    /\ places' = Elements(q.places)
    /\ UNCHANGED <<near, relaxed, log>>

-------------------------------------------------------------------------------
(* The ladder: budget first, locality second, BHK never.                   *)

\* Mutant: an exact match may come back as a near one.
Nearest_Again(max, where) ==
    Top(MinResults - Cardinality(exact), Matches(query, max, where), query)

\* The near matches the widened criteria give.
Nearest(max, where) ==
    Top(MinResults - Cardinality(exact), Matches(query, max, where) \ exact, query)

Raised == (query.max * BudgetRelaxation) \div 100

NoBudget ==
    /\ pc = "budget" /\ query.max = None
    /\ pc' = "locality"
    /\ UNCHANGED <<search, log>>

\* The search ends in an exception.
Throws == pc' = "thrown" /\ UNCHANGED <<search, log>>

RaiseBudget ==
    /\ pc = "budget" /\ query.max # None
    /\ IF HasText(Raised) /\ ~Overflows(query, query.min, Raised, places)
       THEN /\ maximum' = Raised
            /\ relaxed' = relaxed \cup {"budget"}
            /\ near' = Nearest(Raised, places)
            /\ pc' = "locality"
            /\ UNCHANGED <<query, exact, places, log>>
       ELSE Throws

Enough == Cardinality(exact) + Cardinality(near) >= MinResults

\* The neighbours of the stated localities which are not stated themselves.
Added ==
    {place \in Localities :
        /\ place \notin Elements(query.places)
        /\ \E i \in DOMAIN query.places : place \in Elements(Adjacent[query.places[i]])}

KeepLocalities ==
    /\ pc = "locality" /\ (Enough \/ Added = {})
    /\ pc' = "answer"
    /\ UNCHANGED <<search, log>>

\* The second rung, with the budget max.
WidensWith(max) ==
    IF ~Overflows(query, query.min, max, places \cup Added)
    THEN /\ places' = places \cup Added
         /\ relaxed' = relaxed \cup {"locality"}
         /\ near' = Nearest(max, places \cup Added)
         /\ pc' = "answer"
         /\ UNCHANGED <<query, exact, maximum, log>>
    ELSE Throws

\* Mutant: the localities are widened whatever the budget has found.
WidenLocalities_Always == pc = "locality" /\ Added # {} /\ WidensWith(maximum)

\* Mutant: the second rung starts from the budget as it was asked.
WidenLocalities_BudgetForgotten ==
    pc = "locality" /\ ~Enough /\ Added # {} /\ WidensWith(query.max)

WidenLocalities == pc = "locality" /\ ~Enough /\ Added # {} /\ WidensWith(maximum)

\* What the note looks for: with a budget, homes in the stated localities at any
\* price, and homes within it in each of the other ones.
NoteOverflows ==
    /\ query.max # None
    /\ \/ /\ query.places # <<>>
          /\ Overflows(query, None, None, Elements(query.places))
       \/ \E place \in Localities \ Elements(query.places) :
             Overflows(query, query.min, query.max, {place})

Presents ==
    /\ \A p \in exact \cup near : FitHasText(p, query)
    /\ relaxed # {} => BudgetHasText(query) /\ ~NoteOverflows

\* Cards, fit reasons and the note are put in words.
Answer ==
    /\ pc = "answer"
    /\ pc' = IF Presents THEN "answered" ELSE "thrown"
    /\ UNCHANGED <<search, log>>

Cards ==
    IF pc = "answered" THEN Listed(exact, query) \o Listed(near, query) ELSE <<>>

\* dispatch logs the result, also one that is an error.
Logged ==
    /\ pc \in {"answered", "refused", "thrown"}
    /\ log' = Append(log, Cards)
    /\ pc' = "idle"
    /\ query' = NoQuery
    /\ exact' = {} /\ near' = {}
    /\ maximum' = None /\ places' = {} /\ relaxed' = {}

\* The conversation has had its searches.
Done == pc = "idle" /\ Len(log) = MaxSearches /\ UNCHANGED vars

Queries == IF log = <<>> THEN Openings ELSE Followups

Next ==
    \/ \E q \in Queries : AskFails(q) \/ AskMatches(q)
    \/ NoBudget \/ RaiseBudget \/ KeepLocalities \/ WidenLocalities
    \/ Answer \/ Logged \/ Done

Spec == Init /\ [][Next]_vars

-------------------------------------------------------------------------------
(* agent.shown_properties: what the buyer can refer back to.               *)

\* Mutant: the oldest search comes first.
Row_OldestFirst(n) == log[n]

\* The cards of the n-th row, newest first.
Row(n) == log[Len(log) + 1 - n]

\* The cards shown, old ones first, with those of a row that are new.
Adding(old, row) ==
    LET upTo[i \in 0 .. Len(row)] ==
            IF i = 0 THEN old
            ELSE IF row[i] \in Elements(upTo[i - 1]) THEN upTo[i - 1]
                 ELSE Append(upTo[i - 1], row[i])
    IN  upTo[Len(row)]

\* The cards seen in the n newest rows; enough of them end the loop.
Seen[n \in 0 .. Len(log)] ==
    IF n = 0 THEN <<>>
    ELSE IF Len(Seen[n - 1]) >= ShownLimit THEN Seen[n - 1]
         ELSE Adding(Seen[n - 1], Row(n))

ShownProperties ==
    LET all == Seen[Len(log)]
    IN  SubSeq(all, 1, IF Len(all) < ShownLimit THEN Len(all) ELSE ShownLimit)

-------------------------------------------------------------------------------
(* Properties.                                                             *)

\* Every variable has its shape, and a result has its size: at most five exact
\* matches, and near ones only to fill up to three.
TypeOK ==
    /\ pc \in Stages
    /\ exact \subseteq Inventory /\ near \subseteq Inventory
    /\ Cardinality(exact) <= MaxResults
    /\ near # {} => Cardinality(exact) + Cardinality(near) <= MinResults
    /\ relaxed \subseteq {"budget", "locality"}
    /\ places \subseteq Localities
    /\ Len(log) <= MaxSearches

Stated(p) == query.places # <<>> => p.place \in Elements(query.places)

\* A buyer can trust a card: an exact match meets every criterion; a near match
\* misses one that can be relaxed, by no more than the policy allows and only when
\* the answer names that relaxation; BHK, minimum and possession are never given
\* up (D14, tools.py 314-347).
AsLabelled ==
    /\ exact \cap near = {}
    /\ \A p \in exact \cup near :
          /\ query.bhk # None => p.bhk = query.bhk
          /\ InBudget(p.price, query.min, None) /\ InTime(p, query)
          /\ p \in exact <=> InBudget(p.price, None, query.max) /\ Stated(p)
          /\ ~InBudget(p.price, None, query.max) => "budget" \in relaxed /\ p.price <= Raised
          /\ ~Stated(p) =>
                /\ "locality" \in relaxed
                /\ \E place \in Elements(query.places) : p.place \in Elements(Adjacent[place])

\* The highest price the policy allows.
Ceiling == IF query.max = None THEN None ELSE Raised

\* A locality the buyer did not name is offered only when the ones named do not
\* give three cards with the budget raised as far as it goes (test_tools.py,
\* test_budget_relaxes_before_locality).
BudgetFirst ==
    "locality" \in relaxed =>
        Cardinality(Matches(query, Ceiling, Elements(query.places))) < MinResults

Reachable(p) ==
    query.places # <<>> =>
        \E place \in Elements(query.places) :
            p.place = place \/ p.place \in Elements(Adjacent[place])

\* What the ladder could give at the most.
Widest == {p \in Matches(query, Ceiling, {}) : Reachable(p)}

\* The ladder never stops short: an answer has fewer than three cards only when
\* every criterion that can be relaxed, relaxed as far as it goes, gives no more.
NothingWithheld ==
    pc = "answered" =>
        \/ Cardinality(exact \cup near) >= MinResults
        \/ exact \cup near = Widest

\* Amounts of money, localities that are a list, and a month that has a next one.
Sound(q) ==
    BudgetHasText(q) /\ q.places # Misfit /\ q.before \notin {Misfit, LastMonth}

\* With sound arguments a search ends in an answer or in an error the model can
\* read: no price, gap or raised budget on the way lacks a text, whatever the
\* inventory holds and however far the ladder goes (tools.py 13-15).
SoundIsSteered == pc = "thrown" => ~Sound(query)

\* The buyer can refer to every card of the newest answer, however many searches
\* came before or failed since (agent.py 187-220).
NewestShown ==
    \A n \in DOMAIN log :
        (log[n] # <<>> /\ \A m \in DOMAIN log : m > n => log[m] = <<>>) =>
            SubSeq(ShownProperties, 1, Len(log[n])) = log[n]

\* What the docstring and the tool's schema say: a search is never empty (tools.py
\* 269, schemas.py 58-60).
NeverEmpty == pc = "answered" => exact \cup near # {}

\* Errors steer, they never raise (tools.py 13-15).
ErrorsSteer == pc # "thrown"

\* A gap reads as more than nothing: from 500 rupees on it rounds to a hundredth of a
\* lakh (format.py 56-60).
GapsRead ==
    \A p \in exact \cup near :
        query.max # None /\ p.price # query.max => Distance(p.price, query.max) >= 500

-------------------------------------------------------------------------------
(* The inductive invariant behind them (SearchProofs).                     *)

\* A search that was accepted: what each rung left, and how far the rungs before
\* the one at hand have gone.
OnLadder ==
    /\ query \in Openings \cup Followups /\ Accepted(query)
    /\ exact = Top(MaxResults, Matches(query, query.max, Elements(query.places)), query)
    /\ near \subseteq Matches(query, maximum, places) \ exact
    /\ near # {} => Cardinality(exact) < MinResults
    /\ relaxed \subseteq {"budget", "locality"}
    /\ maximum = IF "budget" \in relaxed THEN Ceiling ELSE query.max
    /\ places = Elements(query.places) \cup IF "locality" \in relaxed THEN Added ELSE {}
    /\ pc = "budget" => near = {} /\ relaxed = {} /\ Cardinality(exact) < MinResults
    /\ pc = "locality" =>
          /\ Cardinality(exact) < MinResults
          /\ "locality" \notin relaxed /\ maximum = Ceiling
          /\ Enough \/ exact \cup near = Matches(query, maximum, places)
    /\ pc \in {"answer", "answered"} => Enough \/ exact \cup near = Widest
    /\ BudgetFirst

\* Nothing was found, or asked, yet.
Blank == exact = {} /\ near = {} /\ relaxed = {}

Inv ==
    /\ \/ pc \in {"idle", "refused", "thrown"} /\ Blank
       \/ pc \in {"budget", "locality", "answer", "answered", "thrown"} /\ OnLadder
    /\ SoundIsSteered

-------------------------------------------------------------------------------
(* What NewestShown rests on, beside Inv.                                  *)

\* No home is shown twice.
NoRepeats(cards) == \A i, j \in DOMAIN cards : cards[i] = cards[j] => i = j

\* The cards of a search are no more than the buyer is reminded of.
LogFits ==
    /\ log \in Seq(Seq(Nat))
    /\ \A n \in DOMAIN log : Len(log[n]) <= MaxResults /\ NoRepeats(log[n])

NearFits == near # {} => Cardinality(exact) + Cardinality(near) <= MinResults
===============================================================================
