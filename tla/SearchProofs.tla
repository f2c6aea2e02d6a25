----------------------------- MODULE SearchProofs -----------------------------
(***************************************************************************)
(* The ladder of a search, for any inventory, vocabulary, limits and       *)
(* arguments.                                                              *)
(***************************************************************************)
EXTENDS Search, FiniteSetTheorems, SequenceTheorems, WellFoundedInduction, TLAPS

\* A set of natural numbers has a least one.
LEMMA Least ==
    ASSUME NEW T, T \subseteq Nat, T # {}
    PROVE  \E x \in T : \A y \in T : x <= y
<1>. DEFINE R == OpToRel(<, Nat)
<1>1. IsWellFoundedOn(R, Nat)
  BY NatLessThanWellFounded
<1>2. ASSUME NEW x \in Nat, NEW y \in Nat, x < y
      PROVE  <<x, y>> \in R
  BY <1>2, Zenon DEF OpToRel
<1>. HIDE DEF R
<1>3. PICK x \in T : \A y \in T : ~ (<<y, x>> \in R)
  BY <1>1, WFMin
<1>4. ASSUME NEW y \in T PROVE x <= y
  <2>1. x \in Nat /\ y \in Nat
    BY <1>3
  <2>2. ~ (y < x)
    BY <1>2, <1>3, <2>1
  <2>. QED
    BY <2>1, <2>2
<1>. QED
  BY <1>3, <1>4

-------------------------------------------------------------------------------
(* Ranking: an order on keys, and what the n best of a set are.            *)

\* The arguments of a search that is not refused, as far as ranking needs them.
Ranks(q) ==
    /\ q.min \in Int \cup {None} /\ q.max \in Int \cup {None}
    /\ q.places \in Seq(Localities)

Numbers(k) == DOMAIN k = 1 .. 5 /\ \A i \in 1 .. 5 : k[i] \in Int

\* A key is five numbers.
LEMMA KeyNumbers ==
    ASSUME NEW q, Ranks(q), NEW p \in Inventory
    PROVE  Numbers(Key(p, q))
<1>1. p.id \in Nat /\ p.price \in Nat
  BY InventoryAssumption
<1>2. (IF q.max = None THEN 0 ELSE Distance(p.price, q.max)) \in Int
  BY <1>1 DEF Ranks, Distance
<1>3. Preference(p.place, q.places) \in Int
  <2>1. Len(q.places) \in Nat /\ DOMAIN q.places = 1 .. Len(q.places)
    BY DEF Ranks
  <2>. DEFINE here == {i \in DOMAIN q.places : q.places[i] = p.place}
  <2>2. CASE p.place \in Elements(q.places)
    <3>1. here # {} /\ here \subseteq Nat
      BY <2>1, <2>2 DEF Elements
    <3>2. \E i \in here : \A j \in here : i <= j
      BY <3>1, Least
    <3>3. \E i \in DOMAIN q.places :
             q.places[i] = p.place /\ \A j \in DOMAIN q.places : q.places[j] = p.place => i <= j
      BY <3>2
    <3>4. Preference(p.place, q.places) \in DOMAIN q.places
      BY <2>2, <3>3 DEF Preference
    <3>. QED
      BY <2>1, <3>4
  <2>3. CASE p.place \notin Elements(q.places)
    BY <2>1, <2>3 DEF Preference
  <2>. QED
    BY <2>2, <2>3
<1>. QED
  BY <1>1, <1>2, <1>3 DEF Key, Numbers

\* Keys are ordered.
LEMMA BelowOrders ==
    ASSUME NEW k, NEW l, NEW m, Numbers(k), Numbers(l), Numbers(m)
    PROVE  /\ ~Below(k, k)
           /\ Below(k, l) /\ Below(l, m) => Below(k, m)
<1>1. ~Below(k, k)
  BY DEF Below, Numbers
<1>2. ASSUME Below(k, l), Below(l, m) PROVE Below(k, m)
  <2>1. PICK i \in 1 .. 5 : k[i] < l[i] /\ \A j \in 1 .. i - 1 : k[j] = l[j]
    BY <1>2 DEF Below, Numbers
  <2>2. PICK n \in 1 .. 5 : l[n] < m[n] /\ \A j \in 1 .. n - 1 : l[j] = m[j]
    BY <1>2 DEF Below, Numbers
  <2>3. CASE i <= n
    <3>1. k[i] < m[i]
      <4>1. i = n \/ l[i] = m[i]
        BY <2>2, <2>3
      <4>. QED
        BY <2>1, <2>2, <4>1 DEF Numbers
    <3>2. \A j \in 1 .. i - 1 : k[j] = m[j]
      BY <2>1, <2>2, <2>3
    <3>. QED
      BY <3>1, <3>2 DEF Below, Numbers
  <2>4. CASE n < i
    <3>1. k[n] < m[n]
      BY <2>1, <2>2, <2>4 DEF Numbers
    <3>2. \A j \in 1 .. n - 1 : k[j] = m[j]
      BY <2>1, <2>2, <2>4
    <3>. QED
      BY <3>1, <3>2 DEF Below, Numbers
  <2>. QED
    BY <2>3, <2>4
<1>. QED
  BY <1>1, <1>2

\* What ranks before a home has a lower rank.
LEMMA RankGrows ==
    ASSUME NEW q, Ranks(q), NEW homes \in SUBSET Inventory, NEW o \in homes, NEW p \in homes,
           Below(Key(o, q), Key(p, q))
    PROVE  Rank(o, homes, q) < Rank(p, homes, q)
<1>. DEFINE Before(h) == {g \in homes : Below(Key(g, q), Key(h, q))}
<1>1. \A h \in homes : Numbers(Key(h, q))
  BY KeyNumbers
<1>2. Before(o) \subseteq Before(p)
  <2>. SUFFICES ASSUME NEW h \in Before(o) PROVE h \in Before(p)
    OBVIOUS
  <2>. QED
    BY <1>1, BelowOrders
<1>3. o \in Before(p) \ Before(o)
  BY <1>1, BelowOrders
<1>4. IsFiniteSet(Before(o)) /\ IsFiniteSet(Before(p))
  <2>1. IsFiniteSet(homes)
    BY InventoryAssumption, FS_Subset
  <2>. QED
    BY <2>1, FS_Subset
<1>5. /\ Cardinality(Before(o)) <= Cardinality(Before(p))
      /\ Cardinality(Before(o)) # Cardinality(Before(p))
      /\ Cardinality(Before(o)) \in Nat /\ Cardinality(Before(p)) \in Nat
  BY <1>2, <1>3, <1>4, FS_Subset, FS_CardinalityType
<1>. QED
  BY <1>5 DEF Rank

\* Fewer of the n best than n means that there are no others.
LEMMA FewMeansAll ==
    ASSUME NEW q, Ranks(q), NEW homes \in SUBSET Inventory, NEW n \in Nat,
           Cardinality(Top(n, homes, q)) < n
    PROVE  Top(n, homes, q) = homes
<1>. DEFINE Before(p) == {o \in homes : Below(Key(o, q), Key(p, q))}
            rest == {p \in homes : ~ (Rank(p, homes, q) < n)}
            ranks == {Rank(p, homes, q) : p \in rest}
<1>1. IsFiniteSet(homes)
  BY InventoryAssumption, FS_Subset
<1>2. \A p \in homes : IsFiniteSet(Before(p)) /\ Rank(p, homes, q) = Cardinality(Before(p))
                       /\ Rank(p, homes, q) \in Nat
  <2>. TAKE p \in homes
  <2>1. IsFiniteSet(Before(p))
    BY <1>1, FS_Subset
  <2>. QED
    BY <2>1, FS_CardinalityType DEF Rank
<1>3. \A p \in homes : \A o \in Before(p) : Rank(o, homes, q) < Rank(p, homes, q)
  BY RankGrows
<1>4. CASE rest = {}
  BY <1>4 DEF Top
<1>5. CASE rest # {}
  <2>1. ranks # {} /\ ranks \subseteq Nat
    BY <1>2, <1>5
  <2>2. \E x \in ranks : \A y \in ranks : x <= y
    BY <2>1, Least
  <2>3. PICK p \in rest : \A o \in rest : Rank(p, homes, q) <= Rank(o, homes, q)
    BY <2>2
  <2>4. Before(p) \subseteq Top(n, homes, q)
    <3>. SUFFICES ASSUME NEW o \in Before(p) PROVE o \in Top(n, homes, q)
      OBVIOUS
    <3>1. o \in homes /\ Rank(o, homes, q) < Rank(p, homes, q)
      BY <1>3, <2>3
    <3>2. Rank(p, homes, q) \in Nat /\ Rank(o, homes, q) \in Nat
      BY <1>2, <2>3, <3>1
    <3>3. ~ (Rank(p, homes, q) <= Rank(o, homes, q))
      BY <3>1, <3>2
    <3>4. o \notin rest
      BY <2>3, <3>3
    <3>. QED
      BY <3>1, <3>4 DEF Top
  <2>5. IsFiniteSet(Top(n, homes, q))
    BY <1>1, FS_Subset DEF Top
  <2>6. Cardinality(Before(p)) <= Cardinality(Top(n, homes, q))
        /\ Cardinality(Top(n, homes, q)) \in Nat
    BY <2>4, <2>5, FS_Subset, FS_CardinalityType
  <2>7. Rank(p, homes, q) = Cardinality(Before(p)) /\ Rank(p, homes, q) \in Nat
        /\ ~ (Rank(p, homes, q) < n)
    BY <1>2, <2>3
  <2>. QED
    BY <2>6, <2>7
<1>. QED
  BY <1>4, <1>5

-------------------------------------------------------------------------------
(* The rungs.                                                              *)

\* What was accepted can be ranked.
LEMMA AcceptedRanks ==
    ASSUME NEW q \in Openings \cup Followups, Accepted(q)
    PROVE  Ranks(q) /\ q.before \in Nat \cup {None}
<1>1. /\ q.min \in Int \cup {None} /\ q.max \in Int \cup {None}
      /\ q.before \in Nat \cup {None}
  BY QueriesAssumption, AbsentAssumption DEF Accepted, Verdict, NoNumber
<1>2. q.places \in Seq(STRING) /\ Elements(q.places) \subseteq Localities
  BY QueriesAssumption DEF Accepted, Verdict, UnknownPlace
<1>3. q.places \in Seq(Localities)
  BY <1>2 DEF Elements
<1>. QED
  BY <1>1, <1>3 DEF Ranks

\* A raised budget is a number.
LEMMA RaisedIsNumber ==
    ASSUME query.max \in Int
    PROVE  Raised \in Int
BY LimitsAssumption DEF Raised

\* Raising a budget never lowers it.
LEMMA RaisedIsHigher ==
    ASSUME query.max \in Nat
    PROVE  Raised \in Nat /\ Raised >= query.max
<1>. DEFINE p == query.max * BudgetRelaxation
<1>1. BudgetRelaxation \in Nat /\ BudgetRelaxation >= 100
  BY LimitsAssumption
<1>2. p \in Nat /\ p >= 100 * query.max
  BY <1>1
<1>. HIDE DEF p
<1>3. p \div 100 \in Nat /\ p \div 100 >= query.max
  BY <1>2
<1>. QED
  BY <1>3 DEF Raised, p

\* What matches are homes, finitely many.
LEMMA MatchesFinite ==
    ASSUME NEW q, NEW max, NEW where, NEW S \in SUBSET Matches(q, max, where)
    PROVE  S \subseteq Inventory /\ IsFiniteSet(S) /\ Cardinality(S) \in Nat
<1>1. S \subseteq Inventory
  BY DEF Matches
<1>. QED
  BY <1>1, InventoryAssumption, FS_Subset, FS_CardinalityType

\* The size of what is shown.
LEMMA Shown ==
    ASSUME OnLadder
    PROVE  /\ exact \subseteq Matches(query, query.max, Elements(query.places))
           /\ exact \subseteq Inventory /\ near \subseteq Inventory
           /\ Cardinality(exact) \in Nat /\ Cardinality(near) \in Nat
           /\ Cardinality(exact \cup near) = Cardinality(exact) + Cardinality(near)
<1>1. exact \subseteq Matches(query, query.max, Elements(query.places))
  BY DEF OnLadder, Top
<1>2. near \subseteq Matches(query, maximum, places) /\ exact \cap near = {}
  BY DEF OnLadder
<1>3. /\ exact \subseteq Inventory /\ near \subseteq Inventory
      /\ IsFiniteSet(exact) /\ IsFiniteSet(near)
      /\ Cardinality(exact) \in Nat /\ Cardinality(near) \in Nat
  BY <1>1, <1>2, MatchesFinite
<1>4. Cardinality(exact \cup near) = Cardinality(exact) + Cardinality(near)
  <2>1. Cardinality(exact \cap near) = 0
    BY <1>2, FS_EmptySet
  <2>2. Cardinality(exact \cup near)
          = Cardinality(exact) + Cardinality(near) - Cardinality(exact \cap near)
    BY <1>3, FS_Union
  <2>. QED
    BY <1>3, <2>1, <2>2
<1>. QED
  BY <1>1, <1>3, <1>4

\* Fewer exact matches than the least number of cards are all there are.
LEMMA ExactAreAll ==
    ASSUME OnLadder, Cardinality(exact) < MinResults
    PROVE  exact = Matches(query, query.max, Elements(query.places))
<1>1. Cardinality(exact) \in Nat /\ Cardinality(exact) < MaxResults
  BY Shown, LimitsAssumption
<1>2. Ranks(query)
  BY AcceptedRanks DEF OnLadder
<1>3. Matches(query, query.max, Elements(query.places)) \in SUBSET Inventory
  BY DEF Matches
<1>4. exact = Top(MaxResults, Matches(query, query.max, Elements(query.places)), query)
  BY DEF OnLadder
<1>. QED
  BY <1>1, <1>2, <1>3, <1>4, FewMeansAll, LimitsAssumption

\* Near matches that do not fill up to the least number of cards are all there are.
LEMMA NearAreAll ==
    ASSUME OnLadder, Cardinality(exact) < MinResults, NEW max, NEW where,
           ~ (Cardinality(exact) + Cardinality(Nearest(max, where)) >= MinResults)
    PROVE  exact \cup Nearest(max, where) = exact \cup Matches(query, max, where)
<1>. DEFINE homes == Matches(query, max, where) \ exact
            n == MinResults - Cardinality(exact)
<1>1. n \in Nat
  BY Shown, LimitsAssumption
<1>2. Ranks(query)
  BY AcceptedRanks DEF OnLadder
<1>3. homes \in SUBSET Inventory
  BY DEF Matches
<1>4. Nearest(max, where) = Top(n, homes, query)
  BY DEF Nearest
<1>5. Top(n, homes, query) \in SUBSET Matches(query, max, where)
  BY DEF Top
<1>6. Cardinality(Top(n, homes, query)) \in Nat
  BY <1>5, MatchesFinite
<1>7. Cardinality(Top(n, homes, query)) < n
  BY <1>1, <1>4, <1>6, Shown, LimitsAssumption
<1>. HIDE DEF homes, n
<1>8. Top(n, homes, query) = homes
  BY <1>1, <1>2, <1>3, <1>7, FewMeansAll
<1>. QED
  BY <1>4, <1>8 DEF homes

\* A raised budget keeps what matched before.
LEMMA CeilingKeeps ==
    ASSUME OnLadder, NEW where
    PROVE  Matches(query, query.max, where) \subseteq Matches(query, Ceiling, where)
<1>1. Ranks(query)
  BY AcceptedRanks DEF OnLadder
<1>2. CASE query.max = None
  BY <1>2 DEF Ceiling
<1>3. CASE query.max # None
  <2>1. query.max \in Int /\ Ceiling = Raised
    BY <1>1, <1>3 DEF Ranks, Ceiling
  <2>2. \A p \in Inventory :
          InBudget(p.price, query.min, query.max) => InBudget(p.price, query.min, Ceiling)
    <3>1. CASE query.max \in Nat
      BY <1>3, <2>1, <3>1, RaisedIsHigher, InventoryAssumption DEF InBudget
    <3>2. CASE query.max \notin Nat
      BY <1>3, <2>1, <3>2, InventoryAssumption DEF InBudget
    <3>. QED
      BY <3>1, <3>2
  <2>. QED
    BY <2>2 DEF Matches
<1>. QED
  BY <1>2, <1>3

\* The localities of both rungs together are the reachable ones.
LEMMA WidestIs ==
    ASSUME OnLadder
    PROVE  Widest = Matches(query, Ceiling, Elements(query.places) \cup Added)
<1>1. query.places \in Seq(Localities)
  BY AcceptedRanks DEF OnLadder, Ranks
<1>2. CASE query.places = <<>>
  <2>1. Elements(query.places) = {} /\ Added = {}
    BY <1>2 DEF Elements, Added
  <2>. QED
    BY <1>2, <2>1 DEF Widest, Reachable
<1>3. CASE query.places # <<>>
  <2>1. 1 \in DOMAIN query.places /\ Elements(query.places) # {}
    <3>1. Len(query.places) \in Nat /\ DOMAIN query.places = 1 .. Len(query.places)
      BY <1>1
    <3>2. Len(query.places) # 0
      BY <1>1, <1>3
    <3>3. 1 \in DOMAIN query.places
      BY <3>1, <3>2
    <3>4. query.places[1] \in Elements(query.places)
      BY <3>3 DEF Elements
    <3>. QED
      BY <3>3, <3>4
  <2>2. \A p \in Inventory : Reachable(p) <=> p.place \in Elements(query.places) \cup Added
    <3>. SUFFICES ASSUME NEW p \in Inventory
                  PROVE  Reachable(p) <=> p.place \in Elements(query.places) \cup Added
      OBVIOUS
    <3>1. p.place \in Localities
      BY InventoryAssumption
    <3>. QED
      BY <1>3, <3>1 DEF Reachable, Added, Elements
  <2>. QED
    BY <2>1, <2>2 DEF Widest, Matches
<1>. QED
  BY <1>2, <1>3

-------------------------------------------------------------------------------
(* One lemma per step.                                                     *)

\* Nothing is found before the first search.
LEMMA InvInit ==
    ASSUME Init
    PROVE  Inv
BY DEF Init, Inv, Blank, SoundIsSteered

\* Between two searches nothing is found.
LEMMA IdleIsBlank ==
    ASSUME Inv, pc = "idle"
    PROVE  Blank
BY DEF Inv

\* On a rung the search was accepted.
LEMMA RungIsOnLadder ==
    ASSUME Inv, pc \in {"budget", "locality", "answer", "answered"}
    PROVE  OnLadder
BY DEF Inv

\* A search that is refused finds nothing, nor one that raises among its arguments,
\* which then are not sound.
LEMMA InvAskFails ==
    ASSUME Inv, NEW q, AskFails(q)
    PROVE  Inv'
<1>1. Blank'
  BY IdleIsBlank DEF AskFails, Asks, Blank
<1>2. pc' \in {"refused", "thrown"}
  BY DEF AskFails, Accepted, Verdict
<1>3. pc' = "thrown" => ~Sound(query')
  BY DEF AskFails, Asks, Verdict, Sound, Overflows
<1>. QED
  BY <1>1, <1>2, <1>3 DEF Inv, SoundIsSteered

\* What raises on a rung has arguments that are not sound.
LEMMA InvThrows ==
    ASSUME Inv, OnLadder, Throws, ~Sound(query)
    PROVE  Inv'
<1>1. pc' = "thrown" /\ UNCHANGED search
  BY DEF Throws
<1>2. OnLadder'
  BY <1>1 DEF OnLadder, search, BudgetFirst, Ceiling, Raised, Added, Enough
<1>3. ~Sound(query')
  BY <1>1 DEF search
<1>. QED
  BY <1>1, <1>2, <1>3 DEF Inv, SoundIsSteered

\* The exact matches are the first thing found.
LEMMA InvAskMatches ==
    ASSUME Inv, NEW q \in Openings \cup Followups, AskMatches(q)
    PROVE  Inv'
<1>1. near' = {} /\ relaxed' = {}
  BY IdleIsBlank DEF AskMatches, Asks, Blank
<1>2. /\ query' = q /\ Accepted(q)
      /\ exact' = Top(MaxResults, Matches(q, q.max, Elements(q.places)), q)
      /\ maximum' = q.max /\ places' = Elements(q.places)
      /\ pc' = IF Cardinality(exact') < MinResults THEN "budget" ELSE "answer"
  BY DEF AskMatches, Asks
<1>3. Cardinality(exact') \in Nat
  <2>1. exact' \in SUBSET Matches(q, q.max, Elements(q.places))
    BY <1>2 DEF Top
  <2>. QED
    BY <2>1, MatchesFinite
<1>4. Cardinality(near') = 0
  BY <1>1, FS_EmptySet
<1>5. pc' = "answer" => Enough'
  BY <1>2, <1>3, <1>4, LimitsAssumption DEF Enough
<1>6. OnLadder'
  BY <1>1, <1>2, <1>5 DEF OnLadder, BudgetFirst
<1>. QED
  BY <1>2, <1>6 DEF Inv, SoundIsSteered

\* Without a budget there is nothing to raise.
LEMMA InvNoBudget ==
    ASSUME Inv, NoBudget
    PROVE  Inv'
<1>1. OnLadder
  BY RungIsOnLadder DEF NoBudget
<1>2. pc = "budget" /\ query.max = None /\ pc' = "locality" /\ UNCHANGED <<search, log>>
  BY DEF NoBudget
<1>3. near = {} /\ relaxed = {} /\ Cardinality(exact) < MinResults
  BY <1>1, <1>2 DEF OnLadder
<1>4. maximum = Ceiling /\ query.max = Ceiling /\ places = Elements(query.places)
  BY <1>1, <1>2, <1>3 DEF OnLadder, Ceiling
<1>5. exact \cup near = Matches(query, maximum, places)
  BY <1>1, <1>3, <1>4, ExactAreAll
<1>6. OnLadder'
  BY <1>1, <1>2, <1>3, <1>4, <1>5 DEF OnLadder, search, BudgetFirst, Ceiling, Raised, Added, Enough
<1>. QED
  BY <1>2, <1>6 DEF Inv, SoundIsSteered

\* The first rung: the near matches fit the raised budget.
LEMMA InvRaiseBudget ==
    ASSUME Inv, RaiseBudget
    PROVE  Inv'
<1>1. OnLadder
  BY RungIsOnLadder DEF RaiseBudget
<1>2. pc = "budget" /\ query.max # None
  BY DEF RaiseBudget
<1>3. near = {} /\ relaxed = {} /\ Cardinality(exact) < MinResults
  BY <1>1, <1>2 DEF OnLadder
<1>4. Ceiling = Raised /\ places = Elements(query.places)
  BY <1>1, <1>2, <1>3 DEF OnLadder, Ceiling
<1>6. CASE HasText(Raised) /\ ~Overflows(query, query.min, Raised, places)
  <2>a. /\ maximum' = Raised /\ near' = Nearest(Raised, places) /\ pc' = "locality"
        /\ relaxed' = relaxed \cup {"budget"}
        /\ UNCHANGED <<query, exact, places, log>>
    BY <1>6 DEF RaiseBudget
  <2>b. relaxed' = {"budget"} /\ maximum' = Ceiling
    BY <1>3, <1>4, <2>a
  <2>1. near' \subseteq Matches(query, Ceiling, places) \ exact
    BY <1>4, <2>a DEF Nearest, Top
  <2>2. Enough' \/ exact \cup near' = Matches(query, Ceiling, places)
    <3>. SUFFICES ASSUME ~Enough' PROVE exact \cup near' = Matches(query, Ceiling, places)
      OBVIOUS
    <3>1. ~ (Cardinality(exact) + Cardinality(Nearest(Ceiling, places)) >= MinResults)
      BY <1>4, <2>a DEF Enough
    <3>2. exact \cup near' = exact \cup Matches(query, Ceiling, places)
      BY <1>1, <1>3, <1>4, <2>a, <3>1, NearAreAll
    <3>3. exact \subseteq Matches(query, Ceiling, places)
      BY <1>1, <1>3, <1>4, ExactAreAll, CeilingKeeps
    <3>. QED
      BY <3>2, <3>3
  <2>3. OnLadder'
    BY <1>1, <1>2, <1>3, <1>4, <2>a, <2>b, <2>1, <2>2
       DEF OnLadder, BudgetFirst, Ceiling, Raised
  <2>. QED
    BY <2>a, <2>3 DEF Inv, SoundIsSteered
<1>7. CASE ~ (HasText(Raised) /\ ~Overflows(query, query.min, Raised, places))
  <2>1. Throws
    BY <1>7 DEF RaiseBudget
  <2>2. CASE ~HasText(Raised)
    <3>1. query.max \in Int
      BY <1>1, <1>2, AcceptedRanks DEF OnLadder, Ranks
    <3>2. ~ (query.max > 0)
      BY <2>2, <3>1, RaisedIsHigher DEF HasText
    <3>3. ~Sound(query)
      BY <1>2, <3>2 DEF Sound, BudgetHasText, HasText
    <3>. QED
      BY <1>1, <2>1, <3>3, InvThrows
  <2>3. CASE Overflows(query, query.min, Raised, places)
    <3>1. ~Sound(query)
      BY <2>3 DEF Sound, Overflows
    <3>. QED
      BY <1>1, <2>1, <3>1, InvThrows
  <2>. QED
    BY <1>7, <2>2, <2>3
<1>. QED
  BY <1>6, <1>7

\* The second rung is not needed, or there is no neighbour to widen to.
LEMMA InvKeepLocalities ==
    ASSUME Inv, KeepLocalities
    PROVE  Inv'
<1>1. OnLadder
  BY RungIsOnLadder DEF KeepLocalities
<1>2. pc = "locality" /\ pc' = "answer" /\ UNCHANGED <<search, log>> /\ (Enough \/ Added = {})
  BY DEF KeepLocalities
<1>3. Enough \/ exact \cup near = Widest
  <2>. SUFFICES ASSUME ~Enough PROVE exact \cup near = Widest
    OBVIOUS
  <2>1. exact \cup near = Matches(query, Ceiling, Elements(query.places))
    BY <1>1, <1>2 DEF OnLadder
  <2>2. Widest = Matches(query, Ceiling, Elements(query.places))
    BY <1>1, <1>2, WidestIs
  <2>. QED
    BY <2>1, <2>2
<1>4. Enough' = Enough /\ Widest' = Widest /\ BudgetFirst' = BudgetFirst
      /\ Ceiling' = Ceiling /\ Added' = Added
  BY <1>2 DEF search, Enough, Widest, Reachable, BudgetFirst, Ceiling, Raised, Added
<1>5. OnLadder'
  BY <1>1, <1>2, <1>3, <1>4 DEF OnLadder, search
<1>. QED
  BY <1>2, <1>5 DEF Inv, SoundIsSteered

\* The second rung: what is near now is near a stated locality.
LEMMA InvWidenLocalities ==
    ASSUME Inv, WidenLocalities
    PROVE  Inv'
<1>1. OnLadder
  BY RungIsOnLadder DEF WidenLocalities, WidensWith
<1>a. CASE Overflows(query, query.min, maximum, places \cup Added)
  <2>1. Throws /\ ~Sound(query)
    BY <1>a DEF WidenLocalities, WidensWith, Sound, Overflows
  <2>. QED
    BY <1>1, <2>1, InvThrows
<1>b. SUFFICES ASSUME ~Overflows(query, query.min, maximum, places \cup Added) PROVE Inv'
  BY <1>a
<1>2. /\ pc = "locality" /\ pc' = "answer" /\ ~Enough /\ Added # {}
      /\ places' = places \cup Added /\ relaxed' = relaxed \cup {"locality"}
      /\ near' = Nearest(maximum, places \cup Added)
      /\ UNCHANGED <<query, exact, maximum, log>>
  BY <1>b DEF WidenLocalities, WidensWith
<1>3. /\ Cardinality(exact) < MinResults /\ maximum = Ceiling
      /\ places = Elements(query.places)
      /\ exact \cup near = Matches(query, Ceiling, Elements(query.places))
  BY <1>1, <1>2 DEF OnLadder
<1>. DEFINE all == Matches(query, Ceiling, Elements(query.places) \cup Added)
<1>4. Elements(query.places) # {}
  BY <1>2 DEF Added, Elements
<1>5. exact \subseteq all
  BY <1>3, <1>4 DEF Matches
<1>6. near' \subseteq all \ exact
  BY <1>2, <1>3 DEF Nearest, Top
<1>7. Enough' \/ exact \cup near' = Widest
  <2>. SUFFICES ASSUME ~Enough' PROVE exact \cup near' = Widest
    OBVIOUS
  <2>1. near' = Nearest(Ceiling, Elements(query.places) \cup Added)
    BY <1>2, <1>3
  <2>2. ~ (Cardinality(exact)
             + Cardinality(Nearest(Ceiling, Elements(query.places) \cup Added)) >= MinResults)
    BY <1>2, <2>1 DEF Enough
  <2>3. exact \cup near' = exact \cup all
    BY <1>1, <1>3, <2>1, <2>2, NearAreAll
  <2>. QED
    BY <1>1, <1>5, <2>3, WidestIs
<1>8. BudgetFirst'
  <2>1. Cardinality(exact \cup near) < MinResults
    BY <1>1, <1>2, Shown, LimitsAssumption DEF Enough
  <2>. QED
    BY <1>2, <1>3, <2>1 DEF BudgetFirst, Ceiling, Raised
<1>9. Widest' = Widest /\ Ceiling' = Ceiling /\ Added' = Added
  BY <1>2 DEF Widest, Reachable, Ceiling, Raised, Added
<1>10. "budget" \in relaxed' <=> "budget" \in relaxed
  BY <1>2
<1>. HIDE DEF all
<1>11. OnLadder'
  <2>1. near' \subseteq Matches(query', maximum', places') \ exact'
    BY <1>2, <1>3, <1>6 DEF all
  <2>2. relaxed' \subseteq {"budget", "locality"} /\ "locality" \in relaxed'
    BY <1>1, <1>2 DEF OnLadder
  <2>3. maximum' = IF "budget" \in relaxed' THEN Ceiling' ELSE query'.max
    BY <1>1, <1>2, <1>9, <1>10 DEF OnLadder
  <2>4. /\ query' \in Openings \cup Followups /\ Accepted(query')
        /\ exact' = Top(MaxResults, Matches(query', query'.max, Elements(query'.places)), query')
    BY <1>1, <1>2 DEF OnLadder
  <2>5. Cardinality(exact') < MinResults /\ exact' = exact
    BY <1>2, <1>3
  <2>6. places' = Elements(query'.places) \cup Added'
    BY <1>2, <1>3, <1>9
  <2>. QED
    BY <1>2, <1>7, <1>8, <1>9, <2>1, <2>2, <2>3, <2>4, <2>5, <2>6 DEF OnLadder
<1>. QED
  BY <1>2, <1>11 DEF Inv, SoundIsSteered

\* A price that differs from the budget has a gap with a text.
LEMMA GapHasText ==
    ASSUME OnLadder, NEW p \in exact \cup near
    PROVE  FitHasText(p, query)
<1>1. p \in Inventory /\ query.max \in Int \cup {None}
  BY Shown, AcceptedRanks DEF OnLadder, Ranks
<1>2. p.price \in Nat
  BY <1>1, InventoryAssumption
<1>3. query.max \in Int /\ p.price # query.max => Distance(p.price, query.max) > 0
  BY <1>2 DEF Distance
<1>. QED
  BY <1>1, <1>3 DEF FitHasText, HasText

\* The answer is put in words, unless the arguments are not sound.
LEMMA InvAnswer ==
    ASSUME Inv, Answer
    PROVE  Inv'
<1>1. OnLadder
  BY RungIsOnLadder DEF Answer
<1>2. /\ pc = "answer" /\ pc' = (IF Presents THEN "answered" ELSE "thrown")
      /\ UNCHANGED <<search, log>>
  BY DEF Answer
<1>3. Enough' = Enough /\ Widest' = Widest /\ BudgetFirst' = BudgetFirst
      /\ Ceiling' = Ceiling /\ Added' = Added
  BY <1>2 DEF search, Enough, Widest, Reachable, BudgetFirst, Ceiling, Raised, Added
<1>4. OnLadder'
  BY <1>1, <1>2, <1>3 DEF OnLadder, search
<1>5. pc' = "thrown" => ~Sound(query')
  BY <1>1, <1>2, GapHasText DEF Presents, NoteOverflows, Overflows, Sound, search
<1>. QED
  BY <1>2, <1>4, <1>5 DEF Inv, SoundIsSteered

-------------------------------------------------------------------------------
(* The invariant, and the properties it gives.                             *)

\* Every step of a search keeps what the rungs have established.
LEMMA InvNext ==
    ASSUME Inv, [Next]_vars
    PROVE  Inv'
<1>1. CASE \E q \in Queries : AskFails(q) \/ AskMatches(q)
  <2>1. PICK q \in Queries : AskFails(q) \/ AskMatches(q)
    BY <1>1
  <2>2. q \in Openings \cup Followups
    BY DEF Queries
  <2>. QED
    BY <2>1, <2>2, InvAskFails, InvAskMatches
<1>2. CASE NoBudget
  BY <1>2, InvNoBudget
<1>3. CASE RaiseBudget
  BY <1>3, InvRaiseBudget
<1>4. CASE KeepLocalities
  BY <1>4, InvKeepLocalities
<1>5. CASE WidenLocalities
  BY <1>5, InvWidenLocalities
<1>6. CASE Answer
  BY <1>6, InvAnswer
<1>7. CASE Logged
  BY <1>7 DEF Logged, Inv, Blank, SoundIsSteered
<1>8. CASE UNCHANGED vars
  <2>1. Enough' = Enough /\ Widest' = Widest /\ BudgetFirst' = BudgetFirst
        /\ Ceiling' = Ceiling /\ Added' = Added
    BY <1>8 DEF vars, Enough, Widest, Reachable, BudgetFirst, Ceiling, Raised, Added
  <2>2. OnLadder' = OnLadder /\ Blank' = Blank
    BY <1>8, <2>1 DEF vars, OnLadder, Blank
  <2>. QED
    BY <1>8, <2>2 DEF vars, Inv, SoundIsSteered
<1>. QED
  BY <1>1, <1>2, <1>3, <1>4, <1>5, <1>6, <1>7, <1>8 DEF Next, Done

\* What each rung leaves, of every search of every conversation.
THEOREM SearchInvariance == Spec => []Inv
<1>1. Init => Inv
  BY InvInit
<1>2. Inv /\ [Next]_vars => Inv'
  BY InvNext
<1>. QED
  BY <1>1, <1>2, PTL DEF Spec

\* A near match that misses the budget was found on the first rung, and one in
\* another locality on the second.
LEMMA NearIsLabelled ==
    ASSUME OnLadder, NEW p \in near
    PROVE  /\ p \notin exact
           /\ ~ (InBudget(p.price, None, query.max) /\ Stated(p))
           /\ ~InBudget(p.price, None, query.max) => "budget" \in relaxed /\ p.price <= Raised
           /\ ~Stated(p) =>
                /\ "locality" \in relaxed
                /\ \E place \in Elements(query.places) : p.place \in Elements(Adjacent[place])
<1>1. /\ p \in Matches(query, maximum, places) /\ p \notin exact
      /\ Cardinality(exact) < MinResults
      /\ relaxed \subseteq {"budget", "locality"}
      /\ maximum = IF "budget" \in relaxed THEN Ceiling ELSE query.max
      /\ places = Elements(query.places) \cup IF "locality" \in relaxed THEN Added ELSE {}
  BY DEF OnLadder
<1>2. p \notin Matches(query, query.max, Elements(query.places))
  BY <1>1, ExactAreAll
<1>3. /\ p \in Inventory /\ InBudget(p.price, query.min, maximum)
      /\ query.bhk # None => p.bhk = query.bhk
      /\ InTime(p, query) /\ (places # {} => p.place \in places)
  BY <1>1 DEF Matches
<1>4. query.places \in Seq(Localities)
  BY AcceptedRanks DEF OnLadder, Ranks
<1>5. Elements(query.places) # {} <=> query.places # <<>>
  <2>1. CASE query.places = <<>>
    BY <2>1 DEF Elements
  <2>2. CASE query.places # <<>>
    <3>1. 1 \in DOMAIN query.places
      BY <1>4, <2>2
    <3>2. query.places[1] \in Elements(query.places)
      BY <3>1 DEF Elements
    <3>. QED
      BY <2>2, <3>2
  <2>. QED
    BY <2>1, <2>2
<1>6. ~ (InBudget(p.price, None, query.max) /\ Stated(p))
  <2>. SUFFICES ASSUME InBudget(p.price, None, query.max), Stated(p) PROVE FALSE
    OBVIOUS
  <2>1. InBudget(p.price, query.min, query.max)
    BY <1>3 DEF InBudget
  <2>2. Elements(query.places) # {} => p.place \in Elements(query.places)
    BY <1>5 DEF Stated
  <2>. QED
    BY <1>2, <1>3, <2>1, <2>2 DEF Matches
<1>7. ASSUME ~InBudget(p.price, None, query.max)
      PROVE  "budget" \in relaxed /\ p.price <= Raised
  <2>1. query.max # None /\ ~ (p.price <= query.max)
    BY <1>7 DEF InBudget
  <2>2. "budget" \in relaxed
    BY <1>1, <1>3, <2>1 DEF InBudget
  <2>3. maximum = Raised
    BY <1>1, <2>1, <2>2 DEF Ceiling
  <2>4. query.max \in Int
    BY <2>1, AcceptedRanks DEF OnLadder, Ranks
  <2>5. Raised # None
    BY <2>4, RaisedIsNumber, AbsentAssumption
  <2>. QED
    BY <1>3, <2>2, <2>3, <2>5 DEF InBudget
<1>8. ASSUME ~Stated(p)
      PROVE  /\ "locality" \in relaxed
             /\ \E place \in Elements(query.places) : p.place \in Elements(Adjacent[place])
  <2>1. query.places # <<>> /\ p.place \notin Elements(query.places)
    BY <1>8 DEF Stated
  <2>2. places # {} /\ p.place \in places
    BY <1>1, <1>3, <1>5, <2>1
  <2>3. "locality" \in relaxed /\ p.place \in Added
    BY <1>1, <2>1, <2>2
  <2>. QED
    BY <2>3 DEF Added, Elements
<1>. QED
  BY <1>1, <1>6, <1>7, <1>8

\* A card is what its label says, whatever the inventory and the request.
THEOREM CardsAreAsLabelled == Spec => []AsLabelled
<1>1. ASSUME Inv PROVE AsLabelled
  <2>1. CASE Blank
    BY <2>1 DEF Blank, AsLabelled
  <2>2. CASE OnLadder
    <3>1. exact \cap near = {}
      BY <2>2 DEF OnLadder
    <3>2. /\ exact \subseteq Matches(query, query.max, Elements(query.places))
          /\ near \subseteq Matches(query, maximum, places)
      BY <2>2, Shown DEF OnLadder
    <3>3. ASSUME NEW p \in exact \cup near
          PROVE  /\ query.bhk # None => p.bhk = query.bhk
                 /\ InBudget(p.price, query.min, None) /\ InTime(p, query)
      BY <3>2 DEF Matches, InBudget
    <3>4. ASSUME NEW p \in exact
          PROVE  InBudget(p.price, None, query.max) /\ Stated(p)
      <4>1. /\ InBudget(p.price, query.min, query.max)
            /\ Elements(query.places) # {} => p.place \in Elements(query.places)
        BY <3>2 DEF Matches
      <4>2. query.places \in Seq(Localities)
        BY <2>2, AcceptedRanks DEF OnLadder, Ranks
      <4>3. query.places # <<>> => Elements(query.places) # {}
        <5>. SUFFICES ASSUME query.places # <<>> PROVE Elements(query.places) # {}
          OBVIOUS
        <5>1. 1 \in DOMAIN query.places
          BY <4>2
        <5>2. query.places[1] \in Elements(query.places)
          BY <5>1 DEF Elements
        <5>. QED
          BY <5>2
      <4>. QED
        BY <4>1, <4>3 DEF InBudget, Stated
    <3>. QED
      BY <2>2, <3>1, <3>3, <3>4, NearIsLabelled DEF AsLabelled
  <2>. QED
    BY <1>1, <2>1, <2>2 DEF Inv
<1>. QED
  BY <1>1, SearchInvariance, PTL

\* No other locality while the raised budget gives three cards.
THEOREM BudgetComesFirst == Spec => []BudgetFirst
<1>1. ASSUME Inv PROVE BudgetFirst
  BY <1>1 DEF Inv, Blank, OnLadder, BudgetFirst
<1>. QED
  BY <1>1, SearchInvariance, PTL

\* A short answer is all that the widest criteria give.
THEOREM NothingIsWithheld == Spec => []NothingWithheld
<1>1. ASSUME Inv PROVE NothingWithheld
  <2>. SUFFICES ASSUME pc = "answered"
                PROVE  Cardinality(exact \cup near) >= MinResults \/ exact \cup near = Widest
    BY DEF NothingWithheld
  <2>1. OnLadder
    BY <1>1, RungIsOnLadder
  <2>2. Enough \/ exact \cup near = Widest
    BY <2>1 DEF OnLadder
  <2>. QED
    BY <2>1, <2>2, Shown DEF Enough
<1>. QED
  BY <1>1, SearchInvariance, PTL

\* With sound arguments no search raises, whatever the inventory and the vocabulary:
\* every error is one the model can read (tools.py 13-15).
THEOREM SoundArgumentsSteer == Spec => []SoundIsSteered
<1>1. Inv => SoundIsSteered
  BY DEF Inv
<1>. QED
  BY <1>1, SearchInvariance, PTL

-------------------------------------------------------------------------------
(***************************************************************************)
(* What the buyer is reminded of: the cards of an answer are homes, each   *)
(* once, and those of the newest answer come first.                        *)
(***************************************************************************)

\* A rank is a number below that of the homes.
LEMMA RankTyped ==
    ASSUME NEW q, Ranks(q), NEW homes \in SUBSET Inventory, NEW p \in homes
    PROVE  /\ IsFiniteSet(homes) /\ Cardinality(homes) \in Nat
           /\ Rank(p, homes, q) \in 0 .. Cardinality(homes) - 1
<1>. DEFINE before == {o \in homes : Below(Key(o, q), Key(p, q))}
<1>1. IsFiniteSet(homes) /\ Cardinality(homes) \in Nat
  BY InventoryAssumption, FS_Subset, FS_CardinalityType
<1>2. before \subseteq homes /\ p \in homes \ before
  BY KeyNumbers, BelowOrders
<1>3. IsFiniteSet(before) /\ Cardinality(before) \in Nat
  BY <1>1, <1>2, FS_Subset, FS_CardinalityType
<1>4. Cardinality(before) <= Cardinality(homes) /\ Cardinality(before) # Cardinality(homes)
  BY <1>1, <1>2, FS_Subset
<1>. QED
  BY <1>1, <1>3, <1>4 DEF Rank

\* Ids tell homes apart, and so do keys.
LEMMA KeysDiffer ==
    ASSUME NEW q, Ranks(q), NEW o \in Inventory, NEW p \in Inventory, o # p
    PROVE  Below(Key(o, q), Key(p, q)) \/ Below(Key(p, q), Key(o, q))
<1>. DEFINE k == Key(o, q)
            l == Key(p, q)
            apart == {i \in 1 .. 5 : k[i] # l[i]}
<1>1. Numbers(k) /\ Numbers(l)
  BY KeyNumbers
<1>2. k[5] = o.id /\ l[5] = p.id
  BY DEF Key
<1>3. 5 \in apart
  BY <1>2, InventoryAssumption
<1>. HIDE DEF k, l
<1>4. PICK i \in apart : \A j \in apart : i <= j
  BY <1>3, Least
<1>5. \A j \in 1 .. i - 1 : k[j] = l[j]
  BY <1>4
<1>6. k[i] \in Int /\ l[i] \in Int /\ i \in DOMAIN k /\ i \in DOMAIN l /\ k[i] # l[i]
  BY <1>1, <1>4 DEF Numbers
<1>7. Below(k, l) \/ Below(l, k)
  BY <1>5, <1>6 DEF Below
<1>. QED
  BY <1>7 DEF k, l

\* Different homes have different ranks.
LEMMA RanksDiffer ==
    ASSUME NEW q, Ranks(q), NEW homes \in SUBSET Inventory, NEW o \in homes, NEW p \in homes,
           Rank(o, homes, q) = Rank(p, homes, q)
    PROVE  o = p
<1>. SUFFICES ASSUME o # p PROVE FALSE
  OBVIOUS
<1>1. Rank(o, homes, q) \in Int /\ Rank(p, homes, q) \in Int
  BY RankTyped
<1>2. Below(Key(o, q), Key(p, q)) \/ Below(Key(p, q), Key(o, q))
  BY KeysDiffer
<1>3. Rank(o, homes, q) < Rank(p, homes, q) \/ Rank(p, homes, q) < Rank(o, homes, q)
  BY <1>2, RankGrows
<1>. QED
  BY <1>1, <1>3

\* The n best are no more than n.
LEMMA TopIsShort ==
    ASSUME NEW q, Ranks(q), NEW homes \in SUBSET Inventory, NEW n \in Nat
    PROVE  Cardinality(Top(n, homes, q)) <= n
<1>. DEFINE best == Top(n, homes, q)
            rank == [p \in best |-> Rank(p, homes, q)]
<1>1. best \subseteq homes /\ \A p \in best : Rank(p, homes, q) \in 0 .. n - 1
  BY RankTyped DEF Top
<1>2. rank \in [best -> 0 .. n - 1] /\ \A o, p \in best : rank[o] = rank[p] => o = p
  BY <1>1, RanksDiffer
<1>. HIDE DEF best, rank
<1>3. rank \in Injection(best, 0 .. n - 1)
  BY <1>2 DEF Injection, IsInjective
<1>4. IsFiniteSet(0 .. n - 1) /\ Cardinality(0 .. n - 1) = n
  BY FS_Interval
<1>5. Cardinality(best) <= n
  BY <1>3, <1>4, FS_Injection
<1>. QED
  BY <1>5 DEF best

\* Every rank is some home's.
LEMMA RanksTaken ==
    ASSUME NEW q, Ranks(q), NEW homes \in SUBSET Inventory
    PROVE  \A m \in 0 .. Cardinality(homes) - 1 : \E p \in homes : Rank(p, homes, q) = m
<1>. DEFINE n == Cardinality(homes)
            rank == [p \in homes |-> Rank(p, homes, q)]
<1>1. IsFiniteSet(homes) /\ n \in Nat
  BY InventoryAssumption, FS_Subset, FS_CardinalityType
<1>2. rank \in [homes -> 0 .. n - 1] /\ \A o, p \in homes : rank[o] = rank[p] => o = p
  BY RankTyped, RanksDiffer
<1>3. IsFiniteSet(0 .. n - 1) /\ Cardinality(0 .. n - 1) = n
  BY <1>1, FS_Interval
<1>. HIDE DEF rank
<1>4. rank \in Injection(homes, 0 .. n - 1)
  BY <1>2 DEF Injection, IsInjective
<1>5. rank \in Surjection(homes, 0 .. n - 1)
  BY <1>3, <1>4, FS_Injection
<1>6. \A m \in 0 .. n - 1 : \E p \in homes : rank[p] = m
  BY <1>5 DEF Surjection
<1>. QED
  BY <1>6 DEF rank

\* The cards are the ids of the homes, each once.
LEMMA ListedIs ==
    ASSUME NEW q, Ranks(q), NEW homes \in SUBSET Inventory
    PROVE  /\ Listed(homes, q) \in Seq(Nat) /\ Len(Listed(homes, q)) = Cardinality(homes)
           /\ DOMAIN Listed(homes, q) = 1 .. Cardinality(homes)
           /\ \A i \in DOMAIN Listed(homes, q) : \E p \in homes : Listed(homes, q)[i] = p.id
           /\ NoRepeats(Listed(homes, q))
<1>. DEFINE n == Cardinality(homes)
            at(i) == CHOOSE p \in homes : Rank(p, homes, q) = i - 1
<1>1. n \in Nat
  BY InventoryAssumption, FS_Subset, FS_CardinalityType
<1>2. \A i \in 1 .. n : at(i) \in homes /\ Rank(at(i), homes, q) = i - 1
  <2>. TAKE i \in 1 .. n
  <2>1. i - 1 \in 0 .. n - 1
    BY <1>1
  <2>. QED
    BY <2>1, RanksTaken
<1>3. Listed(homes, q) = [i \in 1 .. n |-> at(i).id]
  BY DEF Listed
<1>. HIDE DEF at, n
<1>4. \A i \in 1 .. n : at(i).id \in Nat
  BY <1>2, InventoryAssumption
<1>5. Listed(homes, q) \in Seq(Nat) /\ Len(Listed(homes, q)) = n
  BY <1>1, <1>3, <1>4, IsASeq, LenProperties
<1>6. \A i, j \in 1 .. n : at(i).id = at(j).id => i = j
  BY <1>2, InventoryAssumption
<1>7. NoRepeats(Listed(homes, q))
  BY <1>3, <1>6 DEF NoRepeats
<1>. QED
  BY <1>2, <1>3, <1>5, <1>7 DEF n

-------------------------------------------------------------------------------
(* The two loops of shown_properties, unfolded.                            *)

\* The loop over the cards of a row.
LEMMA AddingUnfolds ==
    ASSUME NEW old, NEW row, Len(row) \in Nat
    PROVE  \E upTo :
              /\ upTo[0] = old /\ Adding(old, row) = upTo[Len(row)]
              /\ \A i \in 1 .. Len(row) :
                    upTo[i] = IF row[i] \in Elements(upTo[i - 1]) THEN upTo[i - 1]
                              ELSE Append(upTo[i - 1], row[i])
<1>. DEFINE Step(g, i) == IF i = 0 THEN old
                          ELSE IF row[i] \in Elements(g[i - 1]) THEN g[i - 1]
                               ELSE Append(g[i - 1], row[i])
            Loop(n) == \E g : g = [i \in 0 .. n |-> Step(g, i)]
            stuck == {n \in 0 .. Len(row) : ~Loop(n)}
<1>1. ASSUME NEW n \in Nat, n = 0 \/ Loop(n - 1) PROVE Loop(n)
  <2>1. CASE n = 0
    <3>. DEFINE g == [i \in 0 .. n |-> old]
    <3>1. g = [i \in 0 .. n |-> Step(g, i)]
      BY <2>1
    <3>. QED
      BY <3>1
  <2>2. CASE n # 0
    <3>1. PICK g : g = [i \in 0 .. n - 1 |-> Step(g, i)]
      BY <1>1, <2>2
    <3>. DEFINE h == [i \in 0 .. n |-> IF i = n THEN Step(g, n) ELSE g[i]]
    <3>2. \A i \in 0 .. n - 1 : h[i] = g[i] /\ g[i] = Step(g, i)
      <4>. HIDE DEF Step
      <4>1. \A i \in 0 .. n - 1 : g[i] = Step(g, i)
        BY <3>1
      <4>. QED
        BY <4>1
    <3>3. \A i \in 0 .. n : h[i] = Step(h, i)
      <4>. SUFFICES ASSUME NEW i \in 0 .. n PROVE h[i] = Step(h, i)
        OBVIOUS
      <4>1. i = 0 \/ h[i - 1] = g[i - 1]
        BY <3>2
      <4>2. Step(h, i) = Step(g, i)
        BY <4>1
      <4>3. h[i] = Step(g, i)
        <5>. HIDE DEF Step
        <5>1. i \in 0 .. n - 1 \/ i = n
          OBVIOUS
        <5>. QED
          BY <3>2, <5>1
      <4>. QED
        BY <4>2, <4>3
    <3>4. h = [i \in 0 .. n |-> Step(h, i)]
      <4>. HIDE DEF Step
      <4>. QED
        BY <3>3
    <3>. QED
      BY <3>4
  <2>. QED
    BY <2>1, <2>2
<1>2. Loop(Len(row))
  <2>. HIDE DEF Loop
  <2>1. ASSUME stuck # {} PROVE FALSE
    <3>. stuck \subseteq Nat
      OBVIOUS
    <3>1. PICK n \in stuck : \A k \in stuck : n <= k
      <4>. HIDE DEF stuck
      <4>. QED
        BY <2>1, Least
    <3>2. n \in Nat /\ (n = 0 \/ n - 1 \notin stuck)
      BY <3>1
    <3>3. n = 0 \/ Loop(n - 1)
      BY <3>1, <3>2
    <3>. QED
      BY <1>1, <3>1, <3>2, <3>3
  <2>. QED
    BY <2>1
<1>. DEFINE upTo == CHOOSE g : g = [i \in 0 .. Len(row) |-> Step(g, i)]
<1>3. upTo = [i \in 0 .. Len(row) |-> Step(upTo, i)]
  BY <1>2
<1>4. Adding(old, row) = upTo[Len(row)]
  BY DEF Adding
<1>. HIDE DEF upTo
<1>5. \A i \in 0 .. Len(row) : upTo[i] = Step(upTo, i)
  <2>. HIDE DEF Step
  <2>. QED
    BY <1>3
<1>6. /\ upTo[0] = old
      /\ \A i \in 1 .. Len(row) :
            upTo[i] = IF row[i] \in Elements(upTo[i - 1]) THEN upTo[i - 1]
                      ELSE Append(upTo[i - 1], row[i])
  BY <1>5
<1>. QED
  BY <1>4, <1>6

\* The loop over the rows.
LEMMA SeenUnfolds ==
    ASSUME Len(log) \in Nat
    PROVE  /\ Seen[0] = <<>>
           /\ \A n \in 1 .. Len(log) :
                 Seen[n] = IF Len(Seen[n - 1]) >= ShownLimit THEN Seen[n - 1]
                           ELSE Adding(Seen[n - 1], Row(n))
<1>. DEFINE Step(g, i) == IF i = 0 THEN <<>>
                          ELSE IF Len(g[i - 1]) >= ShownLimit THEN g[i - 1]
                               ELSE Adding(g[i - 1], Row(i))
            Loop(n) == \E g : g = [i \in 0 .. n |-> Step(g, i)]
            stuck == {n \in 0 .. Len(log) : ~Loop(n)}
<1>1. ASSUME NEW n \in Nat, n = 0 \/ Loop(n - 1) PROVE Loop(n)
  <2>1. CASE n = 0
    <3>. DEFINE g == [i \in 0 .. n |-> <<>>]
    <3>1. g = [i \in 0 .. n |-> Step(g, i)]
      BY <2>1
    <3>. QED
      BY <3>1
  <2>2. CASE n # 0
    <3>1. PICK g : g = [i \in 0 .. n - 1 |-> Step(g, i)]
      BY <1>1, <2>2
    <3>. DEFINE h == [i \in 0 .. n |-> IF i = n THEN Step(g, n) ELSE g[i]]
    <3>2. \A i \in 0 .. n - 1 : h[i] = g[i] /\ g[i] = Step(g, i)
      <4>. HIDE DEF Step
      <4>1. \A i \in 0 .. n - 1 : g[i] = Step(g, i)
        BY <3>1
      <4>. QED
        BY <4>1
    <3>3. \A i \in 0 .. n : h[i] = Step(h, i)
      <4>. SUFFICES ASSUME NEW i \in 0 .. n PROVE h[i] = Step(h, i)
        OBVIOUS
      <4>1. i = 0 \/ h[i - 1] = g[i - 1]
        BY <3>2
      <4>2. Step(h, i) = Step(g, i)
        BY <4>1
      <4>3. h[i] = Step(g, i)
        <5>. HIDE DEF Step
        <5>1. i \in 0 .. n - 1 \/ i = n
          OBVIOUS
        <5>. QED
          BY <3>2, <5>1
      <4>. QED
        BY <4>2, <4>3
    <3>4. h = [i \in 0 .. n |-> Step(h, i)]
      <4>. HIDE DEF Step
      <4>. QED
        BY <3>3
    <3>. QED
      BY <3>4
  <2>. QED
    BY <2>1, <2>2
<1>2. Loop(Len(log))
  <2>. HIDE DEF Loop
  <2>1. ASSUME stuck # {} PROVE FALSE
    <3>. stuck \subseteq Nat
      OBVIOUS
    <3>1. PICK n \in stuck : \A k \in stuck : n <= k
      <4>. HIDE DEF stuck
      <4>. QED
        BY <2>1, Least
    <3>2. n \in Nat /\ (n = 0 \/ n - 1 \notin stuck)
      BY <3>1
    <3>3. n = 0 \/ Loop(n - 1)
      BY <3>1, <3>2
    <3>. QED
      BY <1>1, <3>1, <3>2, <3>3
  <2>. QED
    BY <2>1
<1>3. Seen = CHOOSE g : g = [i \in 0 .. Len(log) |-> Step(g, i)]
  BY DEF Seen
<1>4. Seen = [i \in 0 .. Len(log) |-> Step(Seen, i)]
  <2>. HIDE DEF Step
  <2>. QED
    BY <1>2, <1>3
<1>5. \A i \in 0 .. Len(log) : Seen[i] = Step(Seen, i)
  <2>. HIDE DEF Step
  <2>. QED
    BY <1>4
<1>. QED
  BY <1>5

\* Adding cards keeps those that are there.
LEMMA AddingKeeps ==
    ASSUME NEW S, NEW old \in Seq(S), NEW row \in Seq(S)
    PROVE  /\ Adding(old, row) \in Seq(S) /\ Len(old) <= Len(Adding(old, row))
           /\ \A i \in 1 .. Len(old) : Adding(old, row)[i] = old[i]
<1>1. Len(row) \in Nat /\ Len(old) \in Nat /\ \A i \in 1 .. Len(row) : row[i] \in S
  BY LenProperties, ElementOfSeq
<1>2. PICK upTo :
         /\ upTo[0] = old /\ Adding(old, row) = upTo[Len(row)]
         /\ \A i \in 1 .. Len(row) :
               upTo[i] = IF row[i] \in Elements(upTo[i - 1]) THEN upTo[i - 1]
                         ELSE Append(upTo[i - 1], row[i])
  BY <1>1, AddingUnfolds
<1>. DEFINE Kept(n) == /\ upTo[n] \in Seq(S) /\ Len(old) <= Len(upTo[n])
                       /\ \A i \in 1 .. Len(old) : upTo[n][i] = old[i]
            wrong == {n \in 0 .. Len(row) : ~Kept(n)}
<1>3. Kept(0)
  BY <1>1, <1>2
<1>4. ASSUME NEW n \in 1 .. Len(row), Kept(n - 1) PROVE Kept(n)
  <2>. DEFINE before == upTo[n - 1]
  <2>1. row[n] \in S /\ before \in Seq(S) /\ Len(old) <= Len(before) /\ Len(before) \in Nat
        /\ \A i \in 1 .. Len(old) : before[i] = old[i]
    BY <1>1, <1>4, LenProperties
  <2>2. upTo[n] = before \/ upTo[n] = Append(before, row[n])
    BY <1>2
  <2>. HIDE DEF before
  <2>3. CASE upTo[n] = before
    BY <2>1, <2>3
  <2>4. CASE upTo[n] = Append(before, row[n])
    <3>1. /\ Append(before, row[n]) \in Seq(S) /\ Len(Append(before, row[n])) = Len(before) + 1
          /\ \A i \in 1 .. Len(before) : Append(before, row[n])[i] = before[i]
      BY <2>1, AppendProperties
    <3>. QED
      BY <1>1, <2>1, <2>4, <3>1
  <2>. QED
    BY <2>2, <2>3, <2>4
<1>5. Kept(Len(row))
  <2>. HIDE DEF Kept
  <2>1. ASSUME wrong # {} PROVE FALSE
    <3>. wrong \subseteq Nat
      OBVIOUS
    <3>1. PICK n \in wrong : \A k \in wrong : n <= k
      <4>. HIDE DEF wrong
      <4>. QED
        BY <2>1, Least
    <3>2. n \in 1 .. Len(row) /\ n - 1 \notin wrong
      BY <1>3, <3>1
    <3>. QED
      BY <1>4, <3>1, <3>2
  <2>. QED
    BY <1>1, <2>1
<1>. QED
  BY <1>2, <1>5

\* The first cards are taken as they are.
LEMMA AddingToNone ==
    ASSUME NEW S, NEW row \in Seq(S), NoRepeats(row)
    PROVE  Adding(<<>>, row) = row
<1>1. /\ Len(row) \in Nat /\ DOMAIN row = 1 .. Len(row)
      /\ \A i \in 1 .. Len(row) : row[i] \in S
  BY LenProperties, ElementOfSeq
<1>2. PICK upTo :
         /\ upTo[0] = <<>> /\ Adding(<<>>, row) = upTo[Len(row)]
         /\ \A i \in 1 .. Len(row) :
               upTo[i] = IF row[i] \in Elements(upTo[i - 1]) THEN upTo[i - 1]
                         ELSE Append(upTo[i - 1], row[i])
  <2>1. ASSUME NEW old
        PROVE  \E upTo :
                  /\ upTo[0] = old /\ Adding(old, row) = upTo[Len(row)]
                  /\ \A i \in 1 .. Len(row) :
                        upTo[i] = IF row[i] \in Elements(upTo[i - 1]) THEN upTo[i - 1]
                                  ELSE Append(upTo[i - 1], row[i])
    BY <1>1, AddingUnfolds
  <2>. QED
    BY <2>1, Zenon
<1>. DEFINE Taken(n) == /\ upTo[n] \in Seq(S) /\ Len(upTo[n]) = n
                        /\ \A i \in 1 .. n : upTo[n][i] = row[i]
            wrong == {n \in 0 .. Len(row) : ~Taken(n)}
<1>3. Taken(0)
  BY <1>2, EmptySeq
<1>4. ASSUME NEW n \in 1 .. Len(row), Taken(n - 1) PROVE Taken(n)
  <2>. DEFINE before == upTo[n - 1]
  <2>1. /\ row[n] \in S /\ before \in Seq(S) /\ Len(before) = n - 1
        /\ DOMAIN before = 1 .. n - 1
        /\ \A i \in 1 .. n - 1 : before[i] = row[i]
    BY <1>1, <1>4, LenProperties
  <2>2. row[n] \notin Elements(before)
    BY <1>1, <2>1 DEF NoRepeats, Elements
  <2>3. upTo[n] = Append(before, row[n])
    BY <1>2, <2>2
  <2>. HIDE DEF before
  <2>4. /\ Append(before, row[n]) \in Seq(S) /\ Len(Append(before, row[n])) = Len(before) + 1
        /\ \A i \in 1 .. Len(before) : Append(before, row[n])[i] = before[i]
        /\ Append(before, row[n])[Len(before) + 1] = row[n]
    BY <2>1, AppendProperties
  <2>. QED
    BY <2>1, <2>3, <2>4
<1>5. Taken(Len(row))
  <2>. HIDE DEF Taken
  <2>1. ASSUME wrong # {} PROVE FALSE
    <3>. wrong \subseteq Nat
      OBVIOUS
    <3>1. PICK n \in wrong : \A k \in wrong : n <= k
      <4>. HIDE DEF wrong
      <4>. QED
        BY <2>1, Least
    <3>2. n \in 1 .. Len(row) /\ n - 1 \notin wrong
      BY <1>3, <3>1
    <3>. QED
      BY <1>4, <3>1, <3>2
  <2>. QED
    BY <1>1, <2>1
<1>6. upTo[Len(row)] = row
  BY <1>1, <1>5, SeqEqual
<1>. QED
  BY <1>2, <1>6

\* The cards of the newest answer are the first that are taken, and stay so.
LEMMA NewestFirst ==
    ASSUME LogFits
    PROVE  NewestShown
<1>. SUFFICES ASSUME NEW n \in DOMAIN log, log[n] # <<>>,
                     \A m \in DOMAIN log : m > n => log[m] = <<>>
              PROVE  SubSeq(ShownProperties, 1, Len(log[n])) = log[n]
  BY DEF NewestShown
<1>1. /\ Len(log) \in Nat /\ DOMAIN log = 1 .. Len(log)
      /\ \A m \in DOMAIN log : log[m] \in Seq(Nat)
  BY LenProperties, ElementOfSeq DEF LogFits
<1>. PICK cards, k : cards = log[n] /\ k = Len(log) + 1 - n
  OBVIOUS
<1>2. k \in 1 .. Len(log) /\ cards \in Seq(Nat) /\ NoRepeats(cards)
  BY <1>1 DEF LogFits
<1>3. Len(cards) \in Nat \ {0} /\ ShownLimit \in Nat /\ Len(cards) <= ShownLimit
  <2>1. Len(cards) \in Nat /\ Len(cards) # 0
    BY <1>2, LenProperties, EmptySeq
  <2>2. Len(cards) <= MaxResults
    BY DEF LogFits
  <2>. QED
    BY <2>1, <2>2, LimitsAssumption
<1>4. /\ Row(k) = cards
      /\ \A m \in 1 .. k - 1 : Row(m) = <<>>
      /\ \A m \in 1 .. Len(log) : Row(m) \in Seq(Nat)
  <2>1. \A m \in 1 .. Len(log) : Len(log) + 1 - m \in DOMAIN log
    BY <1>1
  <2>2. \A m \in 1 .. k - 1 : Len(log) + 1 - m \in DOMAIN log /\ Len(log) + 1 - m > n
    BY <1>1, <1>2
  <2>3. Len(log) + 1 - k = n
    BY <1>1
  <2>4. Row(k) = cards
    BY <2>3 DEF Row
  <2>5. \A m \in 1 .. k - 1 : Row(m) = <<>>
    BY <2>2 DEF Row
  <2>6. \A m \in 1 .. Len(log) : Row(m) \in Seq(Nat)
    BY <1>1, <2>1 DEF Row
  <2>. QED
    BY <2>4, <2>5, <2>6
<1>5. /\ Seen[0] = <<>>
      /\ \A m \in 1 .. Len(log) :
            Seen[m] = IF Len(Seen[m - 1]) >= ShownLimit THEN Seen[m - 1]
                      ELSE Adding(Seen[m - 1], Row(m))
  BY <1>1, SeenUnfolds
<1>6. Len(<<>>) = 0 /\ <<>> \in Seq(Nat) /\ NoRepeats(<<>>)
  BY EmptySeq DEF NoRepeats
<1>7. \A m \in 0 .. k - 1 : Seen[m] = <<>>
  <2>. DEFINE wrong == {m \in 0 .. k - 1 : Seen[m] # <<>>}
  <2>1. ASSUME wrong # {} PROVE FALSE
    <3>. wrong \subseteq Nat
      OBVIOUS
    <3>1. PICK m \in wrong : \A l \in wrong : m <= l
      <4>. HIDE DEF wrong
      <4>. QED
        BY <2>1, Least
    <3>2. m \in 1 .. k - 1 /\ m - 1 \notin wrong /\ m \in 1 .. Len(log)
      BY <1>2, <1>5, <3>1
    <3>3. Seen[m - 1] = <<>> /\ Row(m) = <<>>
      BY <1>4, <3>2
    <3>4. Seen[m] = Adding(Seen[m - 1], Row(m))
      <4>1. ~ (Len(Seen[m - 1]) >= ShownLimit)
        BY <1>3, <1>6, <3>3
      <4>. QED
        BY <1>5, <3>2, <4>1
    <3>5. Adding(<<>>, <<>>) = <<>>
      BY <1>6, AddingToNone
    <3>. QED
      BY <3>1, <3>3, <3>4, <3>5
  <2>. QED
    BY <2>1
<1>8. Seen[k] = cards
  <2>1. Seen[k - 1] = <<>>
    BY <1>2, <1>7
  <2>2. ~ (Len(Seen[k - 1]) >= ShownLimit)
    BY <1>3, <1>6, <2>1
  <2>3. Seen[k] = Adding(<<>>, cards)
    BY <1>2, <1>4, <1>5, <2>1, <2>2
  <2>. QED
    BY <1>2, <2>3, AddingToNone
<1>. DEFINE Kept(m) == /\ Seen[m] \in Seq(Nat) /\ Len(cards) <= Len(Seen[m])
                       /\ \A i \in 1 .. Len(cards) : Seen[m][i] = cards[i]
<1>9. Kept(k)
  BY <1>2, <1>3, <1>8
<1>10. ASSUME NEW m \in k + 1 .. Len(log), Kept(m - 1) PROVE Kept(m)
  <2>1. m \in 1 .. Len(log) /\ Row(m) \in Seq(Nat)
    BY <1>2, <1>4
  <2>2. CASE Seen[m] = Seen[m - 1]
    BY <1>10, <2>2
  <2>3. CASE Seen[m] = Adding(Seen[m - 1], Row(m))
    <3>a. PICK old, new : old = Seen[m - 1] /\ new = Seen[m]
      OBVIOUS
    <3>1. /\ old \in Seq(Nat) /\ Len(cards) <= Len(old) /\ Len(old) \in Nat
          /\ \A i \in 1 .. Len(cards) : old[i] = cards[i]
      BY <1>10, <3>a, LenProperties
    <3>2. /\ new \in Seq(Nat) /\ Len(old) <= Len(new) /\ Len(new) \in Nat
          /\ \A i \in 1 .. Len(old) : new[i] = old[i]
      <4>a. PICK row : row = Row(m)
        OBVIOUS
      <4>1. new = Adding(old, row) /\ row \in Seq(Nat)
        BY <2>1, <2>3, <3>a, <4>a
      <4>2. /\ new \in Seq(Nat) /\ Len(old) <= Len(new)
            /\ \A i \in 1 .. Len(old) : new[i] = old[i]
        BY <3>1, <4>1, AddingKeeps
      <4>. QED
        BY <4>2, LenProperties
    <3>3. \A i \in 1 .. Len(cards) : new[i] = cards[i]
      <4>1. \A i \in 1 .. Len(cards) : i \in 1 .. Len(old)
        BY <1>3, <3>1
      <4>. QED
        BY <3>1, <3>2, <4>1
    <3>. QED
      BY <1>3, <3>a, <3>1, <3>2, <3>3
  <2>. QED
    BY <1>5, <2>1, <2>2, <2>3
<1>11. Kept(Len(log))
  <2>. DEFINE wrong == {m \in k .. Len(log) : ~Kept(m)}
  <2>. HIDE DEF Kept
  <2>1. ASSUME wrong # {} PROVE FALSE
    <3>. wrong \subseteq Nat
      BY <1>2
    <3>1. PICK m \in wrong : \A l \in wrong : m <= l
      <4>. HIDE DEF wrong
      <4>. QED
        BY <2>1, Least
    <3>2. m \in k + 1 .. Len(log) /\ m - 1 \notin wrong /\ m - 1 \in k .. Len(log)
      BY <1>2, <1>9, <3>1
    <3>. QED
      BY <1>10, <3>1, <3>2
  <2>. QED
    BY <1>1, <1>2, <2>1
<1>a. PICK all : all = Seen[Len(log)]
  OBVIOUS
<1>b. PICK size : size = IF Len(all) < ShownLimit THEN Len(all) ELSE ShownLimit
  OBVIOUS
<1>12. /\ all \in Seq(Nat) /\ Len(all) \in Nat /\ Len(cards) <= Len(all)
       /\ \A i \in 1 .. Len(cards) : all[i] = cards[i]
  BY <1>a, <1>11, LenProperties
<1>13. size \in Nat /\ Len(cards) <= size /\ size <= Len(all)
  BY <1>b, <1>3, <1>12
<1>c. PICK shown : shown = SubSeq(all, 1, size)
  OBVIOUS
<1>14. shown \in Seq(Nat) /\ Len(shown) = size /\ \A i \in 1 .. size : shown[i] = all[i]
  <2>1. \A i \in 1 .. size : all[i] \in Nat
    BY <1>12, <1>13, ElementOfSeq
  <2>2. /\ shown \in Seq(Nat) /\ Len(shown) = IF 1 <= size THEN size - 1 + 1 ELSE 0
        /\ \A i \in 1 .. size - 1 + 1 : shown[i] = all[1 + i - 1]
    BY <1>c, <1>13, <2>1, SubSeqProperties
  <2>. QED
    BY <1>13, <2>2
<1>d. PICK first : first = SubSeq(shown, 1, Len(cards))
  OBVIOUS
<1>15. /\ first \in Seq(Nat) /\ Len(first) = Len(cards)
       /\ \A i \in 1 .. Len(cards) : first[i] = shown[i]
  <2>1. \A i \in 1 .. Len(cards) : i \in 1 .. size /\ shown[i] \in Nat
    BY <1>3, <1>13, <1>14, ElementOfSeq
  <2>2. /\ first \in Seq(Nat)
        /\ Len(first) = IF 1 <= Len(cards) THEN Len(cards) - 1 + 1 ELSE 0
        /\ \A i \in 1 .. Len(cards) - 1 + 1 : first[i] = shown[1 + i - 1]
    BY <1>d, <1>3, <2>1, SubSeqProperties
  <2>. QED
    BY <1>3, <2>2
<1>16. first = cards
  <2>1. \A i \in 1 .. Len(cards) : first[i] = cards[i]
    <3>1. \A i \in 1 .. Len(cards) : i \in 1 .. size
      BY <1>3, <1>13
    <3>. QED
      BY <1>12, <1>14, <1>15, <3>1
  <2>. QED
    BY <1>2, <1>15, <2>1, SeqEqual
<1>. QED
  BY <1>a, <1>b, <1>c, <1>d, <1>16 DEF ShownProperties

\* What a rung finds fills up to the least number of cards.
LEMMA NearestFits ==
    ASSUME OnLadder, Cardinality(exact) < MinResults, NEW max, NEW where
    PROVE  Cardinality(exact) + Cardinality(Nearest(max, where)) <= MinResults
<1>. DEFINE homes == Matches(query, max, where) \ exact
            n == MinResults - Cardinality(exact)
<1>1. Ranks(query) /\ homes \in SUBSET Inventory
  BY AcceptedRanks DEF OnLadder, Matches
<1>2. n \in Nat /\ Cardinality(exact) \in Nat /\ MinResults \in Nat
  BY Shown, LimitsAssumption
<1>. HIDE DEF homes
<1>3. Top(n, homes, query) \in SUBSET homes
  BY DEF Top
<1>4. Cardinality(Top(n, homes, query)) \in Nat
  BY <1>3, MatchesFinite DEF homes
<1>5. Cardinality(Top(n, homes, query)) <= n
  BY <1>1, <1>2, TopIsShort
<1>. QED
  BY <1>2, <1>4, <1>5 DEF Nearest, homes

\* Two lists that repeat nothing and share nothing make one that repeats nothing.
LEMMA JoinedApart ==
    ASSUME NEW s \in Seq(Nat), NEW t \in Seq(Nat), NoRepeats(s), NoRepeats(t),
           \A i \in 1 .. Len(s), j \in 1 .. Len(t) : s[i] # t[j]
    PROVE  s \o t \in Seq(Nat) /\ Len(s \o t) = Len(s) + Len(t) /\ NoRepeats(s \o t)
<1>. DEFINE both == s \o t
<1>1. Len(s) \in Nat /\ Len(t) \in Nat /\ DOMAIN s = 1 .. Len(s) /\ DOMAIN t = 1 .. Len(t)
  BY LenProperties
<1>2. /\ both \in Seq(Nat) /\ Len(both) = Len(s) + Len(t)
      /\ \A i \in 1 .. Len(s) + Len(t) :
            both[i] = IF i <= Len(s) THEN s[i] ELSE t[i - Len(s)]
  BY ConcatProperties
<1>3. DOMAIN both = 1 .. Len(s) + Len(t)
  <2>. HIDE DEF both
  <2>. QED
    BY <1>2, LenProperties
<1>. HIDE DEF both
<1>4. ASSUME NEW i \in 1 .. Len(s) + Len(t), NEW j \in 1 .. Len(s) + Len(t), both[i] = both[j]
      PROVE  i = j
  <2>1. CASE i <= Len(s) /\ j <= Len(s)
    <3>1. i \in DOMAIN s /\ j \in DOMAIN s /\ s[i] = s[j]
      BY <1>1, <1>2, <1>4, <2>1
    <3>. QED
      BY <3>1 DEF NoRepeats
  <2>2. CASE i <= Len(s) /\ ~ (j <= Len(s))
    <3>1. i \in 1 .. Len(s) /\ j - Len(s) \in 1 .. Len(t)
      BY <1>1, <2>2
    <3>. QED
      BY <1>2, <1>4, <2>2, <3>1
  <2>3. CASE ~ (i <= Len(s)) /\ j <= Len(s)
    <3>1. j \in 1 .. Len(s) /\ i - Len(s) \in 1 .. Len(t)
      BY <1>1, <2>3
    <3>. QED
      BY <1>2, <1>4, <2>3, <3>1
  <2>4. CASE ~ (i <= Len(s)) /\ ~ (j <= Len(s))
    <3>1. i - Len(s) \in DOMAIN t /\ j - Len(s) \in DOMAIN t
      BY <1>1, <2>4
    <3>2. t[i - Len(s)] = t[j - Len(s)]
      BY <1>2, <1>4, <2>4
    <3>3. i - Len(s) = j - Len(s)
      BY <3>1, <3>2 DEF NoRepeats
    <3>. QED
      BY <1>1, <3>3
  <2>. QED
    BY <2>1, <2>2, <2>3, <2>4
<1>5. NoRepeats(both)
  BY <1>3, <1>4 DEF NoRepeats
<1>. QED
  BY <1>2, <1>5 DEF both

\* The cards of an answer are at most five, and no home is among them twice.
LEMMA CardsFit ==
    ASSUME OnLadder, NearFits
    PROVE  LET cards == Listed(exact, query) \o Listed(near, query)
           IN  cards \in Seq(Nat) /\ Len(cards) <= MaxResults /\ NoRepeats(cards)
<1>. DEFINE first == Listed(exact, query)
            second == Listed(near, query)
<1>1. Ranks(query) /\ exact \in SUBSET Inventory /\ near \in SUBSET Inventory
      /\ exact \cap near = {}
  BY AcceptedRanks, Shown DEF OnLadder
<1>2. Cardinality(exact) \in Nat /\ Cardinality(near) \in Nat
  BY Shown
<1>3. /\ first \in Seq(Nat) /\ Len(first) = Cardinality(exact) /\ NoRepeats(first)
      /\ DOMAIN first = 1 .. Len(first) /\ \A i \in DOMAIN first : \E p \in exact : first[i] = p.id
  BY <1>1, ListedIs
<1>4. /\ second \in Seq(Nat) /\ Len(second) = Cardinality(near) /\ NoRepeats(second)
      /\ DOMAIN second = 1 .. Len(second) /\ \A i \in DOMAIN second : \E p \in near : second[i] = p.id
  BY <1>1, ListedIs
<1>. HIDE DEF first, second
<1>5. \A i \in 1 .. Len(first), j \in 1 .. Len(second) : first[i] # second[j]
  <2>. TAKE i \in 1 .. Len(first), j \in 1 .. Len(second)
  <2>1. PICK o \in exact, p \in near : first[i] = o.id /\ second[j] = p.id
    BY <1>3, <1>4
  <2>2. o \in Inventory /\ p \in Inventory /\ o # p
    BY <1>1
  <2>. QED
    BY <2>1, <2>2, InventoryAssumption
<1>6. Cardinality(exact) + Cardinality(near) <= MaxResults
  <2>1. Cardinality(exact) <= MaxResults
    <3>1. Matches(query, query.max, Elements(query.places)) \in SUBSET Inventory
      BY DEF Matches
    <3>. QED
      BY <1>1, <3>1, TopIsShort, LimitsAssumption DEF OnLadder
  <2>2. CASE near = {}
    BY <1>2, <2>1, <2>2, FS_EmptySet
  <2>3. CASE near # {}
    BY <1>2, <2>3, LimitsAssumption DEF NearFits
  <2>. QED
    BY <2>2, <2>3
<1>7. /\ first \o second \in Seq(Nat) /\ Len(first \o second) = Len(first) + Len(second)
      /\ NoRepeats(first \o second)
  BY <1>3, <1>4, <1>5, JoinedApart
<1>. QED
  BY <1>3, <1>4, <1>6, <1>7 DEF first, second

\* The searches of a conversation and the one at hand keep their sizes.
LEMMA FitsStep ==
    ASSUME Inv, LogFits, NearFits, [Next]_vars
    PROVE  LogFits' /\ NearFits'
<1>1. CASE \E q \in Queries : AskFails(q) \/ AskMatches(q)
  <2>1. UNCHANGED <<near, log>> /\ pc = "idle"
    BY <1>1 DEF AskFails, AskMatches, Asks
  <2>2. near = {}
    BY <2>1, IdleIsBlank DEF Blank
  <2>. QED
    BY <2>1, <2>2 DEF LogFits, NearFits
<1>2. CASE UNCHANGED <<exact, near, log>>
  BY <1>2 DEF LogFits, NearFits
<1>3. CASE RaiseBudget
  <2>1. OnLadder /\ Cardinality(exact) < MinResults
    BY <1>3, RungIsOnLadder DEF RaiseBudget, OnLadder
  <2>2. UNCHANGED <<exact, log>> /\ (near' = near \/ near' = Nearest(Raised, places))
    BY <1>3 DEF RaiseBudget, Throws, search
  <2>3. Cardinality(exact) + Cardinality(Nearest(Raised, places)) <= MinResults
    BY <2>1, NearestFits
  <2>. QED
    BY <2>2, <2>3 DEF LogFits, NearFits
<1>4. CASE WidenLocalities
  <2>1. OnLadder /\ Cardinality(exact) < MinResults
    BY <1>4, RungIsOnLadder DEF WidenLocalities, WidensWith, OnLadder
  <2>2. UNCHANGED <<exact, log>>
        /\ (near' = near \/ near' = Nearest(maximum, places \cup Added))
    BY <1>4 DEF WidenLocalities, WidensWith, Throws, search
  <2>3. Cardinality(exact) + Cardinality(Nearest(maximum, places \cup Added)) <= MinResults
    BY <2>1, NearestFits
  <2>. QED
    BY <2>2, <2>3 DEF LogFits, NearFits
<1>5. CASE Logged
  <2>1. log' = Append(log, Cards) /\ near' = {}
    BY <1>5 DEF Logged
  <2>2. Cards \in Seq(Nat) /\ Len(Cards) <= MaxResults /\ NoRepeats(Cards)
    <3>1. CASE pc = "answered"
      BY <3>1, RungIsOnLadder, CardsFit DEF Cards
    <3>2. CASE pc # "answered"
      BY <3>2, EmptySeq, LimitsAssumption DEF Cards, NoRepeats
    <3>. QED
      BY <3>1, <3>2
  <2>. PICK cards : cards = Cards
    OBVIOUS
  <2>3. /\ log' \in Seq(Seq(Nat)) /\ DOMAIN log' = 1 .. Len(log) + 1
        /\ Len(log) \in Nat /\ DOMAIN log = 1 .. Len(log)
        /\ \A n \in 1 .. Len(log) : log'[n] = log[n]
        /\ log'[Len(log) + 1] = cards
    <3>1. log \in Seq(Seq(Nat)) /\ cards \in Seq(Nat) /\ log' = Append(log, cards)
      BY <2>1, <2>2 DEF LogFits
    <3>. QED
      BY <3>1, AppendProperties, LenProperties
  <2>4. \A n \in DOMAIN log' : Len(log'[n]) <= MaxResults /\ NoRepeats(log'[n])
    <3>. SUFFICES ASSUME NEW n \in 1 .. Len(log) + 1
                  PROVE  Len(log'[n]) <= MaxResults /\ NoRepeats(log'[n])
      BY <2>3
    <3>1. CASE n \in 1 .. Len(log)
      BY <2>3, <3>1 DEF LogFits
    <3>2. CASE n = Len(log) + 1
      BY <2>2, <2>3, <3>2
    <3>. QED
      BY <2>3, <3>1, <3>2
  <2>. QED
    BY <2>1, <2>3, <2>4 DEF LogFits, NearFits
<1>. QED
  BY <1>1, <1>2, <1>3, <1>4, <1>5
     DEF Next, NoBudget, KeepLocalities, Answer, Done, vars, search

\* However many searches came before or failed since, what a later turn is reminded
\* of begins with the cards of the newest answer, all of them and in their order
\* (agent.py 187-220).
THEOREM NewestIsShown == Spec => []NewestShown
<1>1. Init => Inv /\ LogFits /\ NearFits
  <2>. SUFFICES ASSUME Init PROVE LogFits /\ NearFits
    BY InvInit
  <2>. QED
    BY EmptySeq DEF Init, LogFits, NearFits
<1>2. Inv /\ LogFits /\ NearFits /\ [Next]_vars => (Inv /\ LogFits /\ NearFits)'
  BY InvNext, FitsStep
<1>3. LogFits => NewestShown
  BY NewestFirst
<1>. QED
  BY <1>1, <1>2, <1>3, PTL DEF Spec
===============================================================================
