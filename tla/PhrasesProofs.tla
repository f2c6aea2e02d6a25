----------------------------- MODULE PhrasesProofs -----------------------------
(***************************************************************************)
(* What is displayed reads back, what passes the guard stands in the       *)
(* sources, and one worker means one: for amounts of any size, texts and   *)
(* command lines of any length.                                            *)
(***************************************************************************)
EXTENDS Phrases, FiniteSetTheorems, SequenceTheorems, WellFoundedInduction, TLAPS

\* A set of natural numbers has a least one.
LEMMA Least ==
    ASSUME NEW T, T \subseteq Nat, T # {}
    PROVE  \E x \in T : \A y \in T : x <= y
<1>. DEFINE R == OpToRel(<, Nat)
<1>1. IsWellFoundedOn(R, Nat)
  BY NatLessThanWellFounded
<1>2. ASSUME NEW x \in Nat, NEW y \in Nat, x < y
      PROVE  <<x, y>> \in R
  BY <1>2, Zenon DEF OpToRel
<1>. HIDE DEF R
<1>3. PICK x \in T : \A y \in T : ~ (<<y, x>> \in R)
  BY <1>1, WFMin
<1>4. ASSUME NEW y \in T PROVE x <= y
  <2>1. x \in Nat /\ y \in Nat
    BY <1>3
  <2>2. ~ (y < x)
    BY <1>2, <1>3, <2>1
  <2>. QED
    BY <2>1, <2>2
<1>. QED
  BY <1>3, <1>4

\* A finite set of natural numbers has a greatest one.
LEMMA Greatest ==
    ASSUME NEW T, NEW n \in Nat, T \subseteq 0 .. n, T # {}
    PROVE  \E x \in T : \A y \in T : y <= x
<1>. DEFINE mirror == {n - x : x \in T}
<1>1. mirror \subseteq Nat /\ mirror # {}
  <2>1. \A x \in T : n - x \in Nat
    OBVIOUS
  <2>. QED
    BY <2>1
<1>2. \E x \in mirror : \A y \in mirror : x <= y
  <2>. HIDE DEF mirror
  <2>. QED
    BY <1>1, Least
<1>3. PICK x \in T : \A y \in T : n - x <= n - y
  BY <1>2
<1>4. ASSUME NEW y \in T PROVE y <= x
  <2>1. x \in 0 .. n /\ y \in 0 .. n /\ n - x <= n - y
    BY <1>3
  <2>. QED
    BY <2>1
<1>. QED
  BY <1>4

\* A sequence of bounded length is a sequence.
LEMMA BoundedSeqIs ==
    ASSUME NEW S, NEW n \in Nat, NEW s \in BoundedSeq(S, n)
    PROVE  s \in Seq(S) /\ Len(s) \in Nat /\ DOMAIN s = 1 .. Len(s)
<1>1. PICK m \in 0 .. n : s \in [1 .. m -> S]
  BY DEF BoundedSeq, SeqOf
<1>2. s \in Seq(S)
  BY <1>1
<1>. QED
  BY <1>2, LenProperties

-------------------------------------------------------------------------------
(* Display.                                                                *)

\* The texts of an amount, in numbers.
LEMMA PriceIs ==
    ASSUME NEW a \in Nat \ {0}
    PROVE  /\ IsCrore(a) <=> a >= 9999500
           /\ price_display(a) = IF a >= 9999500
                                 THEN [unit |-> 10000000, hundredths |-> (2 * a + 100000) \div 200000]
                                 ELSE [unit |-> 100000, hundredths |-> (2 * a + 1000) \div 2000]
<1>1. Hundredths(a, LAKH) = (2 * a + 1000) \div 2000
  BY DEF Hundredths, HalfUp, LAKH
<1>2. Hundredths(a, CRORE) = (2 * a + 100000) \div 200000
  BY DEF Hundredths, HalfUp, CRORE
<1>3. IsCrore(a) <=> a >= 9999500
  BY <1>1 DEF IsCrore
<1>. QED
  BY <1>1, <1>2, <1>3 DEF price_display, Text, LAKH, CRORE

\* What an amount is read as.
LEMMA ReadingIs ==
    ASSUME NEW a \in Nat \ {0}
    PROVE  Reading(price_display(a)) = IF a >= 9999500
                                       THEN ((2 * a + 100000) \div 200000) * 100000
                                       ELSE ((2 * a + 1000) \div 2000) * 1000
<1>1. CASE a >= 9999500
  <2>1. price_display(a).unit = 10000000
        /\ price_display(a).hundredths = (2 * a + 100000) \div 200000
    BY <1>1, PriceIs
  <2>. QED
    BY <1>1, <2>1 DEF Reading
<1>2. CASE ~ (a >= 9999500)
  <2>1. price_display(a).unit = 100000
        /\ price_display(a).hundredths = (2 * a + 1000) \div 2000
    BY <1>2, PriceIs
  <2>. QED
    BY <1>2, <2>1 DEF Reading
<1>. QED
  BY <1>1, <1>2

\* Amounts are read in their order, and to half a hundredth of their unit.
LEMMA PricesAreRead ==
    ASSUME NEW a \in Nat \ {0}, NEW b \in Nat \ {0}
    PROVE  LET miss == Reading(price_display(a)) - a
           IN  /\ a <= b => Reading(price_display(a)) <= Reading(price_display(b))
               /\ 200 * (IF miss < 0 THEN -miss ELSE miss) <= price_display(a).unit
<1>. DEFINE miss == Reading(price_display(a)) - a
<1>1. ASSUME a <= b PROVE Reading(price_display(a)) <= Reading(price_display(b))
  BY <1>1, ReadingIs
<1>2. CASE a >= 9999500
  <2>1. price_display(a).unit = 10000000
    BY <1>2, PriceIs
  <2>2. miss = ((2 * a + 100000) \div 200000) * 100000 - a
    BY <1>2, ReadingIs
  <2>. QED
    BY <1>1, <2>1, <2>2
<1>3. CASE ~ (a >= 9999500)
  <2>1. price_display(a).unit = 100000
    BY <1>3, PriceIs
  <2>2. miss = ((2 * a + 1000) \div 2000) * 1000 - a
    BY <1>3, ReadingIs
  <2>. QED
    BY <1>1, <2>1, <2>2
<1>. QED
  BY <1>2, <1>3

\* A reading has one text: what reads below a hundred lakh is written in lakh.
LEMMA ReadingsHaveOneText ==
    ASSUME NEW a \in Nat \ {0}, NEW b \in Nat \ {0},
           Reading(price_display(a)) = Reading(price_display(b))
    PROVE  price_display(a) = price_display(b)
<1>1. a >= 9999500 <=> b >= 9999500
  BY ReadingIs
<1>2. CASE a >= 9999500
  <2>1. (2 * a + 100000) \div 200000 = (2 * b + 100000) \div 200000
    BY <1>1, <1>2, ReadingIs
  <2>. QED
    BY <1>1, <1>2, <2>1, PriceIs
<1>3. CASE ~ (a >= 9999500)
  <2>1. (2 * a + 1000) \div 2000 = (2 * b + 1000) \div 2000
    BY <1>1, <1>3, ReadingIs
  <2>. QED
    BY <1>1, <1>3, <2>1, PriceIs
<1>. QED
  BY <1>2, <1>3

\* A range reads as its ends.
LEMMA EndsAreRead ==
    ASSUME NEW a \in Nat \ {0}, NEW b \in Nat \ {0}
    PROVE  RangeReading(a, b) = <<Reading(price_display(a)), Reading(price_display(b))>>
<1>. DEFINE low == price_display(a)
            high == price_display(b)
<1>1. ASSUME SharesUnit(low, high) PROVE [low EXCEPT !.unit = high.unit] = low
  BY <1>1, PriceIs DEF SharesUnit
<1>2. RangeReading(a, b) = << Reading(IF SharesUnit(low, high)
                                       THEN [low EXCEPT !.unit = high.unit] ELSE low),
                              Reading(high) >>
  BY DEF RangeReading
<1>. QED
  BY <1>1, <1>2

\* No two hours of a day are read the same.
LEMMA HoursAreTold ==
    ASSUME NEW h \in 0 .. 23, NEW k \in 0 .. 23, SlotHour(h) = SlotHour(k)
    PROVE  h = k
<1>1. SlotHour(h).clock = SlotHour(k).clock /\ SlotHour(h).half = SlotHour(k).half
  OBVIOUS
<1>2. (IF h % 12 = 0 THEN 12 ELSE h % 12) = (IF k % 12 = 0 THEN 12 ELSE k % 12)
  BY <1>1 DEF SlotHour
<1>3. h < 12 <=> k < 12
  BY <1>1 DEF SlotHour, Meridiem
<1>. QED
  BY <1>2, <1>3

\* ReadsBack of every amount and every pair of hours: what a buyer reads of a price,
\* of a range and of a visit is what was meant (format.py 51-127).
THEOREM PhrasesReadBack == Spec => []ReadsBack
<1>1. Init => ReadsBack
  <2>. SUFFICES ASSUME Init PROVE ReadsBack
    OBVIOUS
  <2>1. CASE Asked("amounts", Amounts \X Amounts)
    <3>1. question = "amounts" /\ input[1] \in Nat \ {0} /\ input[2] \in Nat \ {0}
      BY <2>1, AmountsAssumption DEF Asked
    <3>2. PricesRead
      BY <3>1, PricesAreRead DEF PricesRead
    <3>3. OneText
      BY <3>1, ReadingsHaveOneText DEF OneText
    <3>4. RangesRead
      BY <3>1, EndsAreRead DEF RangesRead
    <3>. QED
      BY <3>1, <3>2, <3>3, <3>4 DEF ReadsBack, HoursDiffer
  <2>2. CASE Asked("hours", (0 .. 23) \X (0 .. 23))
    <3>1. question = "hours" /\ input[1] \in 0 .. 23 /\ input[2] \in 0 .. 23
      BY <2>2 DEF Asked
    <3>2. HoursDiffer
      BY <3>1, HoursAreTold DEF HoursDiffer
    <3>. QED
      BY <3>1, <3>2 DEF ReadsBack, PricesRead, OneText, RangesRead
  <2>3. CASE question \in {"sources", "launch"}
    BY <2>3 DEF ReadsBack, PricesRead, OneText, RangesRead, HoursDiffer
  <2>. QED
    BY <2>1, <2>2, <2>3 DEF Init, Asked
<1>2. ReadsBack /\ [Next]_vars => ReadsBack'
  BY DEF ReadsBack, PricesRead, OneText, RangesRead, HoursDiffer, Next, vars
<1>. QED
  BY <1>1, <1>2, PTL DEF Spec

-------------------------------------------------------------------------------
(* Workers.                                                                *)

\* What a command line is made of.
CommandLine(argv) ==
    /\ argv \in Seq(Tokens) /\ Len(argv) \in Nat /\ DOMAIN argv = 1 .. Len(argv)

\* The first token that names a count is one the launcher reads too: behind a flag,
\* it would not be the first.
LEMMA FirstNamedIsRead ==
    ASSUME NEW argv, CommandLine(argv), NEW first \in DOMAIN argv, Names(argv, first),
           \A j \in DOMAIN argv : Names(argv, j) => first <= j
    PROVE  first \in Options(argv)
<1>1. \A i \in DOMAIN argv : argv[i] \in Tokens
  BY DEF CommandLine
<1>2. argv[first].kind \in {"flag", "inline"}
  BY DEF Names, Flag
<1>3. ASSUME first > 1, argv[first - 1] = Flag PROVE FALSE
  <2>1. first - 1 \in DOMAIN argv /\ first - 1 < Len(argv)
    BY <1>3 DEF CommandLine
  <2>2. Names(argv, first - 1)
    BY <1>3, <2>1 DEF Names
  <2>. QED
    BY <2>1, <2>2 DEF CommandLine
<1>. QED
  BY <1>2, <1>3 DEF Options

\* One flag at most, and the check reads what the launcher reads.
LEMMA OneFlagOneCount ==
    ASSUME NEW argv, CommandLine(argv), NEW env \in Concurrency, Starts(argv, env),
           \A i, j \in Options(argv) : i = j, SingleWorkerAsserted(argv, env)
    PROVE  Launched(argv, env) = 1
<1>. DEFINE named == {i \in DOMAIN argv : Names(argv, i)}
            first == CHOOSE i \in named : \A j \in named : i <= j
            last == CHOOSE i \in Options(argv) : \A j \in Options(argv) : j <= i
<1>1. \A i \in DOMAIN argv : argv[i].kind \in {"flag", "inline", "word"} /\ argv[i].value \in Nat
                             /\ (argv[i].kind = "flag" => argv[i] = Flag)
  BY LaunchAssumption DEF CommandLine
<1>2. Options(argv) \subseteq DOMAIN argv
  BY DEF Options
<1>3. Options(argv) \subseteq named
  <2>. SUFFICES ASSUME NEW i \in Options(argv) PROVE Names(argv, i)
    BY <1>2
  <2>1. argv[i].kind \in {"flag", "inline"}
    BY DEF Options
  <2>. QED
    BY <1>1, <1>2, <2>1 DEF Starts, Names
<1>4. CASE named = {}
  <2>1. Options(argv) = {}
    BY <1>3, <1>4
  <2>2. ArgvWorkers(argv) = Unset
    BY <1>4 DEF ArgvWorkers
  <2>3. FromEnvironment(env) <= 1
    BY <2>2 DEF SingleWorkerAsserted, worker_count
  <2>4. env # NotANumber /\ env \in Nat \cup {Unset}
    BY <2>1, LaunchAssumption DEF Starts
  <2>5. Launched(argv, env) = IF env = Unset THEN 1 ELSE env
    BY <2>1 DEF Launched
  <2>. QED
    BY <2>3, <2>4, <2>5 DEF FromEnvironment, NotANumber, Unset
<1>5. CASE named # {}
  <2>1. first \in named /\ \A j \in named : first <= j
    <3>1. named \subseteq Nat
      BY DEF CommandLine
    <3>. HIDE DEF named
    <3>2. \E i \in named : \A j \in named : i <= j
      BY <1>5, <3>1, Least
    <3>. QED
      BY <3>2
  <2>. HIDE DEF first
  <2>2. first \in Options(argv)
    BY <2>1, FirstNamedIsRead
  <2>3. last = first
    <3>1. first \in Nat
      BY <2>1 DEF CommandLine
    <3>2. \A i \in Options(argv) : i = first
      BY <2>2
    <3>3. \E i \in Options(argv) : \A j \in Options(argv) : j <= i
      BY <2>2, <3>1, <3>2
    <3>. QED
      BY <3>2, <3>3
  <2>4. Candidate(argv, first) # NotANumber
    BY <2>2 DEF Starts
  <2>5. Candidate(argv, first) \in Nat
    <3>1. argv[first] = Flag => first + 1 \in DOMAIN argv
      BY <2>1, <2>2 DEF Starts, CommandLine
    <3>. QED
      BY <1>1, <2>1, <3>1 DEF Candidate, NotANumber
  <2>6. ArgvWorkers(argv) = Candidate(argv, first)
    BY <1>5, <2>4 DEF ArgvWorkers, first
  <2>7. worker_count(argv, env) = Candidate(argv, first)
    BY <2>5, <2>6 DEF worker_count, Unset
  <2>8. Candidate(argv, first) = 1
    BY <2>4, <2>5, <2>7 DEF SingleWorkerAsserted, NotANumber
  <2>9. Launched(argv, env) = Candidate(argv, last)
    BY <2>2 DEF Launched
  <2>. QED
    BY <2>3, <2>8, <2>9
<1>. QED
  BY <1>4, <1>5

\* SingleWorker of every command line and environment: a process that passes its check,
\* started with one flag at most, is alone (config.py 92-133).
THEOREM OneWorkerIsAlone == Spec => []SingleWorker
<1>1. Init => SingleWorker
  <2>. SUFFICES ASSUME Init, question = "launch" PROVE SingleWorker
    BY DEF SingleWorker
  <2>1. input \in BoundedSeq(Tokens, MaxArgv) \X Concurrency
    BY DEF Init, Asked
  <2>2. CommandLine(input[1]) /\ input[2] \in Concurrency
    BY <2>1, BoundedSeqIs, LengthsAssumption DEF CommandLine
  <2>. QED
    BY <2>2, OneFlagOneCount DEF SingleWorker
<1>2. SingleWorker /\ [Next]_vars => SingleWorker'
  BY DEF SingleWorker, Next, vars
<1>. QED
  BY <1>1, <1>2, PTL DEF Spec

-------------------------------------------------------------------------------
(* Guard: the matches, sorted.                                             *)

\* A match has a place in the text, and there are finitely many.
LEMMA FoundIs ==
    ASSUME NEW text \in Seq(Symbols)
    PROVE  /\ \A r \in Found(text) : /\ r \in Nat \X Nat /\ r[1] < r[2]
                                     /\ 1 <= r[1] /\ r[2] <= Len(text) + 1
           /\ IsFiniteSet(Found(text))
<1>1. Len(text) \in Nat /\ DOMAIN text = 1 .. Len(text)
  BY LenProperties
<1>2. \A f \in Figures(text) : f[1] \in 1 .. Len(text) /\ f[2] \in 1 .. Len(text) /\ f[1] <= f[2]
  BY <1>1 DEF Figures
<1>3. ASSUME NEW r \in Found(text)
      PROVE  /\ r \in (1 .. Len(text)) \X (1 .. Len(text) + 1) /\ r[1] < r[2]
  <2>1. PICK f \in Figures(text) :
           \/ \E s \in SignsBefore(text, f[1]) : r = <<s, f[2] + 1>>
           \/ \E u \in WordsBehind(text, f[2]) : r = <<f[1], u + 1>>
    BY DEF Found
  <2>2. CASE \E s \in SignsBefore(text, f[1]) : r = <<s, f[2] + 1>>
    <3>1. PICK s \in SignsBefore(text, f[1]) : r = <<s, f[2] + 1>>
      BY <2>2
    <3>2. s \in 1 .. Len(text) /\ f[2] + 1 \in 1 .. Len(text) + 1 /\ s < f[2] + 1
      BY <1>1, <1>2 DEF SignsBefore
    <3>. QED
      BY <3>1, <3>2
  <2>3. CASE \E u \in WordsBehind(text, f[2]) : r = <<f[1], u + 1>>
    <3>1. PICK u \in WordsBehind(text, f[2]) : r = <<f[1], u + 1>>
      BY <2>3
    <3>2. f[1] \in 1 .. Len(text) /\ u + 1 \in 1 .. Len(text) + 1 /\ f[1] < u + 1
      BY <1>1, <1>2 DEF WordsBehind, UnitsBehind
    <3>. QED
      BY <3>1, <3>2
  <2>. QED
    BY <2>1, <2>2, <2>3
<1>4. IsFiniteSet((1 .. Len(text)) \X (1 .. Len(text) + 1))
  <2>1. Len(text) + 1 \in Nat
    BY <1>1
  <2>2. IsFiniteSet(1 .. Len(text)) /\ IsFiniteSet(1 .. Len(text) + 1)
    BY <1>1, <2>1, FS_Interval
  <2>. QED
    BY <2>2, FS_Product
<1>5. IsFiniteSet(Found(text))
  BY <1>3, <1>4, FS_Subset
<1>6. \A r \in Found(text) : /\ r \in Nat \X Nat /\ r[1] < r[2]
                             /\ 1 <= r[1] /\ r[2] <= Len(text) + 1
  BY <1>1, <1>3
<1>. QED
  BY <1>5, <1>6

\* The place of a match among the sorted ones.
Place(ranges, r) == Cardinality({s \in ranges : Before(s, r)})

\* A later match has a later place.
LEMMA PlaceGrows ==
    ASSUME NEW R \in SUBSET (Nat \X Nat), IsFiniteSet(R), NEW r \in R, NEW s \in R,
           Before(r, s), r # s
    PROVE  Place(R, r) < Place(R, s)
<1>. DEFINE upTo(t) == {u \in R : Before(u, t)}
<1>1. \A t \in R : t[1] \in Nat /\ t[2] \in Nat /\ t = <<t[1], t[2]>>
  OBVIOUS
<1>2. upTo(r) \subseteq upTo(s)
  BY <1>1 DEF Before
<1>3. s \in upTo(s) \ upTo(r)
  BY <1>1 DEF Before
<1>4. IsFiniteSet(upTo(r)) /\ IsFiniteSet(upTo(s))
  BY FS_Subset
<1>5. /\ Cardinality(upTo(r)) <= Cardinality(upTo(s))
      /\ Cardinality(upTo(r)) # Cardinality(upTo(s))
      /\ Cardinality(upTo(r)) \in Nat /\ Cardinality(upTo(s)) \in Nat
  BY <1>2, <1>3, <1>4, FS_Subset, FS_CardinalityType
<1>. QED
  BY <1>5 DEF Place

\* Every match has its turn, and none comes before one that starts earlier.
LEMMA NthIs ==
    ASSUME NEW R \in SUBSET (Nat \X Nat), IsFiniteSet(R)
    PROVE  /\ \A n \in 1 .. Cardinality(R) : Nth(R, n) \in R
           /\ \A r \in R : \E n \in 1 .. Cardinality(R) : Nth(R, n) = r
           /\ \A n \in 2 .. Cardinality(R) : Nth(R, n - 1)[1] <= Nth(R, n)[1]
<1>. DEFINE n == Cardinality(R)
            place == [r \in R |-> Place(R, r)]
<1>1. n \in Nat
  BY FS_CardinalityType
<1>2. \A r \in R : r[1] \in Nat /\ r[2] \in Nat /\ r = <<r[1], r[2]>>
  OBVIOUS
<1>3. ASSUME NEW r \in R PROVE Place(R, r) \in 1 .. n
  <2>. DEFINE upTo == {s \in R : Before(s, r)}
  <2>1. IsFiniteSet(upTo) /\ Cardinality(upTo) <= n
    BY FS_Subset
  <2>2. r \in upTo
    BY <1>2 DEF Before
  <2>3. Cardinality(upTo) \in Nat /\ Cardinality(upTo) # 0
    <3>. HIDE DEF upTo
    <3>. QED
      BY <2>1, <2>2, FS_CardinalityType, FS_EmptySet
  <2>. QED
    BY <1>1, <2>1, <2>3 DEF Place
<1>4. ASSUME NEW r \in R, NEW s \in R, r # s PROVE Place(R, r) # Place(R, s)
  <2>1. Before(r, s) \/ Before(s, r)
    BY <1>2 DEF Before
  <2>2. Place(R, r) < Place(R, s) \/ Place(R, s) < Place(R, r)
    BY <1>4, <2>1, PlaceGrows
  <2>. QED
    BY <1>3, <2>2
<1>5. place \in [R -> 1 .. n] /\ \A r, s \in R : place[r] = place[s] => r = s
  BY <1>3, <1>4
<1>6. IsFiniteSet(1 .. n) /\ Cardinality(1 .. n) = n
  BY <1>1, FS_Interval
<1>7. place \in Surjection(R, 1 .. n)
  <2>. HIDE DEF place
  <2>1. place \in Injection(R, 1 .. n)
    BY <1>5 DEF Injection, IsInjective
  <2>. QED
    BY <1>6, <2>1, FS_Injection
<1>8. \A m \in 1 .. n : \E r \in R : Place(R, r) = m
  <2>1. \A m \in 1 .. n : \E r \in R : place[r] = m
    <3>. HIDE DEF place
    <3>. QED
      BY <1>7 DEF Surjection
  <2>. QED
    BY <2>1
<1>9. \A m \in 1 .. n : Nth(R, m) \in R /\ Place(R, Nth(R, m)) = m
  BY <1>8 DEF Nth, Place
<1>10. \A r \in R : Nth(R, Place(R, r)) = r
  <2>. TAKE r \in R
  <2>1. Nth(R, Place(R, r)) \in R /\ Place(R, Nth(R, Place(R, r))) = Place(R, r)
    BY <1>3, <1>9
  <2>. QED
    BY <1>4, <2>1
<1>11. ASSUME NEW m \in 2 .. n PROVE Nth(R, m - 1)[1] <= Nth(R, m)[1]
  <2>. DEFINE r == Nth(R, m - 1)
              s == Nth(R, m)
  <2>1. r \in R /\ s \in R /\ Place(R, r) = m - 1 /\ Place(R, s) = m
    <3>1. m - 1 \in 1 .. n /\ m \in 1 .. n
      BY <1>1
    <3>. QED
      BY <1>9, <3>1
  <2>. HIDE DEF r, s
  <2>2. ~ Before(s, r)
    <3>1. s # r
      BY <2>1
    <3>2. Before(s, r) => Place(R, s) < Place(R, r)
      BY <2>1, <3>1, PlaceGrows
    <3>. QED
      BY <2>1, <3>2
  <2>3. r[1] <= s[1]
    BY <1>2, <2>1, <2>2 DEF Before
  <2>. QED
    BY <2>3 DEF r, s
<1>12. \A r \in R : \E m \in 1 .. n : Nth(R, m) = r
  BY <1>3, <1>10
<1>. QED
  BY <1>9, <1>11, <1>12

-------------------------------------------------------------------------------
(* Guard: the spans that the matches are merged to.                        *)

\* What the spans of the first matches are: apart from each other, each match within
\* one of them, and nothing in them that no match covers.
MergedTo(merged, taken) ==
    /\ merged \in Seq(Nat \X Nat)
    /\ \A i \in 1 .. Len(merged) : merged[i][1] < merged[i][2]
    /\ \A i, j \in 1 .. Len(merged) : i < j => merged[i][2] < merged[j][1]
    /\ \A r \in taken : \E i \in 1 .. Len(merged) :
            merged[i][1] <= r[1] /\ r[2] <= merged[i][2]
    /\ \A i \in 1 .. Len(merged) : \A p \in merged[i][1] .. merged[i][2] - 1 :
            \E r \in taken : p \in r[1] .. r[2] - 1

\* No span starts behind the match.
StartsBefore(merged, r) == \A i \in 1 .. Len(merged) : merged[i][1] <= r[1]

\* The last span grows to its new end.
LEMMA GrownIs ==
    ASSUME NEW merged \in Seq(Nat \X Nat), merged # <<>>, NEW e \in Nat
    PROVE  LET n == Len(merged)
               grown == [merged EXCEPT ![n][2] = IF e > @ THEN e ELSE @]
           IN  /\ grown \in Seq(Nat \X Nat) /\ Len(grown) = n
               /\ \A i \in 1 .. n - 1 : grown[i] = merged[i]
               /\ grown[n] = <<merged[n][1], IF e > merged[n][2] THEN e ELSE merged[n][2]>>
<1>. DEFINE n == Len(merged)
            old == merged[n]
            new == <<old[1], IF e > old[2] THEN e ELSE old[2]>>
<1>1. n \in Nat /\ n >= 1 /\ DOMAIN merged = 1 .. n /\ \A i \in 1 .. n : merged[i] \in Nat \X Nat
  BY LenProperties, EmptySeq, ElementOfSeq
<1>2. old[1] \in Nat /\ old[2] \in Nat /\ old = <<old[1], old[2]>>
  BY <1>1
<1>3. [old EXCEPT ![2] = IF e > @ THEN e ELSE @] = new
  BY <1>2
<1>. DEFINE grown == [merged EXCEPT ![n][2] = IF e > @ THEN e ELSE @]
<1>4. grown = [i \in 1 .. n |-> IF i = n THEN new ELSE merged[i]]
  BY <1>1, <1>3
<1>5. new \in Nat \X Nat
  BY <1>2
<1>. HIDE DEF grown, new, old, n
<1>6. grown \in [1 .. n -> Nat \X Nat]
  BY <1>1, <1>4, <1>5
<1>7. grown \in Seq(Nat \X Nat) /\ Len(grown) = n
  BY <1>1, <1>6, LenProperties
<1>8. grown[n] = new /\ \A i \in 1 .. n - 1 : grown[i] = merged[i]
  BY <1>1, <1>4
<1>. QED
  BY <1>7, <1>8 DEF grown, new, old, n

\* One more match.
LEMMA ExtendKeeps ==
    ASSUME NEW merged, NEW taken \in SUBSET (Nat \X Nat), MergedTo(merged, taken),
           NEW r \in Nat \X Nat, r[1] < r[2], StartsBefore(merged, r)
    PROVE  MergedTo(Extend(merged, r), taken \cup {r}) /\ StartsBefore(Extend(merged, r), r)
<1>. DEFINE n == Len(merged)
            new == Extend(merged, r)
<1>1. /\ merged \in Seq(Nat \X Nat) /\ n \in Nat /\ DOMAIN merged = 1 .. n
      /\ \A i \in 1 .. n : merged[i] \in Nat \X Nat /\ merged[i][1] \in Nat /\ merged[i][2] \in Nat
      /\ \A i \in 1 .. n : merged[i][1] < merged[i][2] /\ merged[i][1] <= r[1]
      /\ \A i, j \in 1 .. n : i < j => merged[i][2] < merged[j][1]
      /\ \A s \in taken : \E i \in 1 .. n : merged[i][1] <= s[1] /\ s[2] <= merged[i][2]
      /\ \A i \in 1 .. n : \A p \in merged[i][1] .. merged[i][2] - 1 :
            \E s \in taken : p \in s[1] .. s[2] - 1
      /\ n = 0 => merged = <<>>
  <2>1. merged \in Seq(Nat \X Nat)
    BY DEF MergedTo
  <2>2. n \in Nat /\ DOMAIN merged = 1 .. n /\ \A i \in 1 .. n : merged[i] \in Nat \X Nat
    BY <2>1, LenProperties, ElementOfSeq
  <2>3. n = 0 => merged = <<>>
    BY <2>1, EmptySeq
  <2>4. \A i \in 1 .. n : merged[i][1] \in Nat /\ merged[i][2] \in Nat
    BY <2>2
  <2>. QED
    BY <2>1, <2>2, <2>3, <2>4 DEF MergedTo, StartsBefore
<1>2. r[1] \in Nat /\ r[2] \in Nat
  OBVIOUS
<1>. HIDE DEF n
<1>3. CASE n > 0 /\ r[1] <= merged[n][2]
  <2>. DEFINE e == IF r[2] > merged[n][2] THEN r[2] ELSE merged[n][2]
  <2>1. merged # <<>>
    BY <1>1, <1>3, EmptySeq DEF n
  <2>2. new = [merged EXCEPT ![n][2] = IF r[2] > @ THEN r[2] ELSE @]
    BY <1>3, <2>1 DEF Extend, Joins, Last, n
  <2>3. /\ new \in Seq(Nat \X Nat) /\ Len(new) = n
        /\ \A i \in 1 .. n - 1 : new[i] = merged[i]
        /\ new[n] = <<merged[n][1], e>>
    BY <1>1, <1>2, <2>1, <2>2, GrownIs DEF n
  <2>. HIDE DEF new
  <2>4. /\ e \in Nat /\ merged[n][2] <= e /\ r[2] <= e /\ (e = r[2] \/ e = merged[n][2])
        /\ n \in 1 .. n
    BY <1>1, <1>2, <1>3
  <2>. HIDE DEF e
  <2>5. /\ new[n][1] = merged[n][1] /\ new[n][2] = e
        /\ \A i \in 1 .. n : i # n => new[i] = merged[i]
    BY <1>1, <2>3
  <2>6. ASSUME NEW i \in 1 .. n
        PROVE  new[i][1] = merged[i][1] /\ merged[i][2] <= new[i][2]
    <3>1. CASE i = n
      BY <2>4, <2>5, <3>1
    <3>2. CASE i # n
      <4>1. new[i] = merged[i] /\ merged[i][2] \in Nat
        BY <1>1, <2>5, <3>2
      <4>. QED
        BY <4>1
    <3>. QED
      BY <3>1, <3>2
  <2>7. ASSUME NEW i \in 1 .. n
        PROVE  new[i][1] < new[i][2] /\ new[i][1] <= r[1]
    <3>1. merged[i][1] < merged[i][2] /\ merged[i][1] <= r[1]
          /\ merged[i][1] \in Nat /\ merged[i][2] \in Nat
      BY <1>1
    <3>2. new[i][2] \in Nat
      <4>1. CASE i = n
        BY <2>4, <2>5, <4>1
      <4>2. CASE i # n
        BY <2>5, <3>1, <4>2
      <4>. QED
        BY <4>1, <4>2
    <3>. QED
      BY <2>6, <3>1, <3>2
  <2>8. ASSUME NEW i \in 1 .. n, NEW j \in 1 .. n, i < j PROVE new[i][2] < new[j][1]
    <3>1. i # n
      BY <1>1, <2>8
    <3>. QED
      BY <1>1, <2>5, <2>6, <2>8, <3>1
  <2>9. ASSUME NEW s \in taken \cup {r}
        PROVE  \E i \in 1 .. n : new[i][1] <= s[1] /\ s[2] <= new[i][2]
    <3>1. CASE s = r
      <4>1. new[n][1] <= s[1] /\ s[2] <= new[n][2]
        BY <1>1, <2>4, <2>5, <3>1
      <4>. QED
        BY <2>4, <4>1
    <3>2. CASE s \in taken
      <4>1. PICK i \in 1 .. n : merged[i][1] <= s[1] /\ s[2] <= merged[i][2]
        BY <1>1, <3>2
      <4>2. CASE i = n
        <5>1. s[2] \in Nat /\ merged[n][2] \in Nat
          BY <1>1, <2>4, <3>2
        <5>. QED
          BY <2>4, <2>5, <4>1, <4>2, <5>1
      <4>3. CASE i # n
        BY <2>5, <4>1, <4>3
      <4>. QED
        BY <4>2, <4>3
    <3>. QED
      BY <3>1, <3>2
  <2>10. ASSUME NEW i \in 1 .. n, NEW p \in new[i][1] .. new[i][2] - 1
         PROVE  \E s \in taken \cup {r} : p \in s[1] .. s[2] - 1
    <3>1. CASE p \in merged[i][1] .. merged[i][2] - 1
      BY <1>1, <3>1
    <3>2. CASE p \notin merged[i][1] .. merged[i][2] - 1
      <4>1. i = n
        BY <2>5, <3>2
      <4>2. p \in Int /\ merged[n][1] <= p /\ p <= e - 1 /\ p > merged[n][2] - 1
        BY <1>1, <2>4, <2>5, <3>2, <4>1
      <4>3. p \in r[1] .. r[2] - 1
        BY <1>1, <1>2, <1>3, <2>4, <4>2
      <4>. QED
        BY <4>3
    <3>. QED
      BY <3>1, <3>2
  <2>. QED
    BY <2>3, <2>7, <2>8, <2>9, <2>10 DEF MergedTo, StartsBefore, new
<1>4. CASE ~ (n > 0 /\ r[1] <= merged[n][2])
  <2>1. new = Append(merged, r)
    <3>1. ~ (merged # <<>> /\ r[1] <= merged[n][2])
      BY <1>1, <1>4, EmptySeq DEF n
    <3>. QED
      BY <3>1 DEF Extend, Joins, Last, n
  <2>2. /\ new \in Seq(Nat \X Nat) /\ Len(new) = n + 1
        /\ \A i \in 1 .. n : new[i] = merged[i]
        /\ new[n + 1] = r
    BY <1>1, <2>1, AppendProperties DEF n
  <2>. HIDE DEF new
  <2>3. \A i \in 1 .. n : merged[i][2] < r[1]
    <3>. TAKE i \in 1 .. n
    <3>1. n \in 1 .. n /\ merged[n][2] < r[1]
      BY <1>1, <1>2, <1>4
    <3>2. CASE i = n
      BY <3>1, <3>2
    <3>3. CASE i # n
      <4>1. merged[i][2] < merged[n][1] /\ merged[n][1] < merged[n][2]
        BY <1>1, <3>1, <3>3
      <4>. QED
        BY <1>1, <1>2, <3>1, <4>1
    <3>. QED
      BY <3>2, <3>3
  <2>4. \A i \in 1 .. n + 1 : i \in 1 .. n \/ i = n + 1
    BY <1>1
  <2>5. ASSUME NEW i \in 1 .. n + 1
        PROVE  new[i][1] < new[i][2] /\ new[i][1] <= r[1]
    <3>1. CASE i \in 1 .. n
      <4>1. new[i] = merged[i]
        BY <2>2, <3>1
      <4>. QED
        BY <1>1, <3>1, <4>1
    <3>2. CASE i = n + 1
      BY <1>2, <2>2, <3>2
    <3>. QED
      BY <2>4, <3>1, <3>2
  <2>6. ASSUME NEW i \in 1 .. n + 1, NEW j \in 1 .. n + 1, i < j PROVE new[i][2] < new[j][1]
    <3>1. i \in 1 .. n
      BY <1>1, <2>6
    <3>2. CASE j = n + 1
      BY <2>2, <2>3, <3>1, <3>2
    <3>3. CASE j # n + 1
      BY <1>1, <2>2, <2>4, <2>6, <3>1, <3>3
    <3>. QED
      BY <3>2, <3>3
  <2>7. ASSUME NEW s \in taken \cup {r}
        PROVE  \E i \in 1 .. n + 1 : new[i][1] <= s[1] /\ s[2] <= new[i][2]
    <3>1. CASE s = r
      <4>1. n + 1 \in 1 .. n + 1 /\ new[n + 1][1] <= s[1] /\ s[2] <= new[n + 1][2]
        BY <1>1, <1>2, <2>2, <3>1
      <4>. QED
        BY <4>1
    <3>2. CASE s \in taken
      <4>1. PICK i \in 1 .. n : merged[i][1] <= s[1] /\ s[2] <= merged[i][2]
        BY <1>1, <3>2
      <4>2. i \in 1 .. n + 1 /\ new[i] = merged[i]
        BY <1>1, <2>2
      <4>. QED
        BY <4>1, <4>2
    <3>. QED
      BY <3>1, <3>2
  <2>8. ASSUME NEW i \in 1 .. n + 1, NEW p \in new[i][1] .. new[i][2] - 1
        PROVE  \E s \in taken \cup {r} : p \in s[1] .. s[2] - 1
    <3>1. CASE i \in 1 .. n
      BY <1>1, <2>2, <3>1
    <3>2. CASE i = n + 1
      BY <2>2, <3>2
    <3>. QED
      BY <2>4, <3>1, <3>2
  <2>. QED
    BY <2>2, <2>5, <2>6, <2>7, <2>8 DEF MergedTo, StartsBefore, new
<1>. QED
  BY <1>3, <1>4

\* The loop over the sorted matches, unfolded.
LEMMA MergedUnfolds ==
    ASSUME NEW text, Cardinality(Found(text)) \in Nat
    PROVE  \E upTo :
              /\ upTo[0] = <<>> /\ Merged(text) = upTo[Cardinality(Found(text))]
              /\ \A i \in 1 .. Cardinality(Found(text)) :
                    upTo[i] = Extend(upTo[i - 1], Nth(Found(text), i))
<1>. DEFINE all == Cardinality(Found(text))
            Step(g, i) == IF i = 0 THEN <<>> ELSE Extend(g[i - 1], Nth(Found(text), i))
            Loop(n) == \E g : g = [i \in 0 .. n |-> Step(g, i)]
            stuck == {n \in 0 .. all : ~Loop(n)}
<1>1. ASSUME NEW n \in Nat, n = 0 \/ Loop(n - 1) PROVE Loop(n)
  <2>1. CASE n = 0
    <3>. DEFINE g == [i \in 0 .. n |-> <<>>]
    <3>1. g = [i \in 0 .. n |-> Step(g, i)]
      BY <2>1
    <3>. QED
      BY <3>1
  <2>2. CASE n # 0
    <3>1. PICK g : g = [i \in 0 .. n - 1 |-> Step(g, i)]
      BY <1>1, <2>2
    <3>. DEFINE h == [i \in 0 .. n |-> IF i = n THEN Step(g, n) ELSE g[i]]
    <3>2. \A i \in 0 .. n - 1 : h[i] = g[i] /\ g[i] = Step(g, i)
      <4>. HIDE DEF Step
      <4>1. \A i \in 0 .. n - 1 : g[i] = Step(g, i)
        BY <3>1
      <4>. QED
        BY <4>1
    <3>3. \A i \in 0 .. n : h[i] = Step(h, i)
      <4>. SUFFICES ASSUME NEW i \in 0 .. n PROVE h[i] = Step(h, i)
        OBVIOUS
      <4>1. i = 0 \/ h[i - 1] = g[i - 1]
        BY <3>2
      <4>2. Step(h, i) = Step(g, i)
        BY <4>1
      <4>3. h[i] = Step(g, i)
        <5>. HIDE DEF Step
        <5>1. i \in 0 .. n - 1 \/ i = n
          OBVIOUS
        <5>. QED
          BY <3>2, <5>1
      <4>. QED
        BY <4>2, <4>3
    <3>4. h = [i \in 0 .. n |-> Step(h, i)]
      <4>. HIDE DEF Step
      <4>. QED
        BY <3>3
    <3>. QED
      BY <3>4
  <2>. QED
    BY <2>1, <2>2
<1>2. Loop(all)
  <2>. HIDE DEF Loop
  <2>1. ASSUME stuck # {} PROVE FALSE
    <3>. stuck \subseteq Nat
      OBVIOUS
    <3>1. PICK n \in stuck : \A k \in stuck : n <= k
      <4>. HIDE DEF stuck
      <4>. QED
        BY <2>1, Least
    <3>2. n \in Nat /\ (n = 0 \/ n - 1 \notin stuck)
      BY <3>1
    <3>3. n = 0 \/ Loop(n - 1)
      BY <3>1, <3>2
    <3>. QED
      BY <1>1, <3>1, <3>2, <3>3
  <2>. QED
    BY <2>1
<1>. DEFINE upTo == CHOOSE g : g = [i \in 0 .. all |-> Step(g, i)]
<1>3. upTo = [i \in 0 .. all |-> Step(upTo, i)]
  BY <1>2, Zenon
<1>4. Merged(text) = upTo[all]
  BY Zenon DEF Merged
<1>. HIDE DEF upTo
<1>5. \A i \in 0 .. all : upTo[i] = Step(upTo, i)
  <2>. HIDE DEF Step
  <2>. QED
    BY <1>3
<1>6. upTo[0] = <<>> /\ \A i \in 1 .. all : upTo[i] = Extend(upTo[i - 1], Nth(Found(text), i))
  BY <1>5
<1>. QED
  BY <1>4, <1>6

\* The spans that a text is merged to.
LEMMA MergedIs ==
    ASSUME NEW text \in Seq(Symbols)
    PROVE  MergedTo(Merged(text), Found(text))
<1>. DEFINE R == Found(text)
            all == Cardinality(R)
            taken(n) == {Nth(R, i) : i \in 1 .. n}
<1>1. R \in SUBSET (Nat \X Nat) /\ IsFiniteSet(R) /\ \A r \in R : r[1] < r[2]
  BY FoundIs
<1>2. all \in Nat
  BY <1>1, FS_CardinalityType
<1>. HIDE DEF R
<1>3. /\ \A n \in 1 .. all : Nth(R, n) \in R
      /\ \A r \in R : \E n \in 1 .. all : Nth(R, n) = r
      /\ \A n \in 2 .. all : Nth(R, n - 1)[1] <= Nth(R, n)[1]
  BY <1>1, NthIs
<1>4. PICK upTo :
         /\ upTo[0] = <<>> /\ Merged(text) = upTo[all]
         /\ \A i \in 1 .. all : upTo[i] = Extend(upTo[i - 1], Nth(R, i))
  BY <1>2, MergedUnfolds DEF R
<1>. HIDE DEF all
<1>. DEFINE Kept(n) == MergedTo(upTo[n], taken(n)) /\ (n > 0 => StartsBefore(upTo[n], Nth(R, n)))
            wrong == {n \in 0 .. all : ~Kept(n)}
<1>5. Kept(0)
  <2>1. upTo[0] \in Seq(Nat \X Nat) /\ Len(upTo[0]) = 0
    BY <1>4, EmptySeq
  <2>2. taken(0) = {}
    OBVIOUS
  <2>. QED
    BY <2>1, <2>2 DEF MergedTo
<1>6. ASSUME NEW n \in 1 .. all, Kept(n - 1) PROVE Kept(n)
  <2>. DEFINE before == upTo[n - 1]
              r == Nth(R, n)
  <2>1. r \in Nat \X Nat /\ r[1] < r[2] /\ r \in R
    BY <1>1, <1>3
  <2>2. MergedTo(before, taken(n - 1))
    BY <1>6
  <2>3. taken(n) = taken(n - 1) \cup {r}
    <3>1. 1 .. n = (1 .. n - 1) \cup {n}
      BY <1>2
    <3>. QED
      BY <3>1
  <2>4. taken(n - 1) \in SUBSET (Nat \X Nat)
    <3>1. 1 .. n - 1 \subseteq 1 .. all
      BY <1>2
    <3>. QED
      BY <1>1, <1>3, <3>1
  <2>5. StartsBefore(before, r)
    <3>1. before \in Seq(Nat \X Nat)
      BY <2>2 DEF MergedTo
    <3>2. CASE n = 1
      <4>1. Len(before) = 0
        BY <1>4, <3>2, EmptySeq
      <4>. QED
        BY <4>1 DEF StartsBefore
    <3>3. CASE n # 1
      <4>1. n \in 2 .. all /\ n - 1 > 0 /\ n - 1 \in 1 .. all
        BY <1>2, <3>3
      <4>2. StartsBefore(before, Nth(R, n - 1)) /\ Nth(R, n - 1)[1] <= r[1]
        BY <1>3, <1>6, <4>1
      <4>3. Nth(R, n - 1) \in Nat \X Nat
        BY <1>1, <1>3, <4>1
      <4>4. \A i \in 1 .. Len(before) : before[i] \in Nat \X Nat
        BY <3>1, ElementOfSeq
      <4>. HIDE DEF before, r
      <4>. QED
        BY <2>1, <4>2, <4>3, <4>4 DEF StartsBefore
    <3>. QED
      BY <3>2, <3>3
  <2>6. upTo[n] = Extend(before, r)
    BY <1>4
  <2>. HIDE DEF before, r, taken
  <2>7. MergedTo(Extend(before, r), taken(n - 1) \cup {r}) /\ StartsBefore(Extend(before, r), r)
    BY <2>1, <2>2, <2>4, <2>5, ExtendKeeps
  <2>. QED
    BY <2>3, <2>6, <2>7 DEF r
<1>7. Kept(all)
  <2>. HIDE DEF Kept
  <2>1. ASSUME wrong # {} PROVE FALSE
    <3>. wrong \subseteq Nat
      OBVIOUS
    <3>1. PICK n \in wrong : \A k \in wrong : n <= k
      <4>. HIDE DEF wrong
      <4>. QED
        BY <2>1, Least
    <3>2. n \in 1 .. all /\ n - 1 \notin wrong
      BY <1>2, <1>5, <3>1
    <3>3. n - 1 \in 0 .. all
      BY <1>2, <3>2
    <3>. QED
      BY <1>6, <3>1, <3>2, <3>3
  <2>. QED
    BY <1>2, <2>1
<1>8. taken(all) = R
  BY <1>3
<1>9. MergedTo(Merged(text), taken(all))
  BY <1>4, <1>7
<1>. QED
  BY <1>8, <1>9 DEF R

-------------------------------------------------------------------------------
(* Guard: what a text that passes has in its sources.                      *)

\* A span that passes stands in the sources, shifted as a whole.
LEMMA SpanStands ==
    ASSUME NEW text \in Seq(Symbols), NEW sources \in Seq(Symbols),
           Passes(Spans(text), sources), NEW i \in 1 .. Len(Merged(text))
    PROVE  \E d \in Int : \A p \in Merged(text)[i][1] .. Merged(text)[i][2] - 1 :
              /\ p \in 1 .. Len(text) /\ p + d \in 1 .. Len(sources)
              /\ sources[p + d] = text[p]
<1>. DEFINE m == Merged(text)[i]
            span == SubSeq(text, m[1], m[2] - 1)
<1>1. /\ Len(text) \in Nat /\ Len(sources) \in Nat
      /\ \A p \in 1 .. Len(text) : text[p] \in Symbols
      /\ \A p \in 1 .. Len(sources) : sources[p] \in Symbols
  BY LenProperties, ElementOfSeq
<1>2. MergedTo(Merged(text), Found(text))
  BY MergedIs
<1>3. m \in Nat \X Nat /\ m[1] < m[2] /\ i \in DOMAIN Merged(text)
  <2>1. Merged(text) \in Seq(Nat \X Nat) /\ m[1] < m[2]
    BY <1>2 DEF MergedTo
  <2>. QED
    BY <2>1, ElementOfSeq, LenProperties
<1>4. \A p \in m[1] .. m[2] - 1 : p \in 1 .. Len(text)
  <2>. TAKE p \in m[1] .. m[2] - 1
  <2>1. PICK r \in Found(text) : p \in r[1] .. r[2] - 1
    BY <1>2 DEF MergedTo
  <2>2. r \in Nat \X Nat /\ 1 <= r[1] /\ r[2] <= Len(text) + 1
    BY FoundIs
  <2>. QED
    BY <1>1, <2>1, <2>2
<1>5. span \in Spans(text)
  BY <1>3 DEF Spans, ToSet
<1>. HIDE DEF m
<1>6. m[1] \in Int /\ m[2] - 1 \in Int /\ \A p \in m[1] .. m[2] - 1 : text[p] \in Symbols
  BY <1>1, <1>3, <1>4
<1>7. /\ Len(span) = m[2] - m[1]
      /\ \A x \in 1 .. m[2] - m[1] : span[x] = text[m[1] + x - 1]
  BY <1>3, <1>6, SubSeqProperties
<1>8. PICK k \in 0 .. Len(sources) - Len(span) : SubSeq(sources, k + 1, k + Len(span)) = span
  BY <1>5 DEF Passes, Occurs
<1>. HIDE DEF span
<1>. DEFINE lo == m[1]
            hi == m[2]
            n == Len(span)
            all == Len(sources)
            d == k - lo + 1
<1>9. /\ lo \in Nat /\ hi \in Nat /\ n \in Nat /\ n = hi - lo /\ all \in Nat /\ k \in 0 .. all - n
      /\ \A x \in 1 .. n : span[x] = text[lo + x - 1]
      /\ \A p \in 1 .. all : sources[p] \in Symbols
  BY <1>1, <1>3, <1>7, <1>8
<1>. HIDE DEF lo, hi, n, all
<1>. DEFINE u == k + 1
            v == k + n
<1>10. \A x \in 1 .. n : span[x] = sources[k + x]
  <2>1. k \in Int /\ n \in Nat
    BY <1>9
  <2>2. u \in Int /\ v \in Int /\ \A p \in u .. v : p \in 1 .. all
    BY <1>9
  <2>3. v - u + 1 = n /\ \A x \in 1 .. n : u + x - 1 = k + x
    BY <2>1
  <2>. HIDE DEF u, v
  <2>4. \A p \in u .. v : sources[p] \in Symbols
    BY <1>9, <2>2
  <2>5. \A x \in 1 .. v - u + 1 : SubSeq(sources, u, v)[x] = sources[u + x - 1]
    BY <2>2, <2>4, SubSeqProperties
  <2>6. SubSeq(sources, u, v) = span
    BY <1>8 DEF n, u, v
  <2>. QED
    BY <2>3, <2>5, <2>6
<1>11. ASSUME NEW p \in m[1] .. m[2] - 1
       PROVE  p + d \in 1 .. Len(sources) /\ sources[p + d] = text[p]
  <2>. DEFINE x == p - lo + 1
  <2>1. lo <= p /\ p <= lo + n - 1 /\ p \in Int
    <3>1. lo \in Nat /\ hi \in Nat /\ n = hi - lo
      BY <1>9, Zenon
    <3>2. p \in lo .. hi - 1
      BY DEF lo, hi
    <3>. HIDE DEF x, d, u, v
    <3>. QED
      BY <3>1, <3>2
  <2>2. x \in 1 .. n /\ lo + x - 1 = p /\ k + x = p + d
    BY <1>9, <2>1
  <2>3. p + d \in 1 .. all
    BY <1>9, <2>1
  <2>. HIDE DEF x, d
  <2>. QED
    BY <1>9, <1>10, <2>2, <2>3 DEF all
<1>12. d \in Int
  BY <1>9
<1>. QED
  BY <1>4, <1>11, <1>12 DEF m, lo

\* A figure of a text is a run of its positions.
LEMMA FigureIs ==
    ASSUME NEW text \in Seq(Symbols), NEW r \in Figures(text)
    PROVE  /\ Len(text) \in Nat /\ DOMAIN text = 1 .. Len(text)
           /\ r[1] \in 1 .. Len(text) /\ r[2] \in 1 .. Len(text) /\ r[1] <= r[2]
           /\ r = <<r[1], r[2]>>
           /\ \A p \in r[1] .. r[2] : text[p] \in FigureSymbols
<1>1. Len(text) \in Nat /\ DOMAIN text = 1 .. Len(text)
  BY LenProperties
<1>. QED
  BY <1>1 DEF Figures, InFigure

\* The symbols of a figure.
LEMMA FigureText ==
    ASSUME NEW text \in Seq(Symbols), NEW r \in Figures(text)
    PROVE  /\ Figure(text, r) \in Seq(FigureSymbols) /\ Len(Figure(text, r)) = r[2] - r[1] + 1
           /\ \A x \in 1 .. r[2] - r[1] + 1 : Figure(text, r)[x] = text[r[1] + x - 1]
<1>1. r[1] \in Int /\ r[2] \in Int /\ r[1] <= r[2] /\ \A p \in r[1] .. r[2] : text[p] \in FigureSymbols
  BY FigureIs
<1>. QED
  BY <1>1, SubSeqProperties DEF Figure

\* A stretch of the sources with the symbols of a figure reads the same.
LEMMA SameFigure ==
    ASSUME NEW text \in Seq(Symbols), NEW r \in Figures(text),
           NEW sources \in Seq(Symbols), NEW s \in Figures(sources), NEW d \in Int,
           s[1] = r[1] + d, s[2] = r[2] + d,
           \A p \in r[1] .. r[2] : sources[p + d] = text[p]
    PROVE  Figure(sources, s) = Figure(text, r)
<1>1. r[1] \in Int /\ r[2] \in Int /\ r[1] <= r[2]
  BY FigureIs
<1>. DEFINE n == r[2] - r[1] + 1
<1>2. n \in Nat /\ s[2] - s[1] + 1 = n
  BY <1>1
<1>3. /\ Figure(text, r) \in Seq(FigureSymbols) /\ Len(Figure(text, r)) = n
      /\ \A x \in 1 .. n : Figure(text, r)[x] = text[r[1] + x - 1]
  BY FigureText
<1>4. /\ Figure(sources, s) \in Seq(FigureSymbols) /\ Len(Figure(sources, s)) = n
      /\ \A x \in 1 .. n : Figure(sources, s)[x] = sources[s[1] + x - 1]
  BY <1>2, FigureText
<1>5. \A x \in 1 .. n : r[1] + x - 1 \in r[1] .. r[2] /\ s[1] + x - 1 = r[1] + x - 1 + d
  BY <1>1
<1>. HIDE DEF n
<1>6. \A x \in 1 .. n : Figure(sources, s)[x] = Figure(text, r)[x]
  BY <1>3, <1>4, <1>5
<1>. QED
  BY <1>3, <1>4, <1>6, SeqEqual

\* Overlapping matches belong to one span.
LEMMA OneSpan ==
    ASSUME NEW text \in Seq(Symbols), NEW r \in Found(text), NEW s \in Found(text),
           NEW p, p \in r[1] .. r[2] - 1, p \in s[1] .. s[2] - 1
    PROVE  \E i \in 1 .. Len(Merged(text)) :
              /\ Merged(text)[i][1] <= r[1] /\ r[2] <= Merged(text)[i][2]
              /\ Merged(text)[i][1] <= s[1] /\ s[2] <= Merged(text)[i][2]
<1>. DEFINE merged == Merged(text)
            n == Len(merged)
<1>1. MergedTo(merged, Found(text))
  BY MergedIs
<1>. HIDE DEF merged
<1>2. PICK i \in 1 .. n : merged[i][1] <= r[1] /\ r[2] <= merged[i][2]
  BY <1>1 DEF MergedTo
<1>3. PICK j \in 1 .. n : merged[j][1] <= s[1] /\ s[2] <= merged[j][2]
  BY <1>1 DEF MergedTo
<1>4. \A k \in 1 .. n : merged[k][1] \in Nat /\ merged[k][2] \in Nat
  <2>1. \A k \in 1 .. n : merged[k] \in Nat \X Nat
    BY <1>1, ElementOfSeq DEF MergedTo
  <2>. QED
    BY <2>1
<1>5. r[1] \in Nat /\ r[2] \in Nat /\ s[1] \in Nat /\ s[2] \in Nat
  <2>1. r \in Nat \X Nat /\ s \in Nat \X Nat
    BY FoundIs
  <2>. QED
    BY <2>1
<1>6. i < j => merged[i][2] < merged[j][1]
  BY <1>1 DEF MergedTo
<1>7. j < i => merged[j][2] < merged[i][1]
  BY <1>1 DEF MergedTo
<1>8. /\ p \in Int /\ merged[i][1] <= p /\ p < merged[i][2]
      /\ merged[j][1] <= p /\ p < merged[j][2]
  <2>1. p \in Int /\ r[1] <= p /\ p < r[2] /\ s[1] <= p /\ p < s[2]
    <3>1. r[2] - 1 \in Int /\ s[2] - 1 \in Int
      BY <1>5
    <3>. QED
      BY <1>5, <3>1
  <2>2. /\ merged[i][1] \in Nat /\ merged[i][2] \in Nat
        /\ merged[j][1] \in Nat /\ merged[j][2] \in Nat
    BY <1>4
  <2>3. merged[i][1] <= p /\ p < merged[i][2]
    <3>. DEFINE lo == merged[i][1]
                hi == merged[i][2]
    <3>1. lo \in Nat /\ hi \in Nat /\ lo <= r[1] /\ r[2] <= hi
      BY <1>2, <2>2
    <3>. HIDE DEF lo, hi
    <3>2. lo <= p /\ p < hi
      BY <1>5, <2>1, <3>1
    <3>. QED
      BY <3>2 DEF lo, hi
  <2>4. merged[j][1] <= p /\ p < merged[j][2]
    <3>. DEFINE lo == merged[j][1]
                hi == merged[j][2]
    <3>1. lo \in Nat /\ hi \in Nat /\ lo <= s[1] /\ s[2] <= hi
      BY <1>3, <2>2
    <3>. HIDE DEF lo, hi
    <3>2. lo <= p /\ p < hi
      BY <1>5, <2>1, <3>1
    <3>. QED
      BY <3>2 DEF lo, hi
  <2>. QED
    BY <2>1, <2>3, <2>4
<1>9. i = j
  <2>1. /\ merged[i][1] \in Nat /\ merged[i][2] \in Nat
        /\ merged[j][1] \in Nat /\ merged[j][2] \in Nat
    BY <1>4
  <2>2. \A a, b, x, y \in Nat :
           /\ a <= p /\ p < b /\ x <= p /\ p < y
           => ~ (b < x) /\ ~ (y < a)
    BY <1>8
  <2>3. ~ (merged[i][2] < merged[j][1]) /\ ~ (merged[j][2] < merged[i][1])
    BY ONLY <1>8, <2>1, <2>2
  <2>4. ~ (i < j) /\ ~ (j < i)
    BY <1>6, <1>7, <2>3
  <2>. QED
    BY <2>4
<1>. QED
  BY <1>2, <1>3, <1>9 DEF merged

\* The matches of a figure: from its sign to its end, and from its beginning to its unit.
LEMMA MatchesOf ==
    ASSUME NEW text \in Seq(Symbols), NEW r \in Figures(text)
    PROVE  /\ \A s \in SignsBefore(text, r[1]) : /\ <<s, r[2] + 1>> \in Found(text)
                                                /\ s \in Nat /\ s < r[1]
           /\ \A u \in WordsBehind(text, r[2]) : /\ <<r[1], u + 1>> \in Found(text)
                                                /\ u \in UnitsBehind(text, r[2])
                                                /\ u \in Nat /\ r[2] < u
<1>1. DOMAIN text \subseteq Nat /\ r[1] \in Nat
  BY FigureIs
<1>2. \A s \in SignsBefore(text, r[1]) : <<s, r[2] + 1>> \in Found(text)
  BY DEF Found
<1>3. \A u \in WordsBehind(text, r[2]) : <<r[1], u + 1>> \in Found(text)
  BY DEF Found
<1>. QED
  BY <1>1, <1>2, <1>3 DEF SignsBefore, WordsBehind, UnitsBehind

\* The stretch of text from one index to another stands in the sources, d further on.
Shifted(text, sources, from, to, d) ==
    \A p \in from .. to : p + d \in 1 .. Len(sources) /\ sources[p + d] = text[p]

\* A sign stands before the same figure in the sources, and no figure goes on through it.
LEMMA SignShifts ==
    ASSUME NEW text \in Seq(Symbols), NEW sources \in Seq(Symbols), NEW d \in Int,
           NEW first \in Nat, NEW s \in SignsBefore(text, first),
           Shifted(text, sources, s, first - 1, d)
    PROVE  s + d \in SignsBefore(sources, first + d) /\ ~InFigure(sources, first + d - 1)
<1>1. DOMAIN text = 1 .. Len(text) /\ DOMAIN sources = 1 .. Len(sources)
      /\ Len(text) \in Nat /\ Len(sources) \in Nat
  BY LenProperties
<1>2. /\ s \in Nat /\ text[s] = Rupee
      /\ s = first - 1 \/ (s = first - 2 /\ text[first - 1] = Space)
  BY <1>1 DEF SignsBefore
<1>3. s \in s .. first - 1 /\ first - 1 \in s .. first - 1
  BY <1>2
<1>4. s + d \in DOMAIN sources /\ sources[s + d] = Rupee
  BY <1>1, <1>2, <1>3 DEF Shifted
<1>5. sources[first - 1 + d] = text[first - 1]
  BY <1>3 DEF Shifted
<1>6. first - 1 + d = first + d - 1 /\ first - 2 + d = first + d - 2
  BY <1>2
<1>7. s + d = first + d - 1 \/ (s + d = first + d - 2 /\ sources[first + d - 1] = Space)
  BY <1>2, <1>5, <1>6
<1>8. sources[first + d - 1] \in {Rupee, Space}
  BY <1>2, <1>5, <1>6
<1>. QED
  BY <1>4, <1>7, <1>8, SymbolsAssumption DEF SignsBefore, InFigure

\* A unit stands behind the same figure in the sources, and no figure goes on to it.
LEMMA UnitShifts ==
    ASSUME NEW text \in Seq(Symbols), NEW sources \in Seq(Symbols), NEW d \in Int,
           NEW last \in Nat, NEW u \in UnitsBehind(text, last),
           Shifted(text, sources, last + 1, u, d)
    PROVE  /\ u + d \in UnitsBehind(sources, last + d) /\ sources[u + d] = text[u]
           /\ ~InFigure(sources, last + d + 1)
<1>1. DOMAIN text = 1 .. Len(text) /\ DOMAIN sources = 1 .. Len(sources)
      /\ Len(text) \in Nat /\ Len(sources) \in Nat
  BY LenProperties
<1>2. /\ u \in Nat /\ text[u] \in Units /\ last < u
      /\ \A i \in last + 1 .. u - 1 : text[i] = Space
  BY <1>1 DEF UnitsBehind
<1>3. u \in last + 1 .. u /\ last + 1 \in last + 1 .. u
  BY <1>2
<1>4. u + d \in DOMAIN sources /\ sources[u + d] = text[u]
  BY <1>1, <1>3 DEF Shifted
<1>5. ASSUME NEW i \in last + d + 1 .. u + d - 1 PROVE sources[i] = Space
  <2>1. i - d \in last + 1 .. u - 1 /\ i - d \in last + 1 .. u /\ i - d + d = i
    BY <1>2
  <2>2. sources[i - d + d] = text[i - d] /\ text[i - d] = Space
    BY <1>2, <2>1 DEF Shifted
  <2>. QED
    BY <2>1, <2>2
<1>6. sources[last + 1 + d] = text[last + 1] /\ last + 1 + d = last + d + 1
  BY <1>3 DEF Shifted
<1>7. text[last + 1] \in Units \cup {Space}
  <2>1. last + 1 = u \/ last + 1 \in last + 1 .. u - 1
    BY <1>2
  <2>. QED
    BY <1>2, <2>1
<1>8. sources[last + d + 1] \notin FigureSymbols
  BY <1>6, <1>7, SymbolsAssumption DEF FigureSymbols, WordSymbols
<1>9. u + d \in UnitsBehind(sources, last + d)
  <2>1. last + d < u + d
    BY <1>2
  <2>. QED
    BY <1>2, <1>4, <1>5, <2>1 DEF UnitsBehind
<1>. QED
  BY <1>4, <1>8, <1>9 DEF InFigure

\* A figure stands in the sources wherever its stretch does.
LEMMA FigureShifts ==
    ASSUME NEW text \in Seq(Symbols), NEW sources \in Seq(Symbols), NEW d \in Int,
           NEW r \in Figures(text), Shifted(text, sources, r[1], r[2], d)
    PROVE  /\ r[1] + d \in DOMAIN sources /\ r[2] + d \in DOMAIN sources /\ r[1] + d <= r[2] + d
           /\ \A p \in r[1] + d .. r[2] + d : InFigure(sources, p)
<1>1. DOMAIN sources = 1 .. Len(sources)
  BY LenProperties
<1>2. /\ r[1] \in Nat /\ r[2] \in Nat /\ r[1] <= r[2]
      /\ \A p \in r[1] .. r[2] : text[p] \in FigureSymbols
  BY FigureIs
<1>3. \A p \in r[1] + d .. r[2] + d : p - d \in r[1] .. r[2] /\ p - d + d = p
  BY <1>2
<1>4. \A p \in r[1] + d .. r[2] + d : InFigure(sources, p)
  BY <1>1, <1>2, <1>3 DEF Shifted, InFigure
<1>5. /\ r[1] + d \in r[1] + d .. r[2] + d /\ r[2] + d \in r[1] + d .. r[2] + d
      /\ r[1] + d <= r[2] + d
  BY <1>2
<1>. QED
  BY <1>4, <1>5 DEF InFigure

\* A match that passes stands in the sources.
LEMMA MatchStands ==
    ASSUME NEW text \in Seq(Symbols), NEW sources \in Seq(Symbols),
           Passes(Spans(text), sources), NEW r \in Found(text)
    PROVE  \E d \in Int : \A p \in r[1] .. r[2] - 1 :
              p + d \in 1 .. Len(sources) /\ sources[p + d] = text[p]
<1>. DEFINE merged == Merged(text)
<1>1. MergedTo(merged, Found(text))
  BY MergedIs
<1>2. PICK i \in 1 .. Len(merged) : merged[i][1] <= r[1] /\ r[2] <= merged[i][2]
  BY <1>1 DEF MergedTo
<1>3. PICK d \in Int : \A p \in merged[i][1] .. merged[i][2] - 1 :
         p + d \in 1 .. Len(sources) /\ sources[p + d] = text[p]
  BY SpanStands
<1>. HIDE DEF merged
<1>4. \A p \in r[1] .. r[2] - 1 : p \in merged[i][1] .. merged[i][2] - 1
  <2>1. r \in Nat \X Nat /\ merged[i] \in Nat \X Nat
    BY <1>1, FoundIs, ElementOfSeq DEF MergedTo
  <2>2. r[1] \in Nat /\ r[2] \in Nat /\ merged[i][1] \in Nat /\ merged[i][2] \in Nat
    BY <2>1
  <2>. QED
    BY <1>2, <2>2
<1>. QED
  BY <1>3, <1>4

\* An amount with its sign and its unit is one span, and stands in the sources whole.
LEMMA WholeStands ==
    ASSUME NEW text \in Seq(Symbols), NEW sources \in Seq(Symbols),
           Passes(Spans(text), sources), NEW r \in Figures(text),
           NEW g \in SignsBefore(text, r[1]), NEW u \in WordsBehind(text, r[2])
    PROVE  \E s \in Figures(sources) :
              /\ Figure(sources, s) = Figure(text, r) /\ SignsBefore(sources, s[1]) # {}
              /\ \E v \in UnitsBehind(sources, s[2]) : sources[v] = text[u]
<1>. DEFINE a == r[1]
            b == r[2]
            front == <<g, b + 1>>
            back == <<a, u + 1>>
<1>1. a \in Nat /\ b \in Nat /\ a <= b
  BY FigureIs
<1>2. /\ front \in Found(text) /\ back \in Found(text)
      /\ g \in Nat /\ g < a /\ u \in Nat /\ b < u /\ u \in UnitsBehind(text, b)
  BY MatchesOf
<1>. HIDE DEF a, b
<1>3. PICK i \in 1 .. Len(Merged(text)) :
         Merged(text)[i][1] <= g /\ u + 1 <= Merged(text)[i][2]
  <2>1. a \in front[1] .. front[2] - 1 /\ a \in back[1] .. back[2] - 1
    BY <1>1, <1>2
  <2>2. \E i \in 1 .. Len(Merged(text)) :
           Merged(text)[i][1] <= front[1] /\ back[2] <= Merged(text)[i][2]
    <3>. HIDE DEF front, back
    <3>. QED
      BY <1>2, <2>1, OneSpan
  <2>. QED
    BY <2>2
<1>4. PICK d \in Int : \A p \in Merged(text)[i][1] .. Merged(text)[i][2] - 1 :
         p + d \in 1 .. Len(sources) /\ sources[p + d] = text[p]
  BY SpanStands
<1>5. Merged(text)[i][1] \in Nat /\ Merged(text)[i][2] \in Nat
  <2>1. Merged(text)[i] \in Nat \X Nat
    BY MergedIs, ElementOfSeq DEF MergedTo
  <2>. QED
    BY <2>1
<1>6. Shifted(text, sources, g, u, d)
  <2>1. \A p \in g .. u : p \in Merged(text)[i][1] .. Merged(text)[i][2] - 1
    BY <1>2, <1>3, <1>5
  <2>. QED
    BY <1>4, <2>1 DEF Shifted
<1>7. /\ Shifted(text, sources, g, a - 1, d) /\ Shifted(text, sources, a, b, d)
      /\ Shifted(text, sources, b + 1, u, d)
  <2>1. /\ \A p \in g .. a - 1 : p \in g .. u
        /\ \A p \in a .. b : p \in g .. u
        /\ \A p \in b + 1 .. u : p \in g .. u
    BY <1>1, <1>2
  <2>. QED
    BY <1>6, <2>1 DEF Shifted
<1>. DEFINE x == a + d
            y == b + d
            s == <<x, y>>
<1>8. g + d \in SignsBefore(sources, x) /\ ~InFigure(sources, x - 1)
  BY <1>1, <1>7, SignShifts DEF a
<1>9. /\ u + d \in UnitsBehind(sources, y) /\ sources[u + d] = text[u]
      /\ ~InFigure(sources, y + 1)
  BY <1>1, <1>2, <1>7, UnitShifts
<1>10. s \in Figures(sources)
  <2>1. /\ x \in DOMAIN sources /\ y \in DOMAIN sources /\ x <= y
        /\ \A p \in x .. y : InFigure(sources, p)
    BY <1>7, FigureShifts DEF a, b
  <2>. HIDE DEF x, y
  <2>. QED
    BY <1>8, <1>9, <2>1 DEF Figures
<1>11. Figure(sources, s) = Figure(text, r)
  <2>1. \A p \in a .. b : sources[p + d] = text[p]
    BY <1>7 DEF Shifted
  <2>2. s[1] = r[1] + d /\ s[2] = r[2] + d
    BY DEF a, b
  <2>. HIDE DEF s
  <2>. QED
    BY <1>10, <2>1, <2>2, SameFigure DEF a, b
<1>12. s[1] = x /\ s[2] = y
  OBVIOUS
<1>. HIDE DEF s, x, y
<1>. QED
  BY <1>8, <1>9, <1>10, <1>11, <1>12

\* What begins alike is a prefix.
LEMMA PrefixBy ==
    ASSUME NEW S, NEW s \in Seq(S), NEW t \in Seq(S), Len(s) <= Len(t),
           \A x \in 1 .. Len(s) : s[x] = t[x]
    PROVE  IsPrefix(s, t)
<1>. DEFINE n == Len(s)
            u == SubSeq(s, 1, n)
            v == SubSeq(t, 1, n)
<1>1. /\ n \in Nat /\ n <= Len(t) /\ Len(t) \in Nat
      /\ \A x \in 1 .. n : s[x] \in S
      /\ \A x \in 1 .. Len(t) : t[x] \in S
  BY LenProperties, ElementOfSeq
<1>. HIDE DEF n
<1>2. \A x \in 1 .. n : t[x] \in S
  BY <1>1
<1>3. 1 \in Int /\ n \in Int /\ n - 1 + 1 = n /\ (IF 1 <= n THEN n - 1 + 1 ELSE 0) = n
  BY <1>1
<1>4. u \in Seq(S) /\ Len(u) = n /\ \A x \in 1 .. n : u[x] = s[1 + x - 1]
  BY <1>1, <1>3, SubSeqProperties
<1>5. v \in Seq(S) /\ Len(v) = n /\ \A x \in 1 .. n : v[x] = t[1 + x - 1]
  BY <1>2, <1>3, SubSeqProperties
<1>6. \A x \in 1 .. n : 1 + x - 1 = x
  BY <1>1
<1>7. \A x \in 1 .. n : u[x] = v[x]
  <2>1. \A x \in 1 .. n : s[x] = t[x]
    BY DEF n
  <2>. HIDE DEF u, v
  <2>. QED
    BY <1>4, <1>5, <1>6, <2>1
<1>. HIDE DEF u, v
<1>8. u = v
  BY <1>4, <1>5, <1>7, SeqEqual
<1>. QED
  BY <1>8 DEF IsPrefix, n, u, v

\* A sequence read backwards.
LEMMA ReverseIs ==
    ASSUME NEW S, NEW s \in Seq(S)
    PROVE  /\ Reverse(s) \in Seq(S) /\ Len(Reverse(s)) = Len(s)
           /\ \A x \in 1 .. Len(s) : Reverse(s)[x] = s[Len(s) - x + 1]
<1>. DEFINE n == Len(s)
<1>1. n \in Nat /\ \A x \in 1 .. n : s[x] \in S
  BY LenProperties, ElementOfSeq
<1>2. Reverse(s) = [x \in 1 .. n |-> s[(n - x) + 1]]
  BY DEF Reverse
<1>. HIDE DEF n
<1>3. \A x \in 1 .. n : s[(n - x) + 1] \in S
  <2>1. \A x \in 1 .. n : (n - x) + 1 \in 1 .. n
    BY <1>1
  <2>. QED
    BY <1>1, <2>1
<1>4. Reverse(s) \in [1 .. n -> S]
  BY <1>2, <1>3
<1>5. Reverse(s) \in Seq(S) /\ Len(Reverse(s)) = n
  BY <1>1, <1>4, LenProperties
<1>6. \A x \in 1 .. n : Reverse(s)[x] = s[n - x + 1]
  BY <1>2
<1>. QED
  BY <1>5, <1>6 DEF n

\* What ends alike is a suffix.
LEMMA SuffixBy ==
    ASSUME NEW S, NEW s \in Seq(S), NEW t \in Seq(S), Len(s) <= Len(t),
           \A x \in 1 .. Len(s) : s[Len(s) - x + 1] = t[Len(t) - x + 1]
    PROVE  IsSuffix(s, t)
<1>. DEFINE u == Reverse(s)
            v == Reverse(t)
<1>1. /\ u \in Seq(S) /\ Len(u) = Len(s)
      /\ \A x \in 1 .. Len(s) : u[x] = s[Len(s) - x + 1]
  BY ReverseIs
<1>2. /\ v \in Seq(S) /\ Len(v) = Len(t)
      /\ \A x \in 1 .. Len(t) : v[x] = t[Len(t) - x + 1]
  BY ReverseIs
<1>. HIDE DEF u, v
<1>3. \A x \in 1 .. Len(s) : u[x] = v[x]
  <2>1. Len(s) \in Nat /\ Len(t) \in Nat
    BY LenProperties
  <2>2. \A x \in 1 .. Len(s) : x \in 1 .. Len(t)
    BY <2>1
  <2>. QED
    BY <1>1, <1>2, <2>2
<1>4. IsPrefix(u, v)
  BY <1>1, <1>2, <1>3, PrefixBy
<1>. QED
  BY <1>4 DEF IsSuffix, u, v

\* A figure with its unit ends a figure of the sources with its unit.
LEMMA EndStands ==
    ASSUME NEW text \in Seq(Symbols), NEW sources \in Seq(Symbols),
           Passes(Spans(text), sources), NEW r \in Figures(text), NEW u \in WordsBehind(text, r[2])
    PROVE  \E s \in Figures(sources) :
              /\ IsSuffix(Figure(text, r), Figure(sources, s))
              /\ \E v \in UnitsBehind(sources, s[2]) : sources[v] = text[u]
<1>. DEFINE a == r[1]
            b == r[2]
            m == <<a, u + 1>>
            all == Len(sources)
<1>1. a \in Nat /\ b \in Nat /\ a <= b
  BY FigureIs
<1>2. m \in Found(text) /\ u \in Nat /\ b < u /\ u \in UnitsBehind(text, b)
  BY MatchesOf
<1>3. all \in Nat /\ DOMAIN sources = 1 .. all
  BY LenProperties
<1>. HIDE DEF a, b, all
<1>4. PICK d \in Int : Shifted(text, sources, a, u, d)
  <2>1. PICK d \in Int : \A p \in m[1] .. m[2] - 1 :
           p + d \in 1 .. Len(sources) /\ sources[p + d] = text[p]
    <3>. HIDE DEF m
    <3>. QED
      BY <1>2, MatchStands
  <2>2. m[1] = a /\ m[2] - 1 = u
    BY <1>2
  <2>. QED
    BY <2>1, <2>2 DEF Shifted
<1>5. Shifted(text, sources, a, b, d) /\ Shifted(text, sources, b + 1, u, d)
  <2>1. /\ \A p \in a .. b : p \in a .. u
        /\ \A p \in b + 1 .. u : p \in a .. u
    BY <1>1, <1>2
  <2>. QED
    BY <1>4, <2>1 DEF Shifted
<1>. DEFINE x == a + d
            y == b + d
<1>6. /\ x \in 1 .. all /\ y \in 1 .. all /\ x <= y
      /\ \A p \in x .. y : InFigure(sources, p)
  BY <1>3, <1>5, FigureShifts DEF a, b
<1>7. /\ u + d \in UnitsBehind(sources, y) /\ sources[u + d] = text[u]
      /\ ~InFigure(sources, y + 1)
  BY <1>1, <1>2, <1>5, UnitShifts
<1>. HIDE DEF x, y
<1>. DEFINE others == {z \in 0 .. x : ~InFigure(sources, z)}
<1>8. PICK z \in others : \A w \in others : w <= z
  <2>1. 0 \in others /\ x \in Nat
    BY <1>3, <1>6 DEF InFigure
  <2>2. others \subseteq 0 .. x /\ others # {}
    BY <2>1
  <2>. HIDE DEF others
  <2>. QED
    BY <2>1, <2>2, Greatest
<1>9. z \in Nat /\ z < x /\ ~InFigure(sources, z)
  <2>1. InFigure(sources, x) /\ x \in Nat
    BY <1>6
  <2>2. z \in 0 .. x /\ z # x
    BY <2>1
  <2>. QED
    BY <2>1, <2>2
<1>. DEFINE c == z + 1
            s == <<c, y>>
<1>10. ASSUME NEW p \in c .. y PROVE InFigure(sources, p)
  <2>1. CASE p \in x .. y
    BY <1>6, <2>1
  <2>2. CASE p \notin x .. y
    <3>1. p \in 0 .. x /\ ~ (p <= z)
      BY <1>6, <1>9, <2>2
    <3>. QED
      BY <1>8, <3>1
  <2>. QED
    BY <2>1, <2>2
<1>. HIDE DEF others
<1>11. c \in 1 .. all /\ c <= x /\ c - 1 = z
  BY <1>3, <1>6, <1>9
<1>. HIDE DEF c
<1>12. s \in Figures(sources)
  <2>1. c <= y
    BY <1>3, <1>6, <1>11
  <2>. QED
    BY <1>3, <1>6, <1>7, <1>9, <1>10, <1>11, <2>1 DEF Figures
<1>. DEFINE f == Figure(text, r)
            g == Figure(sources, s)
            n == b - a + 1
            l == y - c + 1
<1>13. /\ f \in Seq(FigureSymbols) /\ Len(f) = n
       /\ \A i \in 1 .. n : f[i] = text[a + i - 1]
  BY FigureText DEF a, b
<1>14. /\ g \in Seq(FigureSymbols) /\ Len(g) = l
       /\ \A i \in 1 .. l : g[i] = sources[c + i - 1]
  <2>1. s[1] = c /\ s[2] = y
    OBVIOUS
  <2>2. /\ Figure(sources, s) \in Seq(FigureSymbols)
        /\ Len(Figure(sources, s)) = s[2] - s[1] + 1
        /\ \A i \in 1 .. s[2] - s[1] + 1 : Figure(sources, s)[i] = sources[s[1] + i - 1]
    BY <1>12, FigureText
  <2>. QED
    BY <2>1, <2>2
<1>15. s[2] = y
  OBVIOUS
<1>. HIDE DEF f, g, s
<1>16. n \in Nat /\ l \in Nat /\ n <= l /\ y = b + d /\ c \in Nat
  <2>1. x = a + d /\ y = b + d
    BY DEF x, y
  <2>. QED
    BY <1>1, <1>6, <1>11, <2>1
<1>17. ASSUME NEW i \in 1 .. n PROVE f[n - i + 1] = g[l - i + 1]
  <2>1. /\ n - i + 1 \in 1 .. n /\ l - i + 1 \in 1 .. l
        /\ a + (n - i + 1) - 1 = b - i + 1 /\ c + (l - i + 1) - 1 = b - i + 1 + d
        /\ b - i + 1 \in a .. b
    BY <1>1, <1>16
  <2>2. sources[b - i + 1 + d] = text[b - i + 1]
    BY <1>5, <2>1 DEF Shifted
  <2>3. f[n - i + 1] = text[a + (n - i + 1) - 1]
    BY <1>13, <2>1
  <2>4. g[l - i + 1] = sources[c + (l - i + 1) - 1]
    BY <1>14, <2>1
  <2>. QED
    BY <2>1, <2>2, <2>3, <2>4
<1>18. IsSuffix(f, g)
  <2>. HIDE DEF n, l
  <2>. QED
    BY <1>13, <1>14, <1>16, <1>17, SuffixBy
<1>. QED
  BY <1>7, <1>12, <1>15, <1>18 DEF f, g

\* A figure with its sign begins a figure of the sources with its sign.
LEMMA BeginningStands ==
    ASSUME NEW text \in Seq(Symbols), NEW sources \in Seq(Symbols),
           Passes(Spans(text), sources), NEW r \in Figures(text), NEW e \in SignsBefore(text, r[1])
    PROVE  \E s \in Figures(sources) :
              IsPrefix(Figure(text, r), Figure(sources, s)) /\ SignsBefore(sources, s[1]) # {}
<1>. DEFINE a == r[1]
            b == r[2]
            m == <<e, b + 1>>
            all == Len(sources)
<1>1. a \in Nat /\ b \in Nat /\ a <= b
  BY FigureIs
<1>2. m \in Found(text) /\ e \in Nat /\ e < a
  BY MatchesOf
<1>3. all \in Nat /\ DOMAIN sources = 1 .. all
  BY LenProperties
<1>. HIDE DEF a, b, all
<1>4. PICK d \in Int : Shifted(text, sources, e, b, d)
  <2>1. PICK d \in Int : \A p \in m[1] .. m[2] - 1 :
           p + d \in 1 .. Len(sources) /\ sources[p + d] = text[p]
    <3>. HIDE DEF m
    <3>. QED
      BY <1>2, MatchStands
  <2>2. m[1] = e /\ m[2] - 1 = b
    BY <1>1
  <2>. QED
    BY <2>1, <2>2 DEF Shifted
<1>5. Shifted(text, sources, e, a - 1, d) /\ Shifted(text, sources, a, b, d)
  <2>1. /\ \A p \in e .. a - 1 : p \in e .. b
        /\ \A p \in a .. b : p \in e .. b
    BY <1>1, <1>2
  <2>. QED
    BY <1>4, <2>1 DEF Shifted
<1>. DEFINE x == a + d
            y == b + d
<1>6. /\ x \in 1 .. all /\ y \in 1 .. all /\ x <= y
      /\ \A p \in x .. y : InFigure(sources, p)
  BY <1>3, <1>5, FigureShifts DEF a, b
<1>7. e + d \in SignsBefore(sources, x) /\ ~InFigure(sources, x - 1)
  BY <1>1, <1>5, SignShifts DEF a
<1>. HIDE DEF x, y
<1>. DEFINE others == {z \in y .. all + 1 : ~InFigure(sources, z)}
<1>8. PICK z \in others : \A w \in others : z <= w
  <2>1. all + 1 \in others
    BY <1>3, <1>6 DEF InFigure
  <2>2. others \subseteq Nat /\ others # {}
    BY <1>6, <2>1
  <2>. HIDE DEF others
  <2>. QED
    BY <2>2, Least
<1>9. z \in Nat /\ y < z /\ z <= all + 1 /\ ~InFigure(sources, z)
  <2>1. InFigure(sources, y) /\ y \in Nat
    BY <1>6
  <2>2. z \in y .. all + 1 /\ z # y
    BY <2>1
  <2>. QED
    BY <1>3, <2>1, <2>2
<1>. DEFINE c == z - 1
            s == <<x, c>>
<1>10. ASSUME NEW p \in x .. c PROVE InFigure(sources, p)
  <2>1. CASE p \in x .. y
    BY <1>6, <2>1
  <2>2. CASE p \notin x .. y
    <3>1. p \in y .. all + 1 /\ ~ (z <= p)
      BY <1>3, <1>6, <1>9, <2>2
    <3>. QED
      BY <1>8, <3>1
  <2>. QED
    BY <2>1, <2>2
<1>. HIDE DEF others
<1>11. c \in 1 .. all /\ y <= c /\ c + 1 = z
  BY <1>3, <1>6, <1>9
<1>. HIDE DEF c
<1>12. s \in Figures(sources)
  <2>1. x <= c
    BY <1>3, <1>6, <1>11
  <2>. QED
    BY <1>3, <1>6, <1>7, <1>9, <1>10, <1>11, <2>1 DEF Figures
<1>. DEFINE f == Figure(text, r)
            g == Figure(sources, s)
            n == b - a + 1
            l == c - x + 1
<1>13. /\ f \in Seq(FigureSymbols) /\ Len(f) = n
       /\ \A i \in 1 .. n : f[i] = text[a + i - 1]
  BY FigureText DEF a, b
<1>14. /\ g \in Seq(FigureSymbols) /\ Len(g) = l
       /\ \A i \in 1 .. l : g[i] = sources[x + i - 1]
  <2>1. s[1] = x /\ s[2] = c
    OBVIOUS
  <2>2. /\ Figure(sources, s) \in Seq(FigureSymbols)
        /\ Len(Figure(sources, s)) = s[2] - s[1] + 1
        /\ \A i \in 1 .. s[2] - s[1] + 1 : Figure(sources, s)[i] = sources[s[1] + i - 1]
    BY <1>12, FigureText
  <2>. QED
    BY <2>1, <2>2
<1>15. s[1] = x
  OBVIOUS
<1>. HIDE DEF f, g, s
<1>16. n \in Nat /\ l \in Nat /\ n <= l /\ x = a + d
  <2>1. x = a + d /\ y = b + d
    BY DEF x, y
  <2>. QED
    BY <1>1, <1>6, <1>11, <2>1
<1>17. ASSUME NEW i \in 1 .. n PROVE f[i] = g[i]
  <2>1. i \in 1 .. l /\ x + i - 1 = a + i - 1 + d /\ a + i - 1 \in a .. b
    BY <1>1, <1>16
  <2>2. sources[a + i - 1 + d] = text[a + i - 1]
    BY <1>5, <2>1 DEF Shifted
  <2>3. f[i] = text[a + i - 1]
    BY <1>13
  <2>4. g[i] = sources[x + i - 1]
    BY <1>14, <2>1
  <2>. QED
    BY <2>1, <2>2, <2>3, <2>4
<1>18. IsPrefix(f, g)
  <2>. HIDE DEF n, l
  <2>. QED
    BY <1>13, <1>14, <1>16, <1>17, PrefixBy
<1>. QED
  BY <1>7, <1>12, <1>15, <1>18 DEF f, g

\* The spans leave nothing out, add nothing, and lie apart.
LEMMA SpansCover ==
    ASSUME NEW text \in Seq(Symbols)
    PROVE  /\ Covered(text) = UNION {r[1] .. r[2] - 1 : r \in ToSet(Merged(text))}
           /\ \A i, j \in DOMAIN Merged(text) :
                 i < j => Merged(text)[i][2] < Merged(text)[j][1]
<1>. DEFINE merged == Merged(text)
<1>1. MergedTo(merged, Found(text))
  BY MergedIs
<1>. HIDE DEF merged
<1>2. DOMAIN merged = 1 .. Len(merged) /\ \A i \in 1 .. Len(merged) : merged[i] \in Nat \X Nat
  BY <1>1, LenProperties, ElementOfSeq DEF MergedTo
<1>3. ASSUME NEW p \in Covered(text)
      PROVE  p \in UNION {r[1] .. r[2] - 1 : r \in ToSet(merged)}
  <2>1. PICK r \in Found(text) : p \in r[1] .. r[2] - 1
    BY DEF Covered
  <2>2. PICK i \in 1 .. Len(merged) : merged[i][1] <= r[1] /\ r[2] <= merged[i][2]
    BY <1>1 DEF MergedTo
  <2>3. p \in merged[i][1] .. merged[i][2] - 1
    <3>1. r \in Nat \X Nat /\ merged[i] \in Nat \X Nat
      BY <1>2, FoundIs
    <3>2. r[1] \in Nat /\ r[2] \in Nat /\ merged[i][1] \in Nat /\ merged[i][2] \in Nat
      BY <3>1
    <3>. QED
      BY <2>1, <2>2, <3>2
  <2>. QED
    BY <1>2, <2>3 DEF ToSet
<1>4. ASSUME NEW p \in UNION {r[1] .. r[2] - 1 : r \in ToSet(merged)}
      PROVE  p \in Covered(text)
  <2>1. PICK i \in 1 .. Len(merged) : p \in merged[i][1] .. merged[i][2] - 1
    BY <1>2 DEF ToSet
  <2>2. \E r \in Found(text) : p \in r[1] .. r[2] - 1
    BY <1>1, <2>1 DEF MergedTo
  <2>. QED
    BY <2>2 DEF Covered
<1>5. \A i, j \in DOMAIN merged : i < j => merged[i][2] < merged[j][1]
  BY <1>1, <1>2 DEF MergedTo
<1>. QED
  BY <1>3, <1>4, <1>5 DEF merged

\* GuardSound of every reply and all sources: what passes the guard stands in them,
\* an amount with sign and unit whole and in one place (guard.py 58-96).
THEOREM GuardIsSound == Spec => []GuardSound
<1>1. Init => GuardSound
  <2>. SUFFICES ASSUME Init, question = "sources" PROVE GuardSound
    BY DEF GuardSound, MergesAll, WholeAmounts, EndsOfFigures
  <2>1. input \in Seq(Symbols)
    <3>1. input \in BoundedSeq(Symbols, MaxSources)
      BY DEF Init, Asked
    <3>. QED
      BY <3>1, BoundedSeqIs, LengthsAssumption
  <2>2. ASSUME NEW text \in Passing
        PROVE  text \in Seq(Symbols) /\ Passes(Spans(text), input)
    <3>1. text \in Replies /\ Passes(Spans(text), input)
      BY DEF Passing, Checked
    <3>2. text \in BoundedSeq(Symbols, MaxText)
      BY <3>1 DEF Replies
    <3>. QED
      BY <3>1, <3>2, BoundedSeqIs, LengthsAssumption
  <2>3. MergesAll
    BY <2>1, SpansCover DEF MergesAll
  <2>4. WholeAmounts
    BY <2>1, <2>2, WholeStands DEF WholeAmounts, Stands
  <2>5. EndsOfFigures
    <3>. SUFFICES ASSUME NEW text \in Passing, NEW r \in Figures(text)
                  PROVE  /\ \A u \in WordsBehind(text, r[2]) : Ends(text, r, u)
                         /\ SignsBefore(text, r[1]) # {} => Begins(text, r)
      BY Zenon DEF EndsOfFigures
    <3>1. text \in Seq(Symbols) /\ Passes(Spans(text), input)
      BY <2>2
    <3>2. ASSUME NEW u \in WordsBehind(text, r[2]) PROVE Ends(text, r, u)
      BY <2>1, <3>1, EndStands DEF Ends
    <3>3. ASSUME NEW e \in SignsBefore(text, r[1]) PROVE Begins(text, r)
      BY <2>1, <3>1, BeginningStands DEF Begins
    <3>. QED
      BY <3>2, <3>3
  <2>. QED
    BY <2>3, <2>4, <2>5 DEF GuardSound
<1>2. GuardSound /\ [Next]_vars => GuardSound'
  <2>. SUFFICES ASSUME GuardSound, [Next]_vars PROVE GuardSound'
    OBVIOUS
  <2>1. question' = question /\ input' = input
    BY DEF Next, vars
  <2>2. MergesAll'
    BY <2>1 DEF GuardSound, MergesAll
  <2>3. WholeAmounts'
    BY <2>1, Zenon DEF GuardSound, WholeAmounts, Passing, Stands
  <2>4. EndsOfFigures'
    <3>1. Passing' = Passing
      BY <2>1 DEF Passing
    <3>2. \A text, r, u : Ends(text, r, u)' <=> Ends(text, r, u)
      BY <2>1 DEF Ends
    <3>3. \A text, r : Begins(text, r)' <=> Begins(text, r)
      BY <2>1 DEF Begins
    <3>. QED
      BY <2>1, <3>1, <3>2, <3>3 DEF GuardSound, EndsOfFigures
  <2>. QED
    BY <2>2, <2>3, <2>4 DEF GuardSound
<1>. QED
  BY <1>1, <1>2, PTL DEF Spec

===============================================================================
