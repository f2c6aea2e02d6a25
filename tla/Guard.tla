--------------------------------- MODULE Guard ---------------------------------
(***************************************************************************)
(* The grounding check (app/guard.py 37-101) on a text of symbols: the     *)
(* rupee sign, a space, a digit, a comma or a dot, a unit word, another    *)
(* letter, and anything else.  Two of the six patterns are kept, those of  *)
(* an amount: the sign with the figure behind it, and a figure with the    *)
(* unit behind it.  A unit word is one symbol, so none of Units may begin  *)
(* another: crore, lakh and lac, but not their short forms.                *)
(***************************************************************************)
EXTENDS Integers, FiniteSets, Sequences, SequencesExt

CONSTANTS Rupee, Space, Digits, Marks, Units, Letters, Others

FigureSymbols == Digits \cup Marks
WordSymbols == Digits \cup Units \cup Letters
Symbols == {Rupee, Space} \cup FigureSymbols \cup WordSymbols \cup Others

ASSUME SymbolsAssumption ==
    /\ Rupee # Space /\ {Rupee, Space} \cap (FigureSymbols \cup WordSymbols) = {}
    /\ Marks \cap WordSymbols = {} /\ Units \cap Digits = {}

InFigure(text, i) == i \in DOMAIN text /\ text[i] \in FigureSymbols

\* The first and last index of every longest run of digits and marks.
Figures(text) ==
    { r \in (DOMAIN text) \X (DOMAIN text) :
        /\ r[1] <= r[2]
        /\ \A i \in r[1] .. r[2] : InFigure(text, i)
        /\ ~InFigure(text, r[1] - 1) /\ ~InFigure(text, r[2] + 1) }

\* Where a rupee sign stands before index first, with one space between at the most.
SignsBefore(text, first) ==
    {s \in DOMAIN text : /\ text[s] = Rupee
                         /\ s = first - 1 \/ (s = first - 2 /\ text[first - 1] = Space)}

\* Where a unit stands behind index last, with nothing but spaces between.
UnitsBehind(text, last) ==
    {u \in DOMAIN text : /\ text[u] \in Units /\ last < u
                         /\ \A i \in last + 1 .. u - 1 : text[i] = Space}

\* The same, and the word ends with the unit.
WordsBehind(text, last) ==
    {u \in UnitsBehind(text, last) : u = Len(text) \/ text[u + 1] \notin WordSymbols}

\* Where the patterns match: start, and end one past the match.
Found(text) ==
    UNION {{<<s, r[2] + 1>> : s \in SignsBefore(text, r[1])}
              \cup {<<r[1], u + 1>> : u \in WordsBehind(text, r[2])} : r \in Figures(text)}

Before(r, s) == r[1] < s[1] \/ (r[1] = s[1] /\ r[2] <= s[2])

\* Mutant: matches that only touch stay apart.
Joins_OverlapOnly(last, range) == range[1] < last[2]

\* Mutant: every match is a span of its own.
Joins_Never(last, range) == FALSE

\* Overlapping and touching matches belong together.
Joins(last, range) == range[1] <= last[2]

\* One step of the pass over the sorted matches.
Extend(merged, range) ==
    IF merged # <<>> /\ Joins(Last(merged), range)
    THEN [merged EXCEPT ![Len(merged)][2] = IF range[2] > @ THEN range[2] ELSE @]
    ELSE Append(merged, range)

\* The n-th of the sorted matches.
Nth(ranges, n) == CHOOSE r \in ranges : Cardinality({s \in ranges : Before(s, r)}) = n

\* The spans after every match has been taken in its turn.
Merged(text) ==
    LET ranges == Found(text)
        merged[n \in 0 .. Cardinality(ranges)] ==
            IF n = 0 THEN <<>> ELSE Extend(merged[n - 1], Nth(ranges, n))
    IN  merged[Cardinality(ranges)]

\* detect.
Spans(text) == {SubSeq(text, r[1], r[2] - 1) : r \in ToSet(Merged(text))}

\* Mutant: the symbols of the span are looked up one by one.
Occurs_Scattered(span, sources) == ToSet(span) \subseteq ToSet(sources)

\* span in sources: found anywhere, in the middle of a figure as well.
Occurs(span, sources) ==
    \E i \in 0 .. Len(sources) - Len(span) :
        SubSeq(sources, i + 1, i + Len(span)) = span

\* offending_spans is empty.
Passes(spans, sources) == \A span \in spans : Occurs(span, sources)
===============================================================================
