-------------------------------- MODULE Phrases --------------------------------
(***************************************************************************)
(* What the display strings, the grounding check and the worker check      *)
(* promise together: amounts and hours a buyer reads (Display), a reply    *)
(* held against its sources (Guard), and a command line the process was    *)
(* launched with (Workers).  A behaviour is one input; nothing moves.      *)
(***************************************************************************)
EXTENDS Display, Guard, Workers

CONSTANTS
    Amounts,        \* rupees
    MaxSources,     \* the longest sources text
    MaxText,        \* the longest reply
    Tokens,         \* what a command line may hold
    MaxArgv,        \* the longest command line
    Concurrency     \* WEB_CONCURRENCY

\* price_display raises for anything else (format.py 58-59).
ASSUME AmountsAssumption == Amounts \subseteq Nat \ {0}

ASSUME LengthsAssumption == {MaxSources, MaxText, MaxArgv} \subseteq Nat

ASSUME LaunchAssumption ==
    /\ Tokens \subseteq [kind : {"flag", "inline", "word"}, value : Nat]
    /\ \A token \in Tokens : token.kind = "flag" => token = Flag
    /\ Concurrency \subseteq Nat \cup {Unset}

VARIABLES question, input

vars == <<question, input>>

Asked(q, S) == question = q /\ input \in S

Init ==
    \/ Asked("amounts", Amounts \X Amounts)
    \/ Asked("hours", (0 .. 23) \X (0 .. 23))
    \/ Asked("sources", BoundedSeq(Symbols, MaxSources))
    \/ Asked("launch", BoundedSeq(Tokens, MaxArgv) \X Concurrency)

Next == UNCHANGED vars

Spec == Init /\ [][Next]_vars

-------------------------------------------------------------------------------
(***************************************************************************)
(* Display.                                                                *)
(***************************************************************************)

\* An amount is read as itself to half a hundredth of its unit, and a dearer
\* home never reads cheaper, across the change from lakh to crore (format.py 51-60).
PricesRead ==
    question = "amounts" =>
        LET a == input[1]
            b == input[2]
            miss == Reading(price_display(a)) - a
        IN  /\ a <= b => Reading(price_display(a)) <= Reading(price_display(b))
            /\ 200 * (IF miss < 0 THEN -miss ELSE miss) <= price_display(a).unit

\* Two amounts that read the same are written the same: the guard compares text,
\* and "100 lakh" would never be found in "1 crore" (format.py 3-6, 56-60).
OneText ==
    question = "amounts" =>
        LET a == price_display(input[1])
            b == price_display(input[2])
        IN  Reading(a) = Reading(b) => a = b

\* A range reads as its two ends, whichever of them names the unit
\* (format.py 91-113).
RangesRead ==
    question = "amounts" =>
        RangeReading(input[1], input[2])
            = <<Reading(price_display(input[1])), Reading(price_display(input[2]))>>

\* Two visits of one day at different hours never read the same (format.py 116-127).
HoursDiffer ==
    question = "hours" => (SlotHour(input[1]) = SlotHour(input[2]) => input[1] = input[2])

\* What the buyer reads is what was meant: of amounts, across the change of unit, of
\* a range, and of an hour (format.py 51-127).
ReadsBack == PricesRead /\ OneText /\ RangesRead /\ HoursDiffer

-------------------------------------------------------------------------------
(***************************************************************************)
(* Guard: input is the sources of the turn, text any reply.                *)
(***************************************************************************)

Replies == {text \in BoundedSeq(Symbols, MaxText) : Found(text) # {}}

\* The replies the guard looks at, with their spans.
Checked == {<<text, Spans(text)>> : text \in Replies}

\* Those it lets pass.
Passing == {reply[1] : reply \in {any \in Checked : Passes(any[2], input)}}

\* The positions that matches cover.
Covered(text) == UNION {r[1] .. r[2] - 1 : r \in Found(text)}

\* The pass over the sorted matches leaves exactly the longest stretches that
\* matches cover: no two spans overlap or touch (guard.py 68-83).
MergesAll ==
    question = "sources" =>
        LET merged == Merged(input)
        IN  /\ Covered(input) = UNION {r[1] .. r[2] - 1 : r \in ToSet(merged)}
            /\ \A i, j \in DOMAIN merged : i < j => merged[i][2] < merged[j][1]

Figure(text, r) == SubSeq(text, r[1], r[2])

\* Figure r of text stands in the sources whole, with a sign, and with the unit that
\* stands at u.
Stands(text, r, u) ==
    \E s \in Figures(input) :
        /\ Figure(input, s) = Figure(text, r)
        /\ SignsBefore(input, s[1]) # {}
        /\ \E v \in UnitsBehind(input, s[2]) : input[v] = text[u]

\* Figure r of text ends one of the sources that has the unit of u behind it.
Ends(text, r, u) ==
    \E s \in Figures(input) :
        /\ IsSuffix(Figure(text, r), Figure(input, s))
        /\ \E v \in UnitsBehind(input, s[2]) : input[v] = text[u]

\* Figure r of text begins one of the sources that has a sign before it.
Begins(text, r) ==
    \E s \in Figures(input) :
        IsPrefix(Figure(text, r), Figure(input, s)) /\ SignsBefore(input, s[1]) # {}

\* An amount written with its sign and its unit passes only if the same amount
\* stands in the sources, whole and in one place, whatever its halves do
\* (guard.py 58-67).
WholeAmounts ==
    question = "sources" =>
        \A text \in Passing :
            \A r \in Figures(text) :
                SignsBefore(text, r[1]) # {} =>
                    \A u \in WordsBehind(text, r[2]) : Stands(text, r, u)

\* A figure that lacks its sign or its unit may be the end or the beginning of a
\* longer one in the sources, but never a middle, never digits of two figures and
\* never with another unit (guard.py 94-96).
EndsOfFigures ==
    question = "sources" =>
        \A text \in Passing :
            \A r \in Figures(text) :
                /\ \A u \in WordsBehind(text, r[2]) : Ends(text, r, u)
                /\ SignsBefore(text, r[1]) # {} => Begins(text, r)

\* Any price in a reply that passes stands in the sources (guard.py 3-4), also one
\* whose unit goes on in further letters, as in a plural.
AnyPrice ==
    question = "sources" =>
        \A text \in Passing :
            \A r \in Figures(text) :
                SignsBefore(text, r[1]) # {} =>
                    \A u \in UnitsBehind(text, r[2]) : Stands(text, r, u)

\* What passes the guard stands in the sources: spans are merged before they are
\* held against them, so that no figure passes by its halves (guard.py 58-96).
GuardSound == MergesAll /\ WholeAmounts /\ EndsOfFigures

-------------------------------------------------------------------------------
(***************************************************************************)
(* Workers.                                                                *)
(***************************************************************************)

\* A process that was started, passes its check and names the flag at most once
\* is the only worker.  With two flags the check reads the first and the launcher
\* the last (config.py 92-107).
SingleWorker ==
    question = "launch" =>
        LET argv == input[1]
            env == input[2]
        IN  /\ Starts(argv, env)
            /\ \A i, j \in Options(argv) : i = j
            /\ SingleWorkerAsserted(argv, env)
            => Launched(argv, env) = 1

\* A process that was started and passes its check is the only worker, however often
\* its command line names the flag (config.py:85-88).
AssertedIsAlone ==
    question = "launch" =>
        LET argv == input[1]
            env == input[2]
        IN  Starts(argv, env) /\ SingleWorkerAsserted(argv, env) => Launched(argv, env) = 1
===============================================================================
