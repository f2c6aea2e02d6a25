------------------------------- MODULE MCPhrases -------------------------------
(***************************************************************************)
(* Amounts around every boundary of the display, texts of a few symbols    *)
(* and short command lines, for model checking.                            *)
(***************************************************************************)
EXTENDS Phrases

\* Where the rounding turns, where the unit changes, and prices in between.
Boundaries ==
    {500, 1000, LAKH, 5500000, 6255500, 9999000, 9999499, 9999500, CRORE,
     10049999, 10050000, 12500000, 99999500}

AroundBoundaries == {b + d : b \in Boundaries, d \in {-500, -1, 0, 1, 499}} \ {0}

SomeTokens ==
    {Flag, Inline(1), Inline(2), Inline(NotANumber), Word(1), Word(2), Word(NotANumber)}

SomeConcurrency == {Unset, NotANumber, 1, 2}
===============================================================================
