------------------------------- MODULE MCSearch -------------------------------
(***************************************************************************)
(* Searches of the seeded inventory, for model checking.                   *)
(***************************************************************************)
EXTENDS Search, Inventory

SeededProperties == PROPERTIES

\* Amounts in rupees: none, no positive one, and values around the seeded prices, two of them a
\* seeded price, and one within 300 rupees of another.
Minima == {None, 0, 9000000}
Maxima == {None, Prose, -1, 0, 1000000, 5200300, 8600000, 12500000}
Orders == {s \in Places : Len(s) = 2 => s[1] # s[2]} \cup {<<"Bopal West">>, Misfit}
December9999 == Month(9999, 12)
Befores == {None, Prose, Misfit, Month(2024, 6), Month(2026, 6), December9999}

SomeOpenings ==
    [min : Minima, max : Maxima, places : Orders, bhk : {None, Prose, 2, 3, 4}, before : Befores]

\* Five exact matches, three near ones, and one that is refused.
SomeFollowups ==
    { [min |-> None, max |-> None, places |-> <<Bopal>>, bhk |-> 3, before |-> None],
      [min |-> None, max |-> None, places |-> <<SouthBopal>>, bhk |-> None, before |-> None],
      [min |-> None, max |-> 8000000, places |-> <<Satellite>>, bhk |-> 3, before |-> None],
      [min |-> None, max |-> None, places |-> <<>>, bhk |-> 7, before |-> None] }
===============================================================================
