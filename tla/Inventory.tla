------------------------------- MODULE Inventory -------------------------------
(***************************************************************************)
(* The seeded properties (app/seed.py) and the vocabulary of localities    *)
(* (app/enums.py), as far as a search looks at them.  A month counts from  *)
(* year 0.                                                                 *)
(***************************************************************************)
EXTENDS Integers, Sequences

Bopal == "Bopal"
SouthBopal == "South Bopal"
Shela == "Shela"
Satellite == "Satellite"

LOCALITIES == {Bopal, SouthBopal, Shela, Satellite}

\* What a locality relaxes to, in order.
ADJACENT ==
    [place \in LOCALITIES |->
        CASE place = Bopal      -> <<SouthBopal, Shela>>
          [] place = SouthBopal -> <<Bopal, Shela>>
          [] place = Shela      -> <<Bopal, SouthBopal>>
          [] place = Satellite  -> <<SouthBopal, Bopal>>]

Month(year, month) == 12 * year + month

\* A home by its price in thousands of rupees.
Home(id, place, bhk, price, year, month) ==
    [id |-> id, place |-> place, bhk |-> bhk, price |-> 1000 * price,
     month |-> Month(year, month)]

BopalHomes ==
    { Home(1, Bopal, 2, 5200, 2025, 6), Home(2, Bopal, 2, 4800, 2024, 11),
      Home(3, Bopal, 2, 6200, 2027, 3), Home(4, Bopal, 2, 6850, 2026, 12),
      Home(5, Bopal, 3, 9200, 2026, 2), Home(6, Bopal, 3, 10500, 2027, 6),
      Home(7, Bopal, 3, 8600, 2025, 9), Home(8, Bopal, 3, 12800, 2027, 12) }

SouthBopalHomes ==
    { Home(9, SouthBopal, 3, 9800, 2026, 1), Home(10, SouthBopal, 3, 11500, 2027, 3),
      Home(11, SouthBopal, 3, 13200, 2027, 9), Home(12, SouthBopal, 3, 14800, 2025, 12),
      Home(13, SouthBopal, 3, 9600, 2024, 8), Home(14, SouthBopal, 3, 12400, 2026, 12) }

ShelaHomes ==
    { Home(15, Shela, 2, 4300, 2025, 3), Home(16, Shela, 2, 5100, 2027, 6),
      Home(17, Shela, 2, 5950, 2026, 5), Home(18, Shela, 3, 7800, 2024, 12),
      Home(19, Shela, 3, 9400, 2027, 3), Home(20, Shela, 3, 10800, 2028, 3) }

SatelliteHomes ==
    { Home(21, Satellite, 3, 12500, 2025, 7), Home(22, Satellite, 3, 16200, 2027, 6),
      Home(23, Satellite, 3, 14500, 2026, 3), Home(24, Satellite, 3, 21500, 2028, 6),
      Home(25, Satellite, 3, 18800, 2024, 10) }

PROPERTIES == BopalHomes \cup SouthBopalHomes \cup ShelaHomes \cup SatelliteHomes
===============================================================================
