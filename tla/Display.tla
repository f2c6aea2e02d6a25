-------------------------------- MODULE Display --------------------------------
(***************************************************************************)
(* What the buyer reads of an amount and of an hour (app/format.py 41-127). *)
(* An amount is read as hundredths of a unit; the string is one to one     *)
(* with that, so two texts are the same when their records are.            *)
(***************************************************************************)
EXTENDS Integers

LAKH == 100000
CRORE == 10000000

\* Mutant: the fraction is cut off.
HalfUp_Down(n, d) == n \div d

\* n / d, rounded half-up (_quantize).
HalfUp(n, d) == (2 * n + d) \div (2 * d)

Hundredths(rupees, unit) == HalfUp(rupees, unit \div 100)

Text(unit, rupees) == [unit |-> unit, hundredths |-> Hundredths(rupees, unit)]

\* Mutant: the unit is chosen by the amount, not by what it rounds to.
IsCrore_Unrounded(rupees) == rupees >= CRORE

\* Nobody says 100 lakh, and rounding can push 99.995 lakh up to it.
IsCrore(rupees) == Hundredths(rupees, LAKH) >= 100 * 100

\* price_display; it raises unless the amount is positive.
price_display(rupees) == IF IsCrore(rupees) THEN Text(CRORE, rupees) ELSE Text(LAKH, rupees)

\* The rupees a text stands for.
Reading(text) == text.hundredths * (text.unit \div 100)

\* Mutant: the unit is always named once.
SharesUnit_Always(low, high) == TRUE

SharesUnit(low, high) == low.unit = high.unit

\* budget_display of a range, as a buyer reads it: an end without a unit of its own
\* has the one at the end of the text.
RangeReading(min, max) ==
    LET low == price_display(min)
        high == price_display(max)
    IN  << Reading(IF SharesUnit(low, high) THEN [low EXCEPT !.unit = high.unit] ELSE low),
           Reading(high) >>

\* Mutant: noon is still the morning.
Meridiem_NoonAm(hour) == IF hour <= 12 THEN "am" ELSE "pm"

Meridiem(hour) == IF hour < 12 THEN "am" ELSE "pm"

\* The clock of slot_display.
SlotHour(hour) == [clock |-> IF hour % 12 = 0 THEN 12 ELSE hour % 12, half |-> Meridiem(hour)]
===============================================================================
