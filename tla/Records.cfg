\* Two buyers, one key that both may use and one more, a clock of three ticks.
SPECIFICATION Spec
CONSTANTS
    Buyers = {b1, b2}
    Stranger = Stranger
    Properties = {p1}
    Keys = {k1, k2}
    OtherFields = {f1}
    Budgets = {0, 1, 2}
    BookingWindow = 2
    LastTick = 2
    MaxConfirmed = 2
SYMMETRY BuyerSymmetry
INVARIANTS
    BudgetOrder
    KeepsItsWord
    RetryUntilSlot
PROPERTIES
    NeverForgets
