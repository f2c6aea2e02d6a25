\* The seeded inventory and the real limits; any first search, later ones of four.
SPECIFICATION Spec
CONSTANTS
    Inventory <- SeededProperties
    Localities <- LOCALITIES
    Adjacent <- ADJACENT
    Openings <- SomeOpenings
    Followups <- SomeFollowups
    None = None
    Prose = Prose
    Misfit = Misfit
    LastMonth <- December9999
    MinResults = 3
    MaxResults = 5
    BudgetRelaxation = 125
    ShownLimit = 8
    MaxSearches = 3
INVARIANTS
    AsLabelled
    BudgetFirst
    NothingWithheld
    SoundIsSteered
    NewestShown
