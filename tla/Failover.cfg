\* Two concurrent callers on the usual chain.
SPECIFICATION Spec
CONSTANTS
    primary = primary
    fallback = fallback
    lastResort = lastResort
    Chain <- ThreeModels
    Callers = {k1, k2}
    CircuitTicks = 2
    MaxTime = 3
    MaxCalls = 2
INVARIANTS
    PreferenceKept
    UnavailableMeansDown
PROPERTIES
    CallEnds
