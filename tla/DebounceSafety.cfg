\* Four fragments with resends in one process lifetime.
SPECIFICATION Spec
CONSTANTS
    Requests = {r1, r2, r3, r4}
    WaIds = {a, b}
    NoId = NoId
    DebounceMs = 2
    DebounceMaxMs = 3
    LastArrival = 4
    MaxRestarts = 0
SYMMETRY Symmetry
INVARIANTS
    NoLostWakeup
    OneVoice
    HandledOnce
    Prompt
