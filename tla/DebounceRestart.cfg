\* Three fragments with a resend and one restart at any moment; DEBOUNCE_MS=0, where
\* every fragment is due at once and a burst is what comes during a turn.
SPECIFICATION Spec
CONSTANTS
    Requests = {r1, r2, r3}
    WaIds = {a}
    NoId = NoId
    DebounceMs = 0
    DebounceMaxMs = 1
    LastArrival = 1
    MaxRestarts = 1
INVARIANTS
    UniqueRows
PROPERTIES
    Answered
    RefusedIsHeld
    MailboxSpec
