\* Two POSTs, the second perhaps a resend, a turn of two steps, a restart at any moment.
SPECIFICATION Spec
CONSTANTS
    Requests = {r1, r2}
    WaIds = {a}
    NoId = NoId
    DebounceMs = 1
    DebounceMaxMs = 2
    LastArrival = 2
    Conv = c1
    Fields = {f1}
    Questions = {}
    NoQuestion = NoQuestion
    Clarify = Clarify
    StepCap = 2
    ClarificationLimit = 3
    Faults = {}
    MaxBatch = 0
    MaxRestarts = 1
INVARIANTS
    ReplyIsStored
PROPERTIES
    DebounceSpec
    Answered
    TurnEnds
    LeadHandedOver
