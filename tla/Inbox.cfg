\* One conversation of three turns and more with a crash, and one request of the broker.
SPECIFICATION ISpec
CONSTANTS
    Convs = {c1}
    Fields = {f1}
    Questions = {}
    NoQuestion = NoQuestion
    Clarify = Clarify
    StepCap = 2
    ClarificationLimit = 2
    Faults = {}
    MaxBatch = 1
    MaxTalk = 5
    MaxCrashes = 1
    MaxReads = 1
INVARIANTS
    NobodyForgotten
    NoneTwice
    PageAgrees
    SilentAfterHandoff
    CountBelowLimit
    NobodyIgnored
    LeadComplete
    HandoffHonoured
    BookedOrHeld
