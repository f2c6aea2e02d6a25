\* A model that escalates another conversation.
SPECIFICATION Spec
CONSTANTS
    Convs = {c1, c2}
    Fields = {f1}
    Questions = {q1}
    NoQuestion = NoQuestion
    Clarify = Clarify
    StepCap = 1
    ClarificationLimit = 2
    Faults = {"misaddressed"}
    MaxBatch = 1
    MaxTalk = 3
    MaxCrashes = 0
INVARIANTS
    SilentAfterHandoff
