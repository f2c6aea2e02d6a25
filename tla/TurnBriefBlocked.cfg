\* A writer's answer without a choice.
SPECIFICATION Spec
CONSTANTS
    Convs = {c1}
    Fields = {f1}
    Questions = {q1}
    NoQuestion = NoQuestion
    Clarify = Clarify
    StepCap = 2
    ClarificationLimit = 2
    Faults = {"malformed"}
    MaxBatch = 1
    MaxTalk = 1
    MaxCrashes = 0
INVARIANTS
    LeadComplete
