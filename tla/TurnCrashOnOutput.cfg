\* Sections no set can take, in an otherwise faultless run.
SPECIFICATION Spec
CONSTANTS
    Convs = {c1}
    Fields = {f1}
    Questions = {q1}
    NoQuestion = NoQuestion
    Clarify = Clarify
    StepCap = 2
    ClarificationLimit = 2
    Faults = {"badSections"}
    MaxBatch = 1
    MaxTalk = 3
    MaxCrashes = 0
INVARIANTS
    NoCrash
