\* Two conversations and every fault, also ids of one conversation used in the other.
SPECIFICATION Spec
CONSTANTS
    Convs = {c1, c2}
    Fields = {f1}
    Questions = {q1}
    NoQuestion = NoQuestion
    Clarify = Clarify
    StepCap = 1
    ClarificationLimit = 2
    Faults = {"malformed", "misaddressed", "badSections"}
    MaxBatch = 1
    MaxTalk = 3
    MaxCrashes = 1
SYMMETRY ConvSymmetry
INVARIANTS
    TypeOK
    OneLead
    GroundedOnly
