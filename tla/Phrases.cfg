\* Sources of up to five symbols against every reply of up to four.
SPECIFICATION Spec
CONSTANTS
    Amounts <- AroundBoundaries
    Rupee = Rupee
    Space = Space
    Digits = {1}
    Marks = {dot}
    Units = {lakh, crore}
    Letters = {s}
    Others = {}
    MaxSources = 5
    MaxText = 4
    Tokens <- SomeTokens
    MaxArgv = 4
    Concurrency <- SomeConcurrency
INVARIANTS
    ReadsBack
    GuardSound
    SingleWorker
