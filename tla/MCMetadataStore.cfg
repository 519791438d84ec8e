SPECIFICATION Spec
CONSTANTS
    c1 = c1
    c2 = c2
    bad = bad
    NoContent = NoContent
    Content <- MCContent
    Sane <- MCSane
    Words = 3
    MaxCounter = 6
INVARIANTS
    NoCounterTie
PROPERTIES
    CopySurvives
    RefinesRegister
