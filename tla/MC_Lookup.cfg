SPECIFICATION Spec
CONSTANTS
    Scenarios <- MCScenarios
    NameLength <- MCNameLength
    ArchWords <- MCArchWords
    MaxRel = 4
INVARIANTS
    LookupIsRight
    BrokenIsRebuilt
CHECK_DEADLOCK FALSE
