SPECIFICATION Spec
CONSTANTS
    Timeout = 2
    Capacity = 2
    MaxChunks = 4
INVARIANTS
    TypeOK
    OutputComplete
    KilledOnlyWhenSilent
PROPERTIES
    EndIsNoticed
CHECK_DEADLOCK FALSE
