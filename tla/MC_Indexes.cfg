SPECIFICATION Spec
CONSTANTS
    Native = "x86_64"
    Foreign = "aarch64"
    Packages <- MCPackages
    Mismatched <- MCMismatched
    MinVersion = 2
    MaxVersion = 3
    MaxClock = 1
    MaxRuns = 3
INVARIANTS
    TypeOK
    LookupIsCurrent
    CreatesWithVerifiedApk
    UpdatedWasReceived
    IndexThereWhenNeeded
    IndexListsWhatIsThere
CHECK_DEADLOCK FALSE
