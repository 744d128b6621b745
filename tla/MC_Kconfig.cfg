CONSTANTS
    Options <- MCOptions
    Scenarios <- MCScenarios
    Apkbuilds <- MCApkbuilds
    FragmentNames <- MCFragmentNames
    NoArch = "none"
    MaxCommands = 3
SPECIFICATION Spec
INVARIANTS
    RulesCanBeMet
    EditsAreKept
CHECK_DEADLOCK FALSE
