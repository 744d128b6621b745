SPECIFICATION Spec
CONSTANTS
    Arches <- MCArches
    NoArch = "any"
    Apkbuilds <- MCApkbuilds
    FunctionOf <- MCFunctionOf
    DefaultFunctions <- MCDefaultFunctions
INVARIANTS
    BranchTheShellRuns
    AttributesOfTheShell
CHECK_DEADLOCK FALSE
