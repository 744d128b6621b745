SPECIFICATION Spec
CONSTANTS
    Pkgs <- MCPkgs
    Names <- MCAllNames
    None = "none"
    MainPackage <- MCMain
    Alpine <- MCAlpine
    Substitute <- MCSubstitute
    Unbuildable <- MCUnbuildable
    BuildPackages <- MCBuildPackages
    DependChoices <- MCDependChoices
    IndexChoices <- MCIndexChoices
    Requests <- MCRequests
    Modes <- MCModes
    MaxCalls = 2
INVARIANTS
    TypeOK
    BuildsOnCurrentDependencies
    RequestsServed
PROPERTIES
    OnlyNecessaryBuilds
    CallEnds
CHECK_DEADLOCK FALSE
