SPECIFICATION Spec
CONSTANTS
    Items <- MCItems
    Elsewhere = "elsewhere"
    NotFound = "notfound"
    BuildPackages <- MCBuildPackages
    Orders <- MCOrders
    DependLists <- MCDependLists
INVARIANTS
    TypeOK
    EveryItemOnce
    RespectsDependencies
    UnresolvableIsBlocked
PROPERTIES
    Terminates
    ImplementsCorrectOrder
