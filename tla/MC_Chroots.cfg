SPECIFICATION Spec
CONSTANTS
    Native = native
    Buildroot = buildroot
    Rootfs = rootfs
    native = native
    buildroot = buildroot
    rootfs = rootfs
    Channels = {edge, stable}
    UsrMerge = {edge}
    edge = edge
    stable = stable
    None = none
    none = none
    Builds <- MCBuilds
    Queues <- MCQueues
    MaxNested = 1
    MaxRuns = 2
INVARIANTS
    TypeOK
    DeletesNothingMounted
    RecordIsTrue
    ReadyWhenRun
    InstallSurvivesBuilds
    NoStaleNative
    StrictBuildsAreFresh
CHECK_DEADLOCK FALSE
