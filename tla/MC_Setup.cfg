CONSTANTS
    Works = {"w1", "w2"}
    Own = "own"
    Channels <- MCChannels
    ChannelOf <- MCChannelOf
    Official <- MCOfficial
    DevicesOn <- MCDevicesOn
    NewDevice = "new"
    ServiceManagers <- MCServiceManagers
    Defaults <- MCDefaults
    MaxChanges = 3
SPECIFICATION Spec
INVARIANTS
    InitTakesEffect
    PulledIsUpstream
CHECK_DEADLOCK FALSE
