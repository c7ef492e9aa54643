CONSTANTS
    Ifaces = {"wan"}
    Enabled = {"wan"}
    Config <- JustWan
    Tracked = {}
    InitialOffline = {}
    Devs = {"eth1"}
    Trackers = {"t1", "t2"}
    Periodic = TRUE
    Commands = {"restart"}
    MaxPending = 1
SPECIFICATION FairSpec
PROPERTIES
    RestartReloads
CHECK_DEADLOCK FALSE
