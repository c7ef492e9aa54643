CONSTANTS
    Ifaces = {"wan"}
    Enabled = {"wan"}
    Config <- JustWan
    Tracked = {"wan"}
    InitialOffline = {}
    Devs = {"eth1"}
    Trackers = {"t1", "t2"}
    Periodic = TRUE
    Commands = {}
    MaxPending = 2
SPECIFICATION FairSpec
PROPERTIES
    CallsReturn
    GoodLinkIsUsed
    DeadLinkIsShed
CHECK_DEADLOCK FALSE
