CONSTANTS
    Ifaces = {"wan"}
    Enabled = {"wan"}
    Config <- JustWan
    Tracked = {"wan"}
    InitialOffline = {"wan"}
    Devs = {"eth1"}
    Trackers = {"t1", "t2"}
    Periodic = TRUE
    Commands = {"start", "stop", "restart", "ifup", "ifdown"}
    MaxPending = 1
SPECIFICATION Spec
INVARIANTS
    PolicyFollowsState
    StoppedIsClean
    StateFollowsVerdict
CHECK_DEADLOCK FALSE
