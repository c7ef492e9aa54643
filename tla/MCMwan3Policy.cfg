CONSTANTS
    wan = wan
    wanb = wanb
    wan6 = wan6
    Ifaces = {wan, wanb, wan6}
    Family <- TwoAndOne
    Metrics = {1, 2, 3}
    Weights = {1, 700}
    MaxMembers = 3
    Lowest = 2
SYMMETRY Exchange
SPECIFICATION Spec
INVARIANTS
    BestAreInUse
    SharesFollowWeights
    ReportIsTruthful
CHECK_DEADLOCK FALSE
