CONSTANTS
    Link = 5
    Reset = 4
    Floor = 2
    Trickle = 1
    Period = 2
    Few = 2
    Enough = 3
    MinLimit = 1
    MaxLimit = 2
    Args <- CommandLines
    Trips = {0, 1, 2}
    Structures = {"a"}
SPECIFICATION QosFairSpec
PROPERTIES
    MeasurementEnds
    CongestionIsRelieved
CHECK_DEADLOCK FALSE
