CONSTANTS
    Down = 2
    Up = 3
    Reliability = 2
    Targets = 3
    CheckQuality = TRUE
SPECIFICATION FairSpec
PROPERTIES
    Debounces
    ChangesAreReported
