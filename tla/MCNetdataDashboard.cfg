SPECIFICATION Spec
CONSTANTS
    Scenarios <- MCScenarios
    Spans = {1, 2}
    Charts = 2
    MaxDepth = 2
    Guids <- MCGuids
    Urls <- MCUrls
    Masked = "***"
    Me <- MCMe
    Lists <- MCLists
    Alarms <- MCAlarms
    MaxLog = 2
    Gauges = {"g1", "g2"}
    Pies = {"p"}
    Legends = {"d"}
    Values = {1, 10, 20}
    Dividers = {1, 10, 20}
    Labels = {"in", "out", "err"}
    Palette <- MCPalette
    Dimensions = {"in", "out", "err"}
    Catalogue <- MCCatalogue
    Alphabetical <- MCAlphabetical
INVARIANTS
    HashTellsTheView
    ScaleHoldsAll
    LegendTellsTheChart
    
PROPERTIES
    ChartsRunAgain
    PageComesUp
    ExportEnds
    NodesSettle
    RaisedIsNotified
    DataAreInTheUnits
CHECK_DEADLOCK FALSE
