SPECIFICATION Spec
CONSTANTS
  Devices = {"a", "b"}
  Names = {"m", "n"}
  Calls = {1, 2, 3}
  LastMinute = 2
  Ranges = {"realtime", "day"}
  Lengths = {3, 5}
  MaxPoints = 3
  MaxLevel = 2
  Spans = {"year", "week"}
  Queries = {1, 2}
  Forms <- MCForms
  Facts <- MCFacts
  Filters = {"all", "some"}
  MaxPage = 2
  Sizes = {10, 20}
  Asks = {1, 2, 3}
  Rounds = 3
  Scenarios <- MCScenarios
INVARIANTS DialogKeepsToItsDevice ChartIsTrue NothingCoversTheList
CHECK_DEADLOCK FALSE
PROPERTIES TableShowsTheRules PageCatchesUp ListFollowsTheInputs
