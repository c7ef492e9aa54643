SPECIFICATION Spec
CONSTANTS
  Entries <- MCEntries
  MaxLog = 3
  Increment = 1
  FirstTail = 1
  Forms <- MCForms
  Polls = {1, 2}
  Scenarios <- MCScenarios
INVARIANT SettingsAreKept
PROPERTIES ButtonsComeBack LogIsFollowed
CHECK_DEADLOCK FALSE
