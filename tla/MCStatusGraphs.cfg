SPECIFICATION Spec
CONSTANTS
  Cores = {0, 1, 2}
  Sensors = {1, 2}
  BufferSize = 2
  Wanted = 3
  MaxReads = 7
  MaxActs = 4
  Pages <- AllPages
INVARIANTS WindowIsTheRecord ChoicesAreKept
CHECK_DEADLOCK FALSE
