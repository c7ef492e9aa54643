SPECIFICATION Spec
CONSTANTS
  Charts = {"cpu", "ram"}
  Windows = {"w1"}
  Slots = {1, 2}
  Retries = 1
  MaxLoops = 2
  Scenarios <- MCScenarios
INVARIANTS RefresherLives NothingIsStuck SelectionIsShared
CHECK_DEADLOCK FALSE

PROPERTIES ChartsFollowTheMaster ChartsReturnToLive
