CONSTANTS
  Shells = {1}
  Authorities = {1}
  MaxClock = 2
  Scenarios <- MCScenarios
SPECIFICATION Spec
INVARIANTS
  CountsReceiptFollows
CHECK_DEADLOCK FALSE
