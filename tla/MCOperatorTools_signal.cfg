SPECIFICATION ToolsSpec
CONSTANTS
  Parts = {"smoke"}
  p1 = p1
  p2 = p2
  Off = Off
  Absent = Absent
  Manual = Manual
  Scenes <- OneSignal
  MaxAttempts = 2
  Processes = {p1, p2}
  RunIds = {"run", "typo"}
  Messages = {1, 2, 3, 4}
  Destinations = {d1, d2, d3}
  TOTAL_GMAIL = 3
  ACQUISITION_DURATION = 1
  Slots = {s1}
  MaxTime = 2
  MaxFaults = 2
INVARIANT NothingOutlivesTheRun
CHECK_DEADLOCK FALSE
