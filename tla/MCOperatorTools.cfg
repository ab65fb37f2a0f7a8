SPECIFICATION ToolsSpec
CONSTANTS
  Parts = {"acquisition", "select", "preflight", "gmail", "smoke", "jwt", "migrate", "plan", "source"}
  p1 = p1
  p2 = p2
  Off = Off
  Absent = Absent
  Manual = Manual
  Scenes <- AnySmoke
  MaxAttempts = 2
  Processes = {p1, p2}
  RunIds = {"run", "typo"}
  Messages = {1, 2, 3, 4}
  Destinations = {d1, d2, d3}
  TOTAL_GMAIL = 3
  ACQUISITION_DURATION = 1
  Slots = {s1}
  MaxTime = 2
  MaxFaults = 2
INVARIANTS
  CompletionIsEarned SafeOneAtATime PreflightsAreSound MailReportsAreTrue ZeroExitMeansProven
  LocalTokensWork LocalMigrationIsSound PlansAreSound SourceRecordsAreSound
PROPERTIES
  AskedOnce StepsKeepWhatStands EveryProgramEnds
CHECK_DEADLOCK FALSE
