CONSTANTS
  Shells = {1, 2}
  Authorities = {1, 2}
  MaxClock = 1
  Scenarios <- MCScenarios
SPECIFICATION FairSpec
INVARIANT EvidenceIsSound
PROPERTY EveryCommandEnds
CHECK_DEADLOCK FALSE
