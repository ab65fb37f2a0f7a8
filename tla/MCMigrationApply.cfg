CONSTANTS
  Runners = {r1, r2}
  Databases = {d1, d2}
  Checkouts <- MCCheckouts
  MaxStarts = 2
  MaxEdits = 1
  MaxManual = 1
SPECIFICATION FairSpec
INVARIANT LedgersAreSound
PROPERTIES LedgerIsALog EveryRunEnds
CHECK_DEADLOCK FALSE
