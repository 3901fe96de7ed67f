SPECIFICATION FairSpec
CONSTANTS
  r1 = r1
  r2 = r2
  None = None
  Runs <- TwoRuns
  Dates <- TwoDates
  LastDate = 2
  MaxRounds = 3
  MaxRetries = 1
  MaxIncidents = 2
INVARIANTS TypeOK NoForeignCreate MarkedIsVerified
PROPERTIES DueIsAttempted
