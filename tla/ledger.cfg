SPECIFICATION FairSpec
CONSTANTS
  w1 = w1
  w2 = w2
  w3 = w3
  m1 = m1
  m2 = m2
  k1 = k1
  NoEvent = NoEvent
  Workers <- TwoWorkers
  Messages <- OneMessage
  Checkpoints <- OneCheckpoint
  ClaimTtl = 2
  MaintenanceInterval = 3
  Retention = 3
  Horizon = 4
  MaxFaults = 2
INVARIANTS TypeOK ExclusiveHandling HandlerOwnsClaim
PROPERTIES NoRehandling CompleteIsFinal ImplementsClaims EventuallyComplete
