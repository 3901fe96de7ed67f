SPECIFICATION FairSpec
CONSTANTS
  m1 = m1
  m2 = m2
  supplement = supplement
  realtime = realtime
  NoEvent = NoEvent
  Workers <- Processes
  Checkpoints <- NoCheckpoint
  Messages <- TwoMessages
  Bounded = FALSE
  Lookback = 1
  Overlap = 1
  Delay = 1
  Retention = 1
  FirstCheckpoints <- NewOrKnown
  MaxTime = 3
  MaxFaults = 1
PROPERTIES CatchesUp
INVARIANTS TypeOK NoSkip
