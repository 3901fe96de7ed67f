SPECIFICATION Spec
CONSTANTS
  m1 = m1
  m2 = m2
  supplement = supplement
  realtime = realtime
  NoEvent = NoEvent
  Workers <- Processes
  Checkpoints <- NoCheckpoint
  Messages <- OneMessage
  Bounded = TRUE
  Lookback = 2
  Overlap = 1
  Delay = 1
  Retention = 5
  FirstCheckpoints <- NewChat
  MaxTime = 5
  MaxFaults = 1
INVARIANTS OfferedIsNotLost
