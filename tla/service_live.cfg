SPECIFICATION FairSpec
CONSTANTS
  w1 = w1
  w2 = w2
  m1 = m1
  stop = stop
  send = send
  hello = hello
  NoEvent = NoEvent
  None = None
  Workers <- Processes
  Checkpoints <- NoCheckpoint
  Bounded = TRUE
  Messages <- ChatAndControl
  Controls <- StopMessage
  Commands <- OneCommand
  Texts <- OneText
  MaxRounds = 1
  MaxAsks = 1
  MaxFaults = 2
  MaxFreezes = 0
PROPERTIES ReplyEventuallySent
