SPECIFICATION Spec
CONSTANTS
  w1 = w1
  w2 = w2
  m1 = m1
  stop = stop
  send = send
  hello = hello
  NoEvent = NoEvent
  None = None
  Workers <- Processes
  Checkpoints <- NoCheckpoint
  Bounded = TRUE
  Messages <- ChatMessage
  Controls <- NoControl
  Commands <- OneCommand
  Texts <- OneText
  MaxRounds = 1
  MaxAsks = 0
  MaxFaults = 0
  MaxFreezes = 1
INVARIANTS FreezeIsImmediate
