SPECIFICATION Spec
CONSTANTS
  w1 = w1
  w2 = w2
  m1 = m1
  stop = stop
  send = send
  hello = hello
  NoEvent = NoEvent
  None = None
  Workers <- Processes
  Checkpoints <- NoCheckpoint
  Bounded = FALSE
  Messages <- ChatMessage
  Controls <- NoControl
  Commands <- OneCommand
  Texts <- OneText
  MaxRounds = 2
  MaxAsks = 1
  MaxFaults = 2
  MaxFreezes = 1
SYMMETRY ServiceSymmetry
INVARIANTS TypeOK RepeatNeedsFailure ReplyBeforeComplete DoneIsDelivered FreezeLetsOneThrough
PROPERTIES NoCommandBehindReply
