SPECIFICATION Spec
CONSTANTS
  w1 = w1
  w2 = w2
  r1 = r1
  r2 = r2
  pay = pay
  note = note
  h1 = h1
  NoEvent = NoEvent
  None = None
  Checkpoints <- NoCheckpoint
  Actions <- OneNote
  Bounded = TRUE
  Workers <- OneProcess
  Messages <- OneReply
  Askers <- NoAsker
  Risky <- NoAction
  MaySwitch = FALSE
  MaxFaults = 1
INVARIANTS ApprovedIsAttempted
