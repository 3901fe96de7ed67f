SPECIFICATION Spec
CONSTANTS
  w1 = w1
  w2 = w2
  r1 = r1
  r2 = r2
  pay = pay
  note = note
  h1 = h1
  NoEvent = NoEvent
  None = None
  Checkpoints <- NoCheckpoint
  Actions <- PaymentAndNote
  Bounded = TRUE
  Workers <- Processes
  Messages <- TwoReplies
  Askers <- OneAsker
  Risky <- Payment
  MaySwitch = TRUE
  MaxFaults = 1
SYMMETRY ConfirmationSymmetry
CONSTRAINT OneActionAtATime
INVARIANTS TypeOK PerformedOnce ApprovedHasAction AnnouncedIsPerformed
PROPERTIES KeepsPromise
