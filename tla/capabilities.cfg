SPECIFICATION Spec
CONSTANTS
  p1 = p1
  p2 = p2
  m1 = m1
  m2 = m2
  m3 = m3
  Docs = "docs"
  Order = "order"
  Web = "web"
  NoEvent = NoEvent
  None = None
  Inherit = Inherit
  Checkpoints <- NoCheckpoints
  Workers <- OneProcess
  Readers <- OneProcess
  Messages <- AMessageAndAnswers
  Asks <- AMessage
  ByPrincipal <- AMessage
  Bounded = TRUE
  Consoles <- SomeConsoles
  Ceiling <- AllCapabilities
  Packs <- OtherPacks
  WebApproved = TRUE
  MaxActions = 2
  MaxRounds = 3
  MaxIncidents = 2
SYMMETRY AnswerSymmetry
INVARIANTS TypeOK SubmittedOnce NarrowingHolds EvidenceIsSound ApprovalFindsAction
CHECK_DEADLOCK FALSE
