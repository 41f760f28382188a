CONSTANTS
  Members = 2
  Items = 2
  Assignments = 2
  Messages = 2
  Runs = 2
  Size = 5
  InboxLimit = 1
  MaxAssignments = 2
  MaxParallel = 1
SPECIFICATION Spec
INVARIANTS TypeOK OneDelivery WorkEvidence WavesSettled Recoverable
PROPERTIES CoordinatorEnds
CHECK_DEADLOCK FALSE
