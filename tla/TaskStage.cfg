CONSTANTS
  b1 = b1
  b2 = b2
  c1 = c1
  c2 = c2
  h1 = h1
  m1 = m1
  None = None
  Bridge = {b1, b2}
  Child = {c1, c2}
  HostCriterion = {h1}
  HumanCriterion = {m1}
  AutoVerified = TRUE
  MaxStages = 3
  MaxProvider = 2
  TurnCost = 2
  MaxTurns = 2
SPECIFICATION Spec
SYMMETRY Symmetric
INVARIANTS TypeOK TurnBinding Recoverable ExternalEvidence SpendBounded CompletionSound
PROPERTIES HistoryIsFinal
CHECK_DEADLOCK FALSE
