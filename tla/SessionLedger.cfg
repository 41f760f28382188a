CONSTANTS
  a1 = a1
  a2 = a2
  NoAction = NoAction
  NoRequest = NoRequest
  Action = {a1, a2}
  Receipt = {c1}
  Binding = {b1, b2}
  MaxRecords = 8
  Modes <- MCModes
  ClassOf <- MCClassOf
SYMMETRY Symmetric
SPECIFICATION Spec
INVARIANTS TypeOK DurableFirst EffectsAuthorized
PROPERTIES CorruptedBySlip ImplementsAudit
CHECK_DEADLOCK FALSE
