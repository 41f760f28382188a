\* ADR 0134 against a contended writer lock; no append fails.
SPECIFICATION Spec
CONSTANTS
  Executions = {e1}
  NoExecution = NoExecution
  Preparations = {q1}
  Cancels = {c1}
  Recoverers = {}
  Publications = {}
  Workers = {}
  Nobody = Nobody
  Faults = FALSE
CHECK_DEADLOCK FALSE
INVARIANT CommittedTurnWins
