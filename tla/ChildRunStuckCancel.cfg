\* ADR 0134 for a Host that dies inside request_cancel; every thread is fair.
SPECIFICATION FairSpec
CONSTANTS
  Executions = {e1}
  NoExecution = NoExecution
  Preparations = {q1}
  Cancels = {c1}
  Recoverers = {r1}
  Publications = {}
  Workers = {}
  Nobody = Nobody
  Faults = FALSE
CHECK_DEADLOCK FALSE
PROPERTY CancellingSettles
