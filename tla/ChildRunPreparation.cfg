\* ADR 0131 for a delegated Child; no append fails.
SPECIFICATION Spec
CONSTANTS
  Executions = {}
  NoExecution = NoExecution
  Preparations = {q1}
  Cancels = {}
  Recoverers = {}
  Publications = {}
  Workers = {}
  Nobody = Nobody
  Faults = FALSE
CHECK_DEADLOCK FALSE
PROPERTY PreparationErrorRecorded
